---------------------------- MODULE ScreensProofs ----------------------------
(***************************************************************************)
(* Theorems of the screens' parts, for all users, cells, rows, pictures    *)
(* stacks of screens, posts and comments: what MCScreens checks of         *)
(* UserCells, ProfilePicture, Session, CommentsScreen and LocalStore, but  *)
(* for liveness.                                                           *)
(*                                                                         *)
(* SessionInv knows what lies under a profile and which answers are due.   *)
(* PictureInv knows that nothing names the picture of an upload before the *)
(* upload is done (Fresh), so that no deletion can meet the one the next   *)
(* query will see (Kept).  CellsInv follows every closure from the cell's  *)
(* binding to the queue and into the download (ClosuresAreOwn).            *)
(* CommentsInv says that a post's events are queued in the order of its    *)
(* comments (QueueInOrder) and that the list shown is behind each of them. *)
(* LoopInv says how far sqlHandler has come with the post at hand, that    *)
(* every post behind it is applied, and that its two locals summarise      *)
(* exactly the posts behind it.                                            *)
(***************************************************************************)
EXTENDS MCScreens, SequenceTheorems, TLAPS

-----------------------------------------------------------------------------
(* Session.                                                                *)

LEMMA ScreenType ==
  /\ InSession!Login \in InSession!Screen
  /\ \A owner, shows \in InSession!Someone :
       \A kind \in {"login", "register", "feed", "profile"} :
         [kind |-> kind, owner |-> owner, shows |-> shows] \in InSession!Screen
  /\ Users \subseteq InSession!Someone /\ nobody \in InSession!Someone
BY DEF InSession!Login, InSession!Screen, InSession!Someone

LEMMA OneScreen ==
  ASSUME NEW S, NEW e \in S
  PROVE  <<e>> \in Seq(S) /\ Len(<<e>>) = 1 /\ <<e>>[1] = e
OBVIOUS

LEMMA NonEmpty ==
  ASSUME NEW S, NEW s \in Seq(S), Len(s) >= 1
  PROVE  s # <<>>
OBVIOUS

LEMMA PushIs ==
  ASSUME NEW S, NEW s \in Seq(S), NEW e \in S
  PROVE  /\ Append(s, e) \in Seq(S) /\ Len(s) \in Nat
         /\ Len(Append(s, e)) = Len(s) + 1
         /\ \A i \in 1 .. Len(s) : Append(s, e)[i] = s[i]
         /\ Append(s, e)[Len(s) + 1] = e
OBVIOUS

LEMMA PopIs ==
  ASSUME NEW S, NEW s \in Seq(S), Len(s) > 1
  PROVE  LET t == SubSeq(s, 1, Len(s) - 1) IN
         /\ t \in Seq(S) /\ Len(s) \in Nat /\ Len(t) = Len(s) - 1
         /\ \A i \in 1 .. Len(s) - 1 : t[i] = s[i]
<1>1. Len(s) \in Nat /\ \A i \in 1 .. Len(s) : s[i] \in S
  OBVIOUS
<1>2. Len(s) - 1 \in Int /\ 1 \in Int /\ \A i \in 1 .. Len(s) - 1 : s[i] \in S
  BY <1>1
<1> DEFINE t == SubSeq(s, 1, Len(s) - 1)
<1>3. /\ t \in Seq(S)
      /\ Len(t) = IF 1 <= Len(s) - 1 THEN (Len(s) - 1) - 1 + 1 ELSE 0
      /\ \A i \in 1 .. (Len(s) - 1) - 1 + 1 : t[i] = s[1 + i - 1]
  BY <1>2, SubSeqProperties
<1> HIDE DEF t
<1>4. Len(t) = Len(s) - 1
  BY <1>1, <1>3
<1>5. ASSUME NEW i \in 1 .. Len(s) - 1
      PROVE  t[i] = s[i]
  <2>1. i \in 1 .. (Len(s) - 1) - 1 + 1 /\ 1 + i - 1 = i
    BY <1>1
  <2> QED BY <1>3, <2>1
<1> QED BY <1>1, <1>3, <1>4, <1>5 DEF t

LEMMA ShowInIs ==
  ASSUME NEW s \in Seq(InSession!Screen), NEW a \in InSession!Someone
  PROVE  LET t == InSession!ShowIn(s, a) IN
         /\ t \in Seq(InSession!Screen) /\ Len(s) \in Nat /\ Len(t) = Len(s)
         /\ \A i \in 1 .. Len(s) :
              /\ t[i].kind = s[i].kind /\ t[i].owner = s[i].owner
              /\ t[i].kind = "profile" => t[i].shows = a
<1> DEFINE t == InSession!ShowIn(s, a)
<1>1. Len(s) \in Nat /\ DOMAIN s = 1 .. Len(s)
      /\ \A i \in 1 .. Len(s) : s[i] \in InSession!Screen
  OBVIOUS
<1>2. t = [i \in 1 .. Len(s) |-> IF s[i].kind = "profile"
                                 THEN [s[i] EXCEPT !.shows = a] ELSE s[i]]
  BY <1>1 DEF InSession!ShowIn
<1>3. \A i \in 1 .. Len(s) :
        t[i] = IF s[i].kind = "profile"
               THEN [s[i] EXCEPT !.shows = a] ELSE s[i]
  BY <1>2
<1>4. ASSUME NEW i \in 1 .. Len(s)
      PROVE  /\ t[i] \in InSession!Screen
             /\ t[i].kind = s[i].kind /\ t[i].owner = s[i].owner
             /\ t[i].kind = "profile" => t[i].shows = a
  <2>1. s[i] \in InSession!Screen
    BY <1>1
  <2>2. t[i] = IF s[i].kind = "profile"
               THEN [s[i] EXCEPT !.shows = a] ELSE s[i]
    BY <1>3
  <2> HIDE DEF t
  <2>3. CASE s[i].kind = "profile"
    BY <2>1, <2>2, <2>3 DEF InSession!Screen
  <2>4. CASE s[i].kind # "profile"
    BY <2>1, <2>2, <2>4
  <2> QED BY <2>3, <2>4
<1>5. t \in [1 .. Len(s) -> InSession!Screen]
  <2>1. DOMAIN t = 1 .. Len(s)
    BY <1>2
  <2>2. t = [i \in 1 .. Len(s) |-> t[i]]
    BY <1>2
  <2> HIDE DEF t
  <2> QED BY <1>4, <2>2
<1> HIDE DEF t
<1>6. t \in Seq(InSession!Screen)
  BY <1>1, <1>5, SeqDef
<1>7. Len(t) = Len(s)
  <2>1. DOMAIN t = 1 .. Len(s)
    BY <1>5
  <2>2. Len(t) \in Nat /\ DOMAIN t = 1 .. Len(t)
    BY <1>6, LenProperties
  <2> QED BY <1>1, <2>1, <2>2
<1> QED BY <1>1, <1>4, <1>6, <1>7 DEF t

-----------------------------------------------------------------------------
(* A profile lies on a feed of the same owner; whoever waits for an answer *)
(* is on top; and the profile on top was opened for the user signed in,    *)
(* who is the last the model was told of.                                  *)
ProfilesOverFeeds ==
  \A i \in 1 .. Len(stack) : stack[i].kind = "profile" =>
    /\ i > 1 /\ stack[i - 1].kind = "feed"
    /\ stack[i - 1].owner = stack[i].owner

BusyOnTop == busy => InSession!Top.kind \in {"login", "register"}

AnswersDue ==
  InSession!Top.kind = "profile" =>
    modelUser = user /\ \A a \in profileAsks : a = user \/ a \in lateUsers

SessionInv ==
  /\ InSession!TypeOK /\ ProfilesOverFeeds /\ BusyOnTop /\ AnswersDue
  /\ ScreensAreOwn

LEMMA SessionInit == InSession!Init => SessionInv
<1> SUFFICES ASSUME InSession!Init PROVE SessionInv
  OBVIOUS
<1>1. /\ stack \in Seq(InSession!Screen) /\ Len(stack) = 1
      /\ stack[1] = InSession!Login /\ stack[1].kind = "login"
  BY ScreenType, OneScreen DEF InSession!Init, InSession!Login
<1>2. InSession!TypeOK
  <2>1. Len(stack) >= 1 /\ stack \in Seq(InSession!Screen)
    BY <1>1
  <2>5. stack # <<>>
    BY <2>1, NonEmpty
  <2>2. user \in InSession!Someone /\ modelUser \in InSession!Someone
    BY ScreenType DEF InSession!Init
  <2>3. profileAsks \subseteq Users /\ lateUsers \subseteq Users
    BY DEF InSession!Init
  <2>4. busy \in BOOLEAN /\ feeds \in Nat /\ sessionStops \in Nat
    BY DEF InSession!Init
  <2> QED BY <2>1, <2>2, <2>3, <2>4, <2>5 DEF InSession!TypeOK
<1>3. ProfilesOverFeeds
  BY <1>1 DEF ProfilesOverFeeds
<1>4. BusyOnTop
  <2>1. busy = FALSE
    BY DEF InSession!Init
  <2> QED BY <2>1 DEF BusyOnTop
<1>5. AnswersDue /\ ScreensAreOwn
  BY <1>1 DEF AnswersDue, ScreensAreOwn, InSession!ScreensAreOwn,
     InSession!ProfileShowsOwn, InSession!TopIsOwn, InSession!Top
<1> QED BY <1>2, <1>3, <1>4, <1>5 DEF SessionInv

(* A screen that is no profile is put on top.                              *)
LEMMA Presented ==
  ASSUME SessionInv,
         NEW kind \in {"login", "register", "feed"}, NEW owner \in InSession!Someone,
         InSession!Present(kind, owner)
  PROVE  /\ stack' \in Seq(InSession!Screen) /\ stack' # <<>>
         /\ InSession!Top'.kind = kind /\ InSession!Top'.owner = owner
         /\ ProfilesOverFeeds'
<1> DEFINE e == [kind |-> kind, owner |-> owner, shows |-> nobody]
<1>1. e \in InSession!Screen /\ e.kind = kind /\ e.owner = owner
  BY ScreenType
<1>2. stack' = Append(stack, e) /\ stack \in Seq(InSession!Screen)
  BY DEF InSession!Present, SessionInv, InSession!TypeOK
<1> HIDE DEF e
<1>3. /\ stack' \in Seq(InSession!Screen) /\ Len(stack) \in Nat
      /\ Len(stack') = Len(stack) + 1
      /\ \A i \in 1 .. Len(stack) : stack'[i] = stack[i]
      /\ stack'[Len(stack) + 1] = e
  BY <1>1, <1>2, PushIs
<1>4. stack' # <<>>
  BY <1>3
<1>5. InSession!Top' = e
  BY <1>3 DEF InSession!Top
<1>6. ProfilesOverFeeds'
  <2> SUFFICES ASSUME NEW i \in 1 .. Len(stack'), stack'[i].kind = "profile"
               PROVE  /\ i > 1 /\ stack'[i - 1].kind = "feed"
                      /\ stack'[i - 1].owner = stack'[i].owner
    BY DEF ProfilesOverFeeds
  <2>1. i # Len(stack) + 1
    BY <1>1, <1>3
  <2>2. i \in 1 .. Len(stack)
    BY <1>3, <2>1
  <2>3. /\ i > 1 /\ stack[i - 1].kind = "feed"
        /\ stack[i - 1].owner = stack[i].owner
    BY <1>3, <2>2 DEF SessionInv, ProfilesOverFeeds
  <2>4. i - 1 \in 1 .. Len(stack)
    BY <2>2, <2>3
  <2> QED BY <1>3, <2>2, <2>3, <2>4
<1> QED BY <1>1, <1>3, <1>4, <1>5, <1>6

LEMMA TopOf ==
  ASSUME NEW s \in Seq(InSession!Screen), s # <<>>
  PROVE  /\ Len(s) \in 1 .. Len(s) /\ Len(s) \in Nat /\ Len(s) >= 1
         /\ s[Len(s)] \in InSession!Screen
OBVIOUS

LEMMA SessionTop ==
  ASSUME SessionInv
  PROVE  /\ Len(stack) \in 1 .. Len(stack) /\ Len(stack) \in Nat /\ Len(stack) >= 1
         /\ InSession!Top = stack[Len(stack)] /\ InSession!Top \in InSession!Screen
BY TopOf DEF SessionInv, InSession!TypeOK, InSession!Top

(* A login or registration screen on top says nothing of posts.            *)
LEMMA PresentedForm ==
  ASSUME SessionInv, NEW kind \in {"login", "register"},
         NEW owner \in InSession!Someone, InSession!Present(kind, owner)
  PROVE  /\ stack' \in Seq(InSession!Screen) /\ stack' # <<>>
         /\ ProfilesOverFeeds' /\ AnswersDue' /\ ScreensAreOwn' /\ BusyOnTop'
<1>1. /\ stack' \in Seq(InSession!Screen) /\ stack' # <<>>
      /\ InSession!Top'.kind = kind /\ ProfilesOverFeeds'
  BY Presented
<1>2. /\ InSession!Top'.kind \in {"login", "register"}
      /\ InSession!Top'.kind # "profile" /\ InSession!Top'.kind # "feed"
  BY <1>1
<1>3. AnswersDue'
  BY <1>2 DEF AnswersDue
<1>4. ScreensAreOwn'
  BY <1>2 DEF ScreensAreOwn, InSession!ScreensAreOwn,
     InSession!ProfileShowsOwn, InSession!TopIsOwn
<1>5. BusyOnTop'
  BY <1>2 DEF BusyOnTop
<1> QED BY <1>1, <1>3, <1>4, <1>5

(* A feed on top is the signed-in user's.                                  *)
LEMMA PresentedFeed ==
  ASSUME SessionInv, NEW owner \in InSession!Someone, owner # nobody,
         InSession!GotoMainview(owner), user' = owner, busy' = FALSE
  PROVE  /\ stack' \in Seq(InSession!Screen) /\ stack' # <<>> /\ feeds' \in Nat
         /\ ProfilesOverFeeds' /\ AnswersDue' /\ ScreensAreOwn' /\ BusyOnTop'
<1>1. InSession!Present("feed", owner) /\ feeds' = feeds + 1
  BY DEF InSession!GotoMainview
<1>2. /\ stack' \in Seq(InSession!Screen) /\ stack' # <<>>
      /\ InSession!Top'.kind = "feed" /\ InSession!Top'.owner = owner
      /\ ProfilesOverFeeds'
  BY <1>1, Presented
<1>3. feeds' \in Nat
  BY <1>1 DEF SessionInv, InSession!TypeOK
<1>4. AnswersDue'
  BY <1>2 DEF AnswersDue
<1>5. ScreensAreOwn'
  BY <1>2 DEF ScreensAreOwn, InSession!ScreensAreOwn,
     InSession!ProfileShowsOwn, InSession!TopIsOwn
<1>6. BusyOnTop'
  BY DEF BusyOnTop
<1> QED BY <1>2, <1>3, <1>4, <1>5, <1>6

(* What the profiles list changes, the screens do not.                     *)
LEMMA Shown ==
  ASSUME SessionInv, NEW a \in InSession!Someone,
         stack' = InSession!ShowIn(stack, a)
  PROVE  /\ stack' \in Seq(InSession!Screen) /\ stack' # <<>>
         /\ ProfilesOverFeeds'
         /\ InSession!Top'.kind = InSession!Top.kind
         /\ InSession!Top'.owner = InSession!Top.owner
         /\ InSession!Top'.kind = "profile" => InSession!Top'.shows = a
<1>1. stack \in Seq(InSession!Screen)
  BY DEF SessionInv, InSession!TypeOK
<1>2. /\ stack' \in Seq(InSession!Screen) /\ Len(stack) \in Nat
      /\ Len(stack') = Len(stack)
      /\ \A i \in 1 .. Len(stack) :
           /\ stack'[i].kind = stack[i].kind /\ stack'[i].owner = stack[i].owner
           /\ stack'[i].kind = "profile" => stack'[i].shows = a
  BY <1>1, ShowInIs
<1>3. Len(stack) >= 1 /\ InSession!Top = stack[Len(stack)]
  BY SessionTop
<1>4. stack' # <<>>
  BY <1>2, <1>3
<1>5. InSession!Top' = stack'[Len(stack)]
  BY <1>2 DEF InSession!Top
<1>6. /\ InSession!Top'.kind = InSession!Top.kind
      /\ InSession!Top'.owner = InSession!Top.owner
      /\ InSession!Top'.kind = "profile" => InSession!Top'.shows = a
  BY <1>2, <1>3, <1>5
<1>7. ProfilesOverFeeds'
  <2> SUFFICES ASSUME NEW i \in 1 .. Len(stack'), stack'[i].kind = "profile"
               PROVE  /\ i > 1 /\ stack'[i - 1].kind = "feed"
                      /\ stack'[i - 1].owner = stack'[i].owner
    BY DEF ProfilesOverFeeds
  <2>1. i \in 1 .. Len(stack) /\ stack[i].kind = "profile"
    BY <1>2
  <2>2. /\ i > 1 /\ stack[i - 1].kind = "feed"
        /\ stack[i - 1].owner = stack[i].owner
    BY <2>1 DEF SessionInv, ProfilesOverFeeds
  <2>3. i - 1 \in 1 .. Len(stack)
    BY <1>2, <2>1, <2>2
  <2> QED BY <1>2, <2>1, <2>2, <2>3
<1> QED BY <1>2, <1>4, <1>6, <1>7

LEMMA SessionRest ==
  ASSUME SessionInv, UNCHANGED <<user, stack, modelUser, profileAsks, lateUsers>>
  PROVE  /\ stack' \in Seq(InSession!Screen) /\ stack' # <<>>
         /\ user' \in InSession!Someone /\ modelUser' \in InSession!Someone
         /\ profileAsks' \subseteq Users /\ lateUsers' \subseteq Users
         /\ ProfilesOverFeeds' /\ AnswersDue' /\ ScreensAreOwn'
         /\ InSession!Top' = InSession!Top
<1>1. InSession!Top' = InSession!Top
  BY DEF InSession!Top
<1>2. ProfilesOverFeeds'
  BY DEF SessionInv, ProfilesOverFeeds
<1>3. AnswersDue'
  BY <1>1 DEF SessionInv, AnswersDue
<1>4. ScreensAreOwn'
  BY <1>1 DEF SessionInv, ScreensAreOwn, InSession!ScreensAreOwn,
     InSession!ProfileShowsOwn, InSession!TopIsOwn
<1> QED BY <1>1, <1>2, <1>3, <1>4 DEF SessionInv, InSession!TypeOK

LEMMA SessionSettled ==
  ASSUME stack' \in Seq(InSession!Screen), stack' # <<>>,
         user' \in InSession!Someone, modelUser' \in InSession!Someone,
         profileAsks' \subseteq Users, lateUsers' \subseteq Users,
         busy' \in BOOLEAN, feeds' \in Nat, sessionStops' \in Nat,
         ProfilesOverFeeds', BusyOnTop', AnswersDue', ScreensAreOwn'
  PROVE  SessionInv'
BY DEF SessionInv, InSession!TypeOK

LEMMA SessionForms ==
  ASSUME SessionInv,
         InSession!OnRegisterTapped \/ InSession!BackToLogin \/ InSession!SignOut
  PROVE  SessionInv'
<1>1. PICK kind \in {"login", "register"} : InSession!Present(kind, nobody)
  BY DEF InSession!OnRegisterTapped, InSession!BackToLogin, InSession!SignOut
<1>2. nobody \in InSession!Someone
  BY ScreenType
<1>3. /\ stack' \in Seq(InSession!Screen) /\ stack' # <<>>
      /\ ProfilesOverFeeds' /\ AnswersDue' /\ ScreensAreOwn' /\ BusyOnTop'
  BY <1>1, <1>2, PresentedForm
<1>4. /\ user' \in InSession!Someone
      /\ UNCHANGED <<busy, modelUser, profileAsks, feeds, lateUsers, sessionStops>>
  BY <1>2 DEF SessionInv, InSession!TypeOK, InSession!OnRegisterTapped,
     InSession!BackToLogin, InSession!SignOut
<1> QED BY <1>3, <1>4, SessionSettled DEF SessionInv, InSession!TypeOK

LEMMA SessionFeeds ==
  ASSUME SessionInv,
         InSession!LoginAppears \/ \E a \in Users : InSession!Accepted(a)
  PROVE  SessionInv'
<1>1. PICK owner \in InSession!Someone :
        /\ owner # nobody /\ InSession!GotoMainview(owner)
        /\ user' = owner /\ busy' = FALSE
  <2>1. CASE InSession!LoginAppears
    <3>1. busy \in BOOLEAN /\ user \in InSession!Someone
      BY DEF SessionInv, InSession!TypeOK
    <3> QED BY <2>1, <3>1 DEF InSession!LoginAppears
  <2>2. ASSUME NEW a \in Users, InSession!Accepted(a)
        PROVE  /\ a \in InSession!Someone /\ a # nobody
               /\ InSession!GotoMainview(a) /\ user' = a /\ busy' = FALSE
    BY <2>2, ScreenType, ScreensAssumption
    DEF InSession!Accepted, InSession!SessionAssumption
  <2> QED BY <2>1, <2>2
<1>2. /\ stack' \in Seq(InSession!Screen) /\ stack' # <<>> /\ feeds' \in Nat
      /\ ProfilesOverFeeds' /\ AnswersDue' /\ ScreensAreOwn' /\ BusyOnTop'
  BY <1>1, PresentedFeed
<1>3. UNCHANGED <<modelUser, profileAsks, lateUsers, sessionStops>>
  BY DEF InSession!LoginAppears, InSession!Accepted
<1> QED BY <1>1, <1>2, <1>3, SessionSettled DEF SessionInv, InSession!TypeOK

LEMMA SessionWaits ==
  ASSUME SessionInv, InSession!Submit \/ InSession!Refused
  PROVE  SessionInv'
<1>1. UNCHANGED <<user, stack, modelUser, profileAsks, lateUsers>>
  BY DEF InSession!Submit, InSession!Refused
<1>2. /\ stack' \in Seq(InSession!Screen) /\ stack' # <<>>
      /\ user' \in InSession!Someone /\ modelUser' \in InSession!Someone
      /\ profileAsks' \subseteq Users /\ lateUsers' \subseteq Users
      /\ ProfilesOverFeeds' /\ AnswersDue' /\ ScreensAreOwn'
      /\ InSession!Top' = InSession!Top
  BY <1>1, SessionRest
<1>3. busy' \in BOOLEAN /\ feeds' \in Nat /\ sessionStops' \in Nat
  BY DEF InSession!Submit, InSession!Refused, SessionInv, InSession!TypeOK
<1>4. BusyOnTop'
  <2>1. CASE InSession!Submit
    BY <1>2, <2>1 DEF InSession!Submit, BusyOnTop
  <2>2. CASE InSession!Refused
    <3>1. busy' = FALSE
      BY <2>2 DEF InSession!Refused
    <3> QED BY <3>1 DEF BusyOnTop
  <2> QED BY <2>1, <2>2
<1> QED BY <1>2, <1>3, <1>4, SessionSettled

LEMMA SessionProfileOpens ==
  ASSUME SessionInv, InSession!OpenProfile
  PROVE  SessionInv'
<1> DEFINE e == [kind |-> "profile", owner |-> user, shows |-> nobody]
           s == Append(stack, e)
<1>1. /\ stack \in Seq(InSession!Screen) /\ user \in InSession!Someone
      /\ profileAsks \subseteq Users
  BY DEF SessionInv, InSession!TypeOK
<1>2. /\ Len(stack) \in 1 .. Len(stack) /\ Len(stack) \in Nat /\ Len(stack) >= 1
      /\ InSession!Top = stack[Len(stack)]
  BY SessionTop
<1>3. e \in InSession!Screen /\ e.kind = "profile" /\ e.owner = user
  BY <1>1, ScreenType
<1>4. /\ InSession!Top.kind = "feed" /\ modelUser' = user
      /\ profileAsks' = profileAsks \cup {user}
      /\ stack' = InSession!ShowIn(s, user) /\ lateUsers' = profileAsks
      /\ UNCHANGED <<user, busy, feeds, sessionStops>>
  BY DEF InSession!OpenProfile
<1>5. user # nobody /\ stack[Len(stack)].owner = user
  BY <1>2, <1>4 DEF SessionInv, ScreensAreOwn, InSession!ScreensAreOwn,
     InSession!TopIsOwn
<1>6. user \in Users
  BY <1>1, <1>5 DEF InSession!Someone
<1> HIDE DEF e
<1>7. /\ s \in Seq(InSession!Screen) /\ Len(s) = Len(stack) + 1
      /\ \A i \in 1 .. Len(stack) : s[i] = stack[i]
      /\ s[Len(stack) + 1] = e
  BY <1>1, <1>3, PushIs
<1> HIDE DEF s
<1>8. /\ stack' \in Seq(InSession!Screen) /\ Len(s) \in Nat
      /\ Len(stack') = Len(s)
      /\ \A i \in 1 .. Len(s) :
           /\ stack'[i].kind = s[i].kind /\ stack'[i].owner = s[i].owner
           /\ stack'[i].kind = "profile" => stack'[i].shows = user
  BY <1>1, <1>4, <1>7, ShowInIs
<1>9. /\ stack' # <<>> /\ InSession!Top' = stack'[Len(stack) + 1]
      /\ InSession!Top'.kind = "profile" /\ InSession!Top'.owner = user
      /\ InSession!Top'.shows = user
  <2>1. InSession!Top' = stack'[Len(stack) + 1]
    BY <1>7, <1>8 DEF InSession!Top
  <2>2. Len(stack) + 1 \in 1 .. Len(s)
    BY <1>2, <1>7
  <2>3. stack' # <<>>
    BY <1>2, <1>7, <1>8
  <2> QED BY <1>3, <1>7, <1>8, <2>1, <2>2, <2>3
<1>10. ProfilesOverFeeds'
  <2> SUFFICES ASSUME NEW i \in 1 .. Len(stack'), stack'[i].kind = "profile"
               PROVE  /\ i > 1 /\ stack'[i - 1].kind = "feed"
                      /\ stack'[i - 1].owner = stack'[i].owner
    BY DEF ProfilesOverFeeds
  <2>1. CASE i = Len(stack) + 1
    <3>1. /\ i > 1 /\ i - 1 = Len(stack) /\ i - 1 \in 1 .. Len(s)
          /\ i - 1 \in 1 .. Len(stack)
      BY <1>2, <1>7, <2>1
    <3> QED BY <1>2, <1>3, <1>4, <1>5, <1>7, <1>8, <2>1, <3>1
  <2>2. CASE i # Len(stack) + 1
    <3>1. i \in 1 .. Len(stack) /\ i \in 1 .. Len(s)
      BY <1>2, <1>7, <1>8, <2>2
    <3>2. stack[i].kind = "profile"
      BY <1>7, <1>8, <3>1
    <3>3. /\ i > 1 /\ stack[i - 1].kind = "feed"
          /\ stack[i - 1].owner = stack[i].owner
      BY <3>1, <3>2 DEF SessionInv, ProfilesOverFeeds
    <3>4. i - 1 \in 1 .. Len(stack) /\ i - 1 \in 1 .. Len(s)
      BY <1>2, <1>7, <3>1, <3>3
    <3> QED BY <1>7, <1>8, <3>1, <3>3, <3>4
  <2> QED BY <2>1, <2>2
<1>11. AnswersDue'
  BY <1>4, <1>6 DEF AnswersDue
<1>12. ScreensAreOwn'
  BY <1>4, <1>5, <1>9 DEF ScreensAreOwn, InSession!ScreensAreOwn,
     InSession!ProfileShowsOwn, InSession!TopIsOwn
<1>13. BusyOnTop'
  <2>1. ~busy
    BY <1>4 DEF SessionInv, BusyOnTop
  <2> QED BY <1>4, <2>1 DEF BusyOnTop
<1>14. /\ busy' \in BOOLEAN /\ feeds' \in Nat /\ sessionStops' \in Nat
       /\ user' \in InSession!Someone /\ modelUser' \in InSession!Someone
       /\ profileAsks' \subseteq Users /\ lateUsers' \subseteq Users
  BY <1>1, <1>4, <1>6 DEF SessionInv, InSession!TypeOK
<1> QED BY <1>8, <1>9, <1>10, <1>11, <1>12, <1>13, <1>14, SessionSettled

LEMMA SessionProfileCloses ==
  ASSUME SessionInv, InSession!CloseProfile
  PROVE  SessionInv'
<1>1. stack \in Seq(InSession!Screen) /\ ProfilesOverFeeds
  BY DEF SessionInv, InSession!TypeOK
<1>2. /\ Len(stack) \in 1 .. Len(stack) /\ Len(stack) \in Nat
      /\ InSession!Top = stack[Len(stack)]
  BY SessionTop
<1>3. /\ InSession!Top.kind = "profile"
      /\ stack' = SubSeq(stack, 1, Len(stack) - 1)
      /\ UNCHANGED <<user, busy, modelUser, profileAsks, feeds, lateUsers, sessionStops>>
  BY DEF InSession!CloseProfile
<1>4. /\ Len(stack) > 1 /\ stack[Len(stack) - 1].kind = "feed"
      /\ stack[Len(stack) - 1].owner = stack[Len(stack)].owner
  BY <1>1, <1>2, <1>3 DEF ProfilesOverFeeds
<1>5. /\ stack' \in Seq(InSession!Screen) /\ Len(stack') = Len(stack) - 1
      /\ \A i \in 1 .. Len(stack) - 1 : stack'[i] = stack[i]
  BY <1>1, <1>3, <1>4, PopIs
<1>6. Len(stack) - 1 \in 1 .. Len(stack) - 1 /\ Len(stack) - 1 >= 1
  BY <1>2, <1>4
<1>7. stack' # <<>>
  BY <1>5, <1>6
<1>8. InSession!Top' = stack[Len(stack) - 1]
  BY <1>5, <1>6 DEF InSession!Top
<1>9. ProfilesOverFeeds'
  <2> SUFFICES ASSUME NEW i \in 1 .. Len(stack'), stack'[i].kind = "profile"
               PROVE  /\ i > 1 /\ stack'[i - 1].kind = "feed"
                      /\ stack'[i - 1].owner = stack'[i].owner
    BY DEF ProfilesOverFeeds
  <2>1. i \in 1 .. Len(stack) - 1 /\ i \in 1 .. Len(stack)
    BY <1>2, <1>5
  <2>2. /\ i > 1 /\ stack[i - 1].kind = "feed"
        /\ stack[i - 1].owner = stack[i].owner
    BY <1>1, <1>5, <2>1 DEF ProfilesOverFeeds
  <2>3. i - 1 \in 1 .. Len(stack) - 1
    BY <1>2, <2>1, <2>2
  <2> QED BY <1>5, <2>1, <2>2, <2>3
<1>10. InSession!Top'.kind = "feed" /\ InSession!Top'.owner = user
       /\ user # nobody
  BY <1>2, <1>3, <1>4, <1>8 DEF SessionInv, ScreensAreOwn,
     InSession!ScreensAreOwn, InSession!TopIsOwn
<1>11. AnswersDue'
  BY <1>10 DEF AnswersDue
<1>12. ScreensAreOwn'
  BY <1>3, <1>10 DEF ScreensAreOwn, InSession!ScreensAreOwn,
     InSession!ProfileShowsOwn, InSession!TopIsOwn
<1>13. BusyOnTop'
  <2>1. ~busy
    BY <1>3 DEF SessionInv, BusyOnTop
  <2> QED BY <1>3, <2>1 DEF BusyOnTop
<1> QED BY <1>3, <1>5, <1>7, <1>9, <1>11, <1>12, <1>13, SessionSettled
        DEF SessionInv, InSession!TypeOK

LEMMA SessionNews ==
  ASSUME SessionInv, InSession!FeedNews \/ \E a \in Users : InSession!Answer(a)
  PROVE  SessionInv'
<1>1. PICK a \in InSession!Someone :
        /\ stack' = InSession!ShowIn(stack, a)
        /\ a = modelUser \/ a \in profileAsks
        /\ profileAsks' \subseteq profileAsks
  <2>1. CASE InSession!FeedNews
    BY <2>1 DEF InSession!FeedNews, SessionInv, InSession!TypeOK
  <2>2. ASSUME NEW a \in Users, InSession!Answer(a)
        PROVE  /\ a \in InSession!Someone /\ stack' = InSession!ShowIn(stack, a)
               /\ a \in profileAsks /\ profileAsks' \subseteq profileAsks
    BY <2>2, ScreenType DEF InSession!Answer
  <2> QED BY <2>1, <2>2
<1>2. UNCHANGED <<user, busy, modelUser, feeds, lateUsers, sessionStops>>
  BY DEF InSession!FeedNews, InSession!Answer
<1>3. /\ stack' \in Seq(InSession!Screen) /\ stack' # <<>>
      /\ ProfilesOverFeeds'
      /\ InSession!Top'.kind = InSession!Top.kind
      /\ InSession!Top'.owner = InSession!Top.owner
      /\ InSession!Top'.kind = "profile" => InSession!Top'.shows = a
  BY <1>1, Shown
<1>4. AnswersDue'
  BY <1>1, <1>2, <1>3 DEF SessionInv, AnswersDue
<1>5. InSession!ProfileShowsOwn'
  <2> SUFFICES ASSUME InSession!Top'.kind = "profile"
               PROVE  InSession!Top'.shows = user' \/ InSession!Top'.shows \in lateUsers'
    BY DEF InSession!ProfileShowsOwn
  <2>1. modelUser = user /\ \A b \in profileAsks : b = user \/ b \in lateUsers
    BY <1>3 DEF SessionInv, AnswersDue
  <2> QED BY <1>1, <1>2, <1>3, <2>1
<1>6. InSession!TopIsOwn'
  BY <1>2, <1>3 DEF SessionInv, ScreensAreOwn, InSession!ScreensAreOwn,
     InSession!TopIsOwn
<1>7. ScreensAreOwn'
  BY <1>5, <1>6 DEF ScreensAreOwn, InSession!ScreensAreOwn
<1>8. BusyOnTop'
  BY <1>2, <1>3 DEF SessionInv, BusyOnTop
<1>9. profileAsks' \subseteq Users
  BY <1>1 DEF SessionInv, InSession!TypeOK
<1> QED BY <1>2, <1>3, <1>4, <1>7, <1>8, <1>9, SessionSettled
        DEF SessionInv, InSession!TypeOK

LEMMA SessionStops ==
  ASSUME SessionInv, InSession!Stop
  PROVE  SessionInv'
<1>1. /\ stack' = <<InSession!Login>> /\ busy' = FALSE /\ modelUser' = nobody
      /\ profileAsks' = {} /\ feeds' = 0 /\ lateUsers' = {}
      /\ sessionStops' = sessionStops + 1 /\ user' = user
  BY DEF InSession!Stop
<1>2. /\ stack' \in Seq(InSession!Screen) /\ Len(stack') = 1
      /\ stack'[1] = InSession!Login
  BY <1>1, ScreenType, OneScreen
<1>3. stack' # <<>> /\ stack'[1].kind = "login"
  <2>1. Len(stack') # 0
    BY <1>2
  <2>2. InSession!Login.kind = "login"
    BY DEF InSession!Login
  <2>3. stack' # <<>>
    BY ONLY <2>1
  <2> QED BY <1>2, <2>2, <2>3
<1>4. InSession!Top' = stack'[1]
  <2>1. InSession!Top' = stack'[Len(stack')]
    BY DEF InSession!Top
  <2>2. Len(stack') = 1
    BY <1>2
  <2> QED BY ONLY <2>1, <2>2
<1>5. ProfilesOverFeeds'
  BY <1>2, <1>3 DEF ProfilesOverFeeds
<1>6. AnswersDue' /\ ScreensAreOwn'
  BY <1>3, <1>4 DEF AnswersDue, ScreensAreOwn, InSession!ScreensAreOwn,
     InSession!ProfileShowsOwn, InSession!TopIsOwn
<1>7. BusyOnTop'
  BY <1>1 DEF BusyOnTop
<1>8. user' \in InSession!Someone /\ modelUser' \in InSession!Someone
  BY <1>1, ScreenType DEF SessionInv, InSession!TypeOK
<1>9. profileAsks' \subseteq Users /\ lateUsers' \subseteq Users
  BY <1>1
<1>10. busy' \in BOOLEAN /\ feeds' \in Nat /\ sessionStops' \in Nat
  <2>1. sessionStops \in Nat
    BY DEF SessionInv, InSession!TypeOK
  <2>2. sessionStops' = sessionStops + 1 /\ feeds' = 0
    BY <1>1
  <2>3. sessionStops' \in Nat /\ feeds' \in Nat
    BY <2>1, <2>2
  <2>4. busy' = FALSE
    BY <1>1
  <2> QED BY <2>3, <2>4
<1>11. stack' \in Seq(InSession!Screen) /\ stack' # <<>>
  BY <1>2, <1>3
<1> QED BY <1>5, <1>6, <1>7, <1>8, <1>9, <1>10, <1>11, SessionSettled

LEMMA SessionStep == SessionInv /\ InSession!Next => SessionInv'
BY SessionForms, SessionFeeds, SessionWaits, SessionProfileOpens,
   SessionProfileCloses, SessionNews, SessionStops DEF InSession!Next

LEMMA SessionStutter == SessionInv /\ UNCHANGED session => SessionInv'
<1> SUFFICES ASSUME SessionInv, UNCHANGED session PROVE SessionInv'
  OBVIOUS
<1>1. UNCHANGED <<user, stack, busy, modelUser, profileAsks, feeds, lateUsers,
                  sessionStops>>
  BY DEF session
<1>2. /\ stack' \in Seq(InSession!Screen) /\ stack' # <<>>
      /\ user' \in InSession!Someone /\ modelUser' \in InSession!Someone
      /\ profileAsks' \subseteq Users /\ lateUsers' \subseteq Users
      /\ ProfilesOverFeeds' /\ AnswersDue' /\ ScreensAreOwn'
      /\ InSession!Top' = InSession!Top
  BY <1>1, SessionRest
<1>3. busy' \in BOOLEAN /\ feeds' \in Nat /\ sessionStops' \in Nat /\ BusyOnTop'
  BY <1>1, <1>2 DEF SessionInv, InSession!TypeOK, BusyOnTop
<1> QED BY <1>2, <1>3, SessionSettled

-----------------------------------------------------------------------------
(* ProfilePicture.                                                         *)

(* Pictures are numbered as they are uploaded.                             *)
Numbered ==
  /\ record < next /\ row < next
  /\ \A i \in 1 .. Len(puts) : puts[i] < next

(* The picture of an upload is nobody's until it is done: not the row's,   *)
(* the record's or a write's, in no request to delete and before no other  *)
(* upload's.                                                               *)
FreshOf(u) ==
  /\ u.new # row /\ u.new # record /\ u.pre # u.new
  /\ u.new \notin images /\ u.new \notin deletions
  /\ \A i \in 1 .. Len(puts) : puts[i] # u.new

Fresh ==
  /\ \A u \in uploads : FreshOf(u)
  /\ \A u, v \in uploads : u.new # v.pre /\ (u.new = v.new => u = v)

(* The picture a query sees is in Storage and nobody is about to delete it. *)
Kept ==
  ~lost /\ InPicture!Seen > 0 =>
    InPicture!Seen \in images /\ InPicture!Seen \notin deletions

(* An account without a picture has nothing on its way to one.             *)
NoneYet ==
  record <= 0 => /\ puts = <<>> /\ row <= 0
                 /\ \A u \in uploads : u.pre = 0

PictureInv ==
  /\ InPicture!TypeOK /\ Numbered /\ Fresh /\ Kept /\ NoneYet
  /\ LockedForAReason

(* The state of the pictures, apart from the screen's.                     *)
PictureTypes ==
  /\ record \in Nat \cup {-1} /\ row \in Nat \cup {-1} /\ next \in Nat
  /\ next >= 1
  /\ images \subseteq 1 .. next - 1 /\ deletions \subseteq 1 .. next - 1
  /\ uploads \subseteq [new : 1 .. next - 1, pre : 0 .. next - 1]
  /\ puts \in Seq(1 .. next - 1)

PicturesAre == PictureTypes /\ Numbered /\ Fresh /\ Kept /\ NoneYet

(* The screen's.                                                           *)
ScreenTypes ==
  /\ open \in BOOLEAN /\ locked \in BOOLEAN
  /\ uploadAsks \in Seq({"show", "first", "again"})
  /\ stuck \in BOOLEAN /\ lost \in BOOLEAN
  /\ picks \in Nat /\ pictureStops \in Nat

LEMMA PictureParts == PictureInv <=> PicturesAre /\ ScreenTypes /\ LockedForAReason
BY DEF PictureInv, PicturesAre, PictureTypes, ScreenTypes, InPicture!TypeOK,
   InPicture!NoRecord, InPicture!Picture

LEMMA PutsAre ==
  ASSUME PictureTypes
  PROVE  /\ Len(puts) \in Nat
         /\ \A i \in 1 .. Len(puts) : puts[i] \in 1 .. next - 1
         /\ puts # <<>> => Len(puts) \in 1 .. Len(puts)
         /\ puts = <<>> => Len(puts) = 0
BY DEF PictureTypes

LEMMA SeenIs ==
  ASSUME PicturesAre
  PROVE  /\ InPicture!Seen \in Nat \cup {-1} /\ InPicture!Seen < next
         /\ \A u \in uploads : u.new # InPicture!Seen
         /\ record <= 0 => InPicture!Seen = record
         /\ record > 0 => InPicture!Seen > 0
<1>1. PictureTypes /\ Numbered /\ Fresh /\ NoneYet
  BY DEF PicturesAre
<1>2. /\ Len(puts) \in Nat
      /\ \A i \in 1 .. Len(puts) : puts[i] \in 1 .. next - 1
      /\ puts # <<>> => Len(puts) \in 1 .. Len(puts)
  BY <1>1, PutsAre
<1>3. CASE puts = <<>>
  BY <1>1, <1>3 DEF InPicture!Seen, PictureTypes, Numbered, Fresh, FreshOf
<1>4. CASE puts # <<>>
  <2>1. InPicture!Seen = puts[Len(puts)] /\ Len(puts) \in 1 .. Len(puts)
    BY <1>2, <1>4 DEF InPicture!Seen
  <2>2. InPicture!Seen \in 1 .. next - 1 /\ next \in Nat
    BY <1>1, <1>2, <2>1 DEF PictureTypes
  <2>3. \A u \in uploads : u.new # InPicture!Seen
    BY <1>1, <2>1 DEF Fresh, FreshOf
  <2>4. ~(record <= 0)
    BY <1>1, <1>4 DEF NoneYet
  <2> QED BY <2>2, <2>3, <2>4
<1> QED BY <1>3, <1>4

LEMMA UploadType ==
  ASSUME PictureTypes, NEW u \in uploads
  PROVE  /\ u.new \in 1 .. next - 1 /\ u.pre \in 0 .. next - 1
         /\ u.new \in Nat /\ u.pre \in Nat /\ u.new > 0 /\ u.new < next
         /\ u.pre < next
BY DEF PictureTypes

(* The row takes what the query sees, or stays.                            *)
RowMoves ==
  /\ row' \in {row, InPicture!Seen}
  /\ UNCHANGED <<record, images, deletions, puts, lost>>

LEMMA PicturesRead ==
  ASSUME PicturesAre, RowMoves, UNCHANGED <<uploads, next>>
  PROVE  PicturesAre'
<1>1. /\ InPicture!Seen \in Nat \cup {-1} /\ InPicture!Seen < next
      /\ \A u \in uploads : u.new # InPicture!Seen
      /\ record <= 0 => InPicture!Seen = record
  BY SeenIs
<1>2. UNCHANGED <<record, images, deletions, puts, lost, uploads, next>>
  BY DEF RowMoves
<1>3. InPicture!Seen' = InPicture!Seen
  BY <1>2 DEF InPicture!Seen
<1>4. CASE row' = row
  BY <1>2, <1>3, <1>4
  DEF PicturesAre, PictureTypes, Numbered, Fresh, FreshOf, Kept, NoneYet
<1>5. CASE row' = InPicture!Seen
  <2>1. PictureTypes' /\ Numbered'
    BY <1>1, <1>2, <1>5 DEF PicturesAre, PictureTypes, Numbered
  <2>2. Fresh'
    BY <1>1, <1>2, <1>5 DEF PicturesAre, Fresh, FreshOf
  <2>3. Kept'
    BY <1>2, <1>3 DEF PicturesAre, Kept
  <2>4. NoneYet'
    BY <1>1, <1>2, <1>5 DEF PicturesAre, NoneYet
  <2> QED BY <2>1, <2>2, <2>3, <2>4 DEF PicturesAre
<1> QED BY <1>4, <1>5 DEF RowMoves

LEMMA PicturesUpload ==
  ASSUME PicturesAre, RowMoves,
         NEW pre \in {row, InPicture!Seen}, pre # -1, InPicture!Upload(pre)
  PROVE  PicturesAre'
<1>1. /\ InPicture!Seen \in Nat \cup {-1} /\ InPicture!Seen < next
      /\ \A u \in uploads : u.new # InPicture!Seen
      /\ record <= 0 => InPicture!Seen = record
  BY SeenIs
<1>2. UNCHANGED <<record, images, deletions, puts, lost>>
  BY DEF RowMoves
<1>3. PictureTypes /\ Numbered /\ Fresh /\ Kept /\ NoneYet
  BY DEF PicturesAre
<1>4. /\ pre \in Nat /\ pre < next /\ next \in Nat /\ next >= 1
      /\ \A u \in uploads : u.new # pre
      /\ record <= 0 => pre <= 0
  BY <1>1, <1>3 DEF PictureTypes, Numbered, Fresh, FreshOf, NoneYet
<1>5. /\ row' \in Nat \cup {-1} /\ row' < next
      /\ \A u \in uploads : u.new # row'
      /\ record <= 0 => row' <= 0
  BY <1>1, <1>3 DEF RowMoves, PictureTypes, Numbered, Fresh, FreshOf, NoneYet
<1> DEFINE e == [new |-> next, pre |-> pre]
<1>6. uploads' = uploads \cup {e} /\ next' = next + 1
  BY DEF InPicture!Upload
<1>7. e.new = next /\ e.pre = pre
  OBVIOUS
<1>8. PictureTypes'
  <2>1. 1 .. next - 1 \subseteq 1 .. next' - 1
    BY <1>4, <1>6
  <2>2. puts' \in Seq(1 .. next' - 1)
    BY <1>2, <1>3, <2>1, SeqMonotonic DEF PictureTypes
  <2>3. e \in [new : 1 .. next' - 1, pre : 0 .. next' - 1]
    BY <1>4, <1>6
  <2>4. uploads \subseteq [new : 1 .. next' - 1, pre : 0 .. next' - 1]
    <3>1. 0 .. next - 1 \subseteq 0 .. next' - 1
      BY <1>4, <1>6
    <3>2. uploads \subseteq [new : 1 .. next - 1, pre : 0 .. next - 1]
      BY <1>3 DEF PictureTypes
    <3> QED BY <2>1, <3>1, <3>2
  <2> HIDE DEF e
  <2>5. uploads' \subseteq [new : 1 .. next' - 1, pre : 0 .. next' - 1]
    BY <1>6, <2>3, <2>4
  <2>6. next' \in Nat /\ next' >= 1
    BY <1>4, <1>6
  <2>7. images' \subseteq 1 .. next' - 1 /\ deletions' \subseteq 1 .. next' - 1
    BY <1>2, <1>3, <2>1 DEF PictureTypes
  <2> QED BY <1>2, <1>3, <1>5, <2>2, <2>5, <2>6, <2>7 DEF PictureTypes
<1> HIDE DEF e
<1>9. Numbered'
  <2>1. \A i \in 1 .. Len(puts) : puts[i] \in Nat
    BY <1>3, PutsAre
  <2> QED BY <1>2, <1>3, <1>4, <1>5, <1>6, <2>1 DEF Numbered, PictureTypes
<1>10. Fresh'
  <2>1. ASSUME NEW u \in uploads
        PROVE  /\ u.new # row' /\ u.new # record /\ u.pre # u.new
               /\ u.new \notin images /\ u.new \notin deletions
               /\ \A i \in 1 .. Len(puts) : puts[i] # u.new
               /\ u.new # e.pre /\ u.new # e.new /\ e.new # u.pre
    <3>1. FreshOf(u)
      BY <1>3 DEF Fresh
    <3>2. u.new < next /\ u.pre < next /\ u.new \in Nat /\ u.pre \in Nat
      BY <1>3, UploadType
    <3>3. u.new # next /\ u.pre # next
      BY <1>4, <3>2
    <3> QED BY <1>4, <1>5, <1>7, <3>1, <3>3 DEF FreshOf
  <2>2. /\ e.new # row' /\ e.new # record /\ e.pre # e.new
        /\ e.new \notin images /\ e.new \notin deletions
        /\ \A i \in 1 .. Len(puts) : puts[i] # e.new
    <3>1. next \notin 1 .. next - 1
      BY <1>4
    <3>2. \A i \in 1 .. Len(puts) : puts[i] # next
      BY <1>3, <3>1, PutsAre
    <3>3. next # row' /\ next # record /\ pre # next
      BY <1>3, <1>4, <1>5 DEF Numbered, PictureTypes
    <3> QED BY <1>3, <1>7, <3>1, <3>2, <3>3 DEF PictureTypes
  <2>3. \A u \in uploads' : FreshOf(u)'
    BY <1>2, <1>6, <2>1, <2>2 DEF FreshOf
  <2>4. \A u, v \in uploads' : u.new # v.pre /\ (u.new = v.new => u = v)
    <3>1. \A u, v \in uploads : u.new # v.pre /\ (u.new = v.new => u = v)
      BY <1>3 DEF Fresh
    <3>2. e.new # e.pre
      BY <2>2
    <3> QED BY <1>6, <2>1, <3>1, <3>2
  <2> QED BY <2>3, <2>4 DEF Fresh
<1>11. Kept'
  BY <1>2, <1>3 DEF Kept, InPicture!Seen
<1>12. NoneYet'
  <2> SUFFICES ASSUME record' <= 0
               PROVE  puts' = <<>> /\ row' <= 0 /\ \A u \in uploads' : u.pre = 0
    BY DEF NoneYet
  <2>1. record <= 0
    BY <1>2
  <2>2. pre = 0
    BY <1>4, <2>1
  <2> QED BY <1>2, <1>3, <1>5, <1>6, <1>7, <2>1, <2>2 DEF NoneYet
<1> QED BY <1>8, <1>9, <1>10, <1>11, <1>12 DEF PicturesAre

(* An upload that failed, and one that is done.                            *)
LEMMA PicturesDrop ==
  ASSUME PicturesAre, NEW u \in uploads, uploads' = uploads \ {u},
         UNCHANGED <<record, images, row, deletions, puts, next, lost>>
  PROVE  PicturesAre'
BY DEF PicturesAre, PictureTypes, Numbered, Fresh, FreshOf, Kept, NoneYet,
   InPicture!Seen

LEMMA PicturesReplace ==
  ASSUME PicturesAre, NEW u \in uploads, u.pre # 0,
         images' = images \cup {u.new}, deletions' = deletions \cup {u.pre},
         puts' = Append(puts, u.new), uploads' = uploads \ {u},
         UNCHANGED <<record, row, next, lost>>
  PROVE  PicturesAre'
<1>1. PictureTypes /\ Numbered /\ Fresh /\ Kept /\ NoneYet
  BY DEF PicturesAre
<1>2. /\ u.new \in 1 .. next - 1 /\ u.pre \in 0 .. next - 1
      /\ u.new \in Nat /\ u.pre \in Nat /\ u.new > 0 /\ u.new < next
  BY <1>1, UploadType
<1>3. FreshOf(u) /\ \A v \in uploads' : FreshOf(v) /\ v.new # u.pre /\ v.pre # u.new
      /\ v.new # u.new
  BY <1>1 DEF Fresh
<1>4. puts \in Seq(1 .. next - 1)
  BY <1>1 DEF PictureTypes
<1>5. /\ puts' \in Seq(1 .. next - 1) /\ Len(puts) \in Nat
      /\ Len(puts') = Len(puts) + 1
      /\ \A i \in 1 .. Len(puts) : puts'[i] = puts[i]
      /\ puts'[Len(puts) + 1] = u.new
  BY <1>2, <1>4, PushIs
<1>6. Len(puts') >= 1 /\ Len(puts') \in Nat
  BY <1>5
<1>7. puts' # <<>>
  BY <1>5, <1>6, NonEmpty
<1>8. InPicture!Seen' = u.new
  BY <1>5, <1>7 DEF InPicture!Seen
<1>9. record > 0
  <2>1. ~(record <= 0)
    BY <1>1 DEF NoneYet
  <2> QED BY <1>1, <2>1 DEF PictureTypes
<1>10. PictureTypes'
  <2>1. u.pre \in 1 .. next - 1
    BY <1>1, <1>2 DEF PictureTypes
  <2> QED BY <1>1, <1>2, <1>5, <2>1 DEF PictureTypes
<1>11. \A i \in 1 .. Len(puts') : (i \in 1 .. Len(puts) /\ puts'[i] = puts[i])
                                    \/ puts'[i] = u.new
  BY <1>5
<1>12. Numbered'
  BY <1>1, <1>2, <1>11 DEF Numbered
<1>13. Fresh'
  <2>1. ASSUME NEW v \in uploads'
        PROVE  FreshOf(v)'
    <3>1. FreshOf(v) /\ v.new # u.pre /\ v.new # u.new
      BY <1>3, <2>1
    <3>2. \A i \in 1 .. Len(puts') : puts'[i] # v.new
      BY <1>11, <3>1 DEF FreshOf
    <3> QED BY <3>1, <3>2 DEF FreshOf
  <2>2. \A v, w \in uploads' : v.new # w.pre /\ (v.new = w.new => v = w)
    BY <1>1 DEF Fresh
  <2> QED BY <2>1, <2>2 DEF Fresh
<1>14. Kept'
  <2>1. u.new \in images' /\ u.new \notin deletions'
    BY <1>3 DEF FreshOf
  <2> QED BY <1>8, <2>1 DEF Kept
<1>15. NoneYet'
  <2>1. ~(record' <= 0)
    BY <1>1, <1>9 DEF PictureTypes
  <2> QED BY <2>1 DEF NoneYet
<1> QED BY <1>10, <1>12, <1>13, <1>14, <1>15 DEF PicturesAre

(* The process ends: of what was under way only requests to Storage may    *)
(* have been carried out.                                                  *)
LEMMA PicturesEnd ==
  ASSUME PicturesAre, uploads' = {}, deletions' = {}, puts' = <<>>,
         images' \subseteq 1 .. next - 1, images \ deletions \subseteq images',
         lost' = (lost \/ puts # <<>>),
         UNCHANGED <<record, row, next>>
  PROVE  PicturesAre'
<1>1. PictureTypes /\ Numbered /\ Fresh /\ Kept /\ NoneYet
  BY DEF PicturesAre
<1>2. puts' \in Seq(1 .. next - 1) /\ Len(puts') = 0
  BY EmptySeq
<1>3. PictureTypes' /\ Numbered' /\ Fresh' /\ NoneYet'
  BY <1>1, <1>2 DEF PictureTypes, Numbered, Fresh, NoneYet
<1>4. Kept'
  <2>1. InPicture!Seen' = record
    BY DEF InPicture!Seen
  <2>2. CASE puts = <<>>
    <3>1. InPicture!Seen = record
      BY <2>2 DEF InPicture!Seen
    <3> QED BY <1>1, <2>1, <3>1 DEF Kept
  <2>3. CASE puts # <<>>
    BY <2>3 DEF Kept
  <2> QED BY <2>2, <2>3
<1> QED BY <1>3, <1>4 DEF PicturesAre

LEMMA PicturesDeleted ==
  ASSUME PicturesAre, NEW q \in deletions, deletions' = deletions \ {q},
         images' = images \ {q},
         UNCHANGED <<record, row, uploads, puts, next, lost>>
  PROVE  PicturesAre'
BY DEF PicturesAre, PictureTypes, Numbered, Fresh, FreshOf, Kept, NoneYet,
   InPicture!Seen

LEMMA PicturesLand ==
  ASSUME PicturesAre, puts # <<>>, record' = Head(puts), puts' = Tail(puts),
         UNCHANGED <<images, row, deletions, uploads, next, lost>>
  PROVE  PicturesAre'
<1>1. PictureTypes /\ Numbered /\ Fresh /\ Kept /\ NoneYet
  BY DEF PicturesAre
<1>2. puts \in Seq(1 .. next - 1)
  BY <1>1 DEF PictureTypes
<1>3. /\ Len(puts) \in Nat /\ Len(puts) \in 1 .. Len(puts)
      /\ \A i \in 1 .. Len(puts) : puts[i] \in 1 .. next - 1
  BY <1>1, PutsAre
<1>4. /\ puts' \in Seq(1 .. next - 1) /\ Len(puts') = Len(puts) - 1
      /\ \A i \in 1 .. Len(puts') : puts'[i] = puts[i + 1]
  BY <1>2, HeadTailProperties
<1>5. record' = puts[1] /\ 1 \in 1 .. Len(puts)
  BY <1>2, <1>3
<1>6. record' \in 1 .. next - 1
  BY <1>3, <1>5
<1>7. \A i \in 1 .. Len(puts') : i + 1 \in 1 .. Len(puts)
  BY <1>3, <1>4
<1>8. PictureTypes'
  BY <1>1, <1>4, <1>6 DEF PictureTypes
<1>9. Numbered'
  <2>1. record' < next
    BY <1>1, <1>6 DEF PictureTypes
  <2> QED BY <1>1, <1>4, <1>7, <2>1 DEF Numbered
<1>10. Fresh'
  <2>1. ASSUME NEW v \in uploads
        PROVE  FreshOf(v)'
    <3>1. FreshOf(v)
      BY <1>1 DEF Fresh
    <3>2. v.new # record'
      BY <1>5, <3>1 DEF FreshOf
    <3>3. \A i \in 1 .. Len(puts') : puts'[i] # v.new
      BY <1>4, <1>7, <3>1 DEF FreshOf
    <3> QED BY <3>1, <3>2, <3>3 DEF FreshOf
  <2> QED BY <1>1, <2>1 DEF Fresh
<1>11. InPicture!Seen' = InPicture!Seen
  <2>1. CASE puts' = <<>>
    <3>1. Len(puts') = 0
      BY <2>1, EmptySeq
    <3>2. Len(puts) = 1
      BY <1>3, <1>4, <3>1
    <3> QED BY <1>5, <2>1, <3>2 DEF InPicture!Seen
  <2>2. CASE puts' # <<>>
    <3>1. Len(puts') \in 1 .. Len(puts') /\ Len(puts') + 1 = Len(puts)
      BY <1>3, <1>4, <2>2
    <3> QED BY <1>4, <2>2, <3>1 DEF InPicture!Seen
  <2> QED BY <2>1, <2>2
<1>12. Kept'
  BY <1>1, <1>11 DEF Kept
<1>13. NoneYet'
  <2>1. record' > 0 /\ record' \in Nat
    BY <1>1, <1>6 DEF PictureTypes
  <2>2. ~(record' <= 0)
    BY <2>1
  <2> QED BY <2>2 DEF NoneYet
<1> QED BY <1>8, <1>9, <1>10, <1>12, <1>13 DEF PicturesAre

-----------------------------------------------------------------------------
LEMMA PictureInit == InPicture!Init => PictureInv
<1> SUFFICES ASSUME InPicture!Init PROVE PictureInv
  OBVIOUS
<1>1. /\ record \in {-1, 0, 1} /\ images = {record} \cap {1} /\ next = 2
      /\ row = -1 /\ uploads = {} /\ deletions = {} /\ puts = <<>>
      /\ uploadAsks = <<>>
  BY DEF InPicture!Init, InPicture!NoRecord
<1>2. /\ puts \in Seq(1 .. next - 1) /\ Len(puts) = 0
      /\ uploadAsks \in Seq({"show", "first", "again"})
  BY <1>1, EmptySeq
<1>3. PictureTypes /\ Numbered
  BY <1>1, <1>2 DEF PictureTypes, Numbered
<1>4. Fresh /\ NoneYet
  BY <1>1 DEF Fresh, NoneYet
<1>5. Kept
  <2>1. InPicture!Seen = record
    BY <1>1 DEF InPicture!Seen
  <2>2. InPicture!Seen > 0 =>
          InPicture!Seen \in images /\ InPicture!Seen \notin deletions
    <3>1. record > 0 => record = 1
      BY <1>1
    <3>2. record = 1 => record \in images /\ record \notin deletions
      BY <1>1
    <3> QED BY <2>1, <3>1, <3>2
  <2> QED BY <2>2 DEF Kept
<1>6. ScreenTypes
  <2>1. picks \in Nat /\ pictureStops \in Nat
    BY DEF InPicture!Init
  <2>2. open = FALSE /\ locked = FALSE /\ stuck = FALSE /\ lost = FALSE
    BY DEF InPicture!Init
  <2> QED BY <1>2, <2>1, <2>2 DEF ScreenTypes
<1>7. LockedForAReason
  <2>1. locked = FALSE
    BY DEF InPicture!Init
  <2> QED BY <2>1 DEF LockedForAReason, InPicture!LockedForAReason
<1> QED BY <1>3, <1>4, <1>5, <1>6, <1>7, PictureParts DEF PicturesAre

LEMMA PictureUnfolds ==
  ASSUME PictureInv
  PROVE  /\ PicturesAre /\ PictureTypes /\ ScreenTypes
         /\ uploadAsks \in Seq({"show", "first", "again"})
         /\ locked => \/ stuck \/ uploads # {}
                      \/ \E i \in DOMAIN uploadAsks : uploadAsks[i] = "first"
BY PictureParts DEF PicturesAre, ScreenTypes, LockedForAReason,
   InPicture!LockedForAReason

LEMMA PictureSettled ==
  ASSUME PicturesAre', ScreenTypes',
         locked' => \/ stuck' \/ uploads' # {}
                    \/ \E i \in DOMAIN uploadAsks' : uploadAsks'[i] = "first"
  PROVE  PictureInv'
<1>1. LockedForAReason'
  BY DEF LockedForAReason, InPicture!LockedForAReason
<1>2. InPicture!TypeOK'
  <2>1. PictureTypes'
    BY DEF PicturesAre
  <2>2. next' \in Nat \ {0}
    BY <2>1 DEF PictureTypes
  <2> QED BY <2>1, <2>2 DEF PictureTypes, ScreenTypes, InPicture!TypeOK,
          InPicture!NoRecord, InPicture!Picture
<1> QED BY <1>1, <1>2 DEF PictureInv, PicturesAre

(* The closures that wait: one more, one less.                             *)
LEMMA AsksGrow ==
  ASSUME NEW s \in Seq({"show", "first", "again"}),
         NEW a \in {"show", "first", "again"}
  PROVE  /\ Append(s, a) \in Seq({"show", "first", "again"})
         /\ (\E i \in DOMAIN s : s[i] = "first")
              => \E i \in DOMAIN Append(s, a) : Append(s, a)[i] = "first"
         /\ a = "first" => \E i \in DOMAIN Append(s, a) : Append(s, a)[i] = "first"
<1> DEFINE t == Append(s, a)
<1>1. /\ t \in Seq({"show", "first", "again"}) /\ Len(s) \in Nat
      /\ Len(t) = Len(s) + 1
      /\ \A i \in 1 .. Len(s) : t[i] = s[i]
      /\ t[Len(s) + 1] = a
  BY PushIs
<1> HIDE DEF t
<1>2. DOMAIN s = 1 .. Len(s) /\ DOMAIN t = 1 .. Len(s) + 1
  BY <1>1, LenProperties
<1>3. \A i \in DOMAIN s : i \in DOMAIN t /\ t[i] = s[i]
  BY <1>1, <1>2
<1>4. Len(s) + 1 \in DOMAIN t
  BY <1>1, <1>2
<1>5. (\E i \in DOMAIN s : s[i] = "first") => \E i \in DOMAIN t : t[i] = "first"
  BY <1>3
<1>6. a = "first" => \E i \in DOMAIN t : t[i] = "first"
  BY <1>1, <1>4
<1> QED BY <1>1, <1>5, <1>6 DEF t

LEMMA AsksShrink ==
  ASSUME NEW s \in Seq({"show", "first", "again"}), s # <<>>
  PROVE  /\ Tail(s) \in Seq({"show", "first", "again"})
         /\ (\E i \in DOMAIN s : s[i] = "first")
              => Head(s) = "first" \/ \E i \in DOMAIN Tail(s) : Tail(s)[i] = "first"
<1> DEFINE t == Tail(s)
<1>1. /\ t \in Seq({"show", "first", "again"}) /\ Len(t) = Len(s) - 1
      /\ \A i \in 1 .. Len(t) : t[i] = s[i + 1]
      /\ Len(s) \in Nat /\ Head(s) = s[1]
  BY HeadTailProperties, LenProperties
<1> HIDE DEF t
<1>2. DOMAIN s = 1 .. Len(s) /\ DOMAIN t = 1 .. Len(t)
  BY <1>1, LenProperties
<1>3. ASSUME NEW i \in DOMAIN s, s[i] = "first"
      PROVE  Head(s) = "first" \/ \E j \in DOMAIN t : t[j] = "first"
  <2>1. CASE i = 1
    BY <1>1, <1>3, <2>1
  <2>2. CASE i # 1
    <3>1. i - 1 \in DOMAIN t /\ (i - 1) + 1 = i
      BY <1>1, <1>2, <2>2
    <3>2. t[i - 1] = s[i]
      BY <1>1, <1>2, <3>1
    <3> QED BY <1>3, <3>1, <3>2
  <2> QED BY <2>1, <2>2
<1>4. (\E i \in DOMAIN s : s[i] = "first")
        => Head(s) = "first" \/ \E j \in DOMAIN t : t[j] = "first"
  BY <1>3
<1> QED BY <1>1, <1>4 DEF t

LEMMA PictureScreen ==
  ASSUME PictureInv, InPicture!OpenProfile \/ InPicture!Close
  PROVE  PictureInv'
<1>1. /\ PicturesAre /\ ScreenTypes
      /\ uploadAsks \in Seq({"show", "first", "again"})
      /\ locked => \/ stuck \/ uploads # {}
                   \/ \E i \in DOMAIN uploadAsks : uploadAsks[i] = "first"
  BY PictureUnfolds
<1>2. /\ UNCHANGED <<record, images, row, deletions, puts, lost, uploads, next>>
      /\ UNCHANGED <<locked, stuck, picks, pictureStops>>
      /\ uploadAsks' \in {uploadAsks, Append(uploadAsks, "show")}
      /\ open' \in BOOLEAN
  BY DEF InPicture!OpenProfile, InPicture!Close
<1>3. PicturesAre'
  BY <1>1, <1>2, PicturesRead DEF RowMoves
<1>4. /\ uploadAsks' \in Seq({"show", "first", "again"})
      /\ (\E i \in DOMAIN uploadAsks : uploadAsks[i] = "first")
           => \E i \in DOMAIN uploadAsks' : uploadAsks'[i] = "first"
  <2>1. CASE uploadAsks' = uploadAsks
    BY <1>1, <2>1
  <2>2. CASE uploadAsks' = Append(uploadAsks, "show")
    BY <1>1, <2>2, AsksGrow
  <2> QED BY <1>2, <2>1, <2>2
<1>5. ScreenTypes'
  BY <1>1, <1>2, <1>4 DEF ScreenTypes
<1> QED BY <1>1, <1>2, <1>3, <1>4, <1>5, PictureSettled

LEMMA PicturePick ==
  ASSUME PictureInv, InPicture!Pick
  PROVE  PictureInv'
<1>1. /\ PicturesAre /\ ScreenTypes /\ PictureTypes
      /\ uploadAsks \in Seq({"show", "first", "again"})
  BY PictureUnfolds
<1>2. /\ UNCHANGED <<record, images, row, open, deletions, puts, stuck, lost,
                     pictureStops>>
      /\ picks' = picks + 1 /\ locked' = TRUE
  BY DEF InPicture!Pick
<1>3. picks' \in Nat
  BY <1>1, <1>2 DEF ScreenTypes
<1>4. CASE row # -1
  <2>1. uploadAsks' = Append(uploadAsks, "again") /\ InPicture!Upload(row)
    BY <1>4 DEF InPicture!Pick, InPicture!NoRecord
  <2>2. PicturesAre'
    <3>1. row \in {row, InPicture!Seen} /\ RowMoves
      BY <1>2 DEF RowMoves
    <3> QED BY <1>1, <1>4, <2>1, <3>1, PicturesUpload
  <2>3. uploadAsks' \in Seq({"show", "first", "again"})
    BY <1>1, <2>1, AsksGrow
  <2>4. uploads' # {}
    BY <2>1 DEF InPicture!Upload
  <2>5. ScreenTypes'
    BY <1>1, <1>2, <1>3, <2>3 DEF ScreenTypes
  <2> QED BY <2>2, <2>4, <2>5, PictureSettled
<1>5. CASE row = -1
  <2>1. uploadAsks' = Append(uploadAsks, "first") /\ UNCHANGED <<uploads, next>>
    BY <1>5 DEF InPicture!Pick, InPicture!NoRecord
  <2>2. PicturesAre'
    <3>1. RowMoves
      BY <1>2 DEF RowMoves
    <3> QED BY <1>1, <2>1, <3>1, PicturesRead
  <2>3. /\ uploadAsks' \in Seq({"show", "first", "again"})
        /\ \E i \in DOMAIN uploadAsks' : uploadAsks'[i] = "first"
    BY <1>1, <2>1, AsksGrow
  <2>4. ScreenTypes'
    BY <1>1, <1>2, <1>3, <2>3 DEF ScreenTypes
  <2> QED BY <2>2, <2>3, <2>4, PictureSettled
<1> QED BY <1>4, <1>5

LEMMA PictureAnswer ==
  ASSUME PictureInv, InPicture!Answer
  PROVE  PictureInv'
<1>1. /\ PicturesAre /\ ScreenTypes /\ PictureTypes
      /\ uploadAsks \in Seq({"show", "first", "again"})
      /\ locked => \/ stuck \/ uploads # {}
                   \/ \E i \in DOMAIN uploadAsks : uploadAsks[i] = "first"
  BY PictureUnfolds
<1>2. /\ uploadAsks # <<>> /\ uploadAsks' = Tail(uploadAsks)
      /\ row' = IF InPicture!Seen = -1 THEN row ELSE InPicture!Seen
      /\ UNCHANGED <<record, images, open, locked, deletions, puts, lost, picks,
                     pictureStops>>
  BY DEF InPicture!Answer, InPicture!NoRecord
<1>3. /\ uploadAsks' \in Seq({"show", "first", "again"})
      /\ (\E i \in DOMAIN uploadAsks : uploadAsks[i] = "first")
           => \/ Head(uploadAsks) = "first"
              \/ \E i \in DOMAIN uploadAsks' : uploadAsks'[i] = "first"
  BY <1>1, <1>2, AsksShrink
<1>4. RowMoves
  BY <1>2 DEF RowMoves
<1>5. CASE InPicture!Missed
  <2>1. stuck' = (stuck \/ Head(uploadAsks) = "first") /\ UNCHANGED <<uploads, next>>
    BY <1>5 DEF InPicture!Missed
  <2>2. PicturesAre'
    BY <1>1, <1>4, <2>1, PicturesRead
  <2>3. stuck' \in BOOLEAN
    BY <2>1
  <2>4. ScreenTypes'
    BY <1>1, <1>2, <1>3, <2>3 DEF ScreenTypes
  <2> QED BY <1>1, <1>2, <1>3, <2>1, <2>2, <2>4, PictureSettled
<1>6. CASE InPicture!Seen # -1 /\ InPicture!Upload(InPicture!Seen) /\ UNCHANGED stuck
  <2>1. PicturesAre'
    <3>1. InPicture!Seen \in {row, InPicture!Seen}
      OBVIOUS
    <3> QED BY <1>1, <1>4, <1>6, <3>1, PicturesUpload
  <2>2. uploads' # {}
    BY <1>6 DEF InPicture!Upload
  <2>3. ScreenTypes'
    BY <1>1, <1>2, <1>3, <1>6 DEF ScreenTypes
  <2> QED BY <2>1, <2>2, <2>3, PictureSettled
<1> QED BY <1>5, <1>6 DEF InPicture!Answer, InPicture!NoRecord

(* The screen is gone with the process.                                    *)
LEMMA PictureEnds ==
  ASSUME PictureInv, open' = FALSE, locked' = FALSE, uploadAsks' = <<>>,
         uploads' = {}, deletions' = {}, puts' = <<>>, stuck' = FALSE,
         lost' = (lost \/ puts # <<>>), picks' \in Nat, pictureStops' \in Nat,
         images' \subseteq 1 .. next - 1, images \ deletions \subseteq images',
         UNCHANGED <<record, row, next>>
  PROVE  PictureInv'
<1>1. PicturesAre
  BY PictureUnfolds
<1>2. PicturesAre'
  BY <1>1, PicturesEnd
<1>3. uploadAsks' \in Seq({"show", "first", "again"})
  BY EmptySeq
<1>4. ScreenTypes'
  BY <1>3 DEF ScreenTypes
<1> QED BY <1>2, <1>4, PictureSettled

LEMMA PictureUploaded ==
  ASSUME PictureInv, InPicture!Uploaded
  PROVE  PictureInv'
<1>1. /\ PicturesAre /\ ScreenTypes /\ PictureTypes
      /\ uploadAsks \in Seq({"show", "first", "again"})
  BY PictureUnfolds
<1>2. PICK u \in uploads : images' = images \cup {u.new} /\ InPicture!Replace(u)
  BY DEF InPicture!Uploaded
<1>3. u.new \in 1 .. next - 1
  BY <1>1, UploadType
<1>4. CASE u.pre = 0
  <2>1. InPicture!Dies
    BY <1>2, <1>4 DEF InPicture!Replace
  <2>2. images' \subseteq 1 .. next - 1 /\ images \ deletions \subseteq images'
    BY <1>1, <1>2, <1>3 DEF PictureTypes
  <2>3. picks' \in Nat /\ pictureStops' \in Nat
    BY <1>1, <2>1 DEF ScreenTypes, InPicture!Dies
  <2> QED BY <2>1, <2>2, <2>3, PictureEnds DEF InPicture!Dies
<1>5. CASE u.pre # 0
  <2>1. /\ deletions' = deletions \cup {u.pre}
        /\ puts' = Append(puts, u.new) /\ locked' = FALSE
        /\ uploads' = uploads \ {u}
        /\ UNCHANGED <<record, row, next, lost>>
        /\ UNCHANGED <<open, uploadAsks, stuck, picks, pictureStops>>
    BY <1>2, <1>5 DEF InPicture!Replace
  <2>2. PicturesAre'
    BY <1>1, <1>2, <1>5, <2>1, PicturesReplace
  <2>3. ScreenTypes'
    BY <1>1, <2>1 DEF ScreenTypes
  <2> QED BY <2>1, <2>2, <2>3, PictureSettled
<1> QED BY <1>4, <1>5

LEMMA PictureNotUploaded ==
  ASSUME PictureInv, InPicture!NotUploaded
  PROVE  PictureInv'
<1>1. PicturesAre /\ ScreenTypes
  BY PictureUnfolds
<1>2. PICK u \in uploads : uploads' = uploads \ {u}
  BY DEF InPicture!NotUploaded
<1>3. /\ stuck' = TRUE
      /\ UNCHANGED <<record, images, row, deletions, puts, next, lost>>
      /\ UNCHANGED <<open, locked, uploadAsks, picks, pictureStops>>
  BY DEF InPicture!NotUploaded
<1>4. PicturesAre'
  BY <1>1, <1>2, <1>3, PicturesDrop
<1>5. ScreenTypes'
  BY <1>1, <1>3 DEF ScreenTypes
<1> QED BY <1>3, <1>4, <1>5, PictureSettled

LEMMA PictureDatabase ==
  ASSUME PictureInv, InPicture!Deleted \/ InPicture!Land
  PROVE  PictureInv'
<1>1. /\ PicturesAre /\ ScreenTypes
      /\ locked => \/ stuck \/ uploads # {}
                   \/ \E i \in DOMAIN uploadAsks : uploadAsks[i] = "first"
  BY PictureUnfolds
<1>2. UNCHANGED <<open, locked, uploadAsks, uploads, stuck, lost, picks,
                  pictureStops>>
  BY DEF InPicture!Deleted, InPicture!Land
<1>3. PicturesAre'
  <2>1. CASE InPicture!Deleted
    <3>1. PICK q \in deletions : deletions' = deletions \ {q} /\ images' = images \ {q}
      BY <2>1 DEF InPicture!Deleted
    <3>2. UNCHANGED <<record, row, uploads, puts, next, lost>>
      BY <2>1 DEF InPicture!Deleted
    <3> QED BY <1>1, <3>1, <3>2, PicturesDeleted
  <2>2. CASE InPicture!Land
    <3>1. /\ puts # <<>> /\ record' = Head(puts) /\ puts' = Tail(puts)
          /\ UNCHANGED <<images, row, deletions, uploads, next, lost>>
      BY <2>2 DEF InPicture!Land
    <3> QED BY <1>1, <3>1, PicturesLand
  <2> QED BY <2>1, <2>2
<1>4. ScreenTypes'
  BY <1>1, <1>2 DEF ScreenTypes
<1> QED BY <1>1, <1>2, <1>3, <1>4, PictureSettled

LEMMA PictureStop ==
  ASSUME PictureInv, InPicture!Stop
  PROVE  PictureInv'
<1>1. PicturesAre /\ ScreenTypes /\ PictureTypes
  BY PictureUnfolds
<1>2. PICK q \in SUBSET deletions : images' = images \ q
  BY DEF InPicture!Stop
<1>3. images' \subseteq 1 .. next - 1 /\ images \ deletions \subseteq images'
  BY <1>1, <1>2 DEF PictureTypes
<1>4. picks' \in Nat /\ pictureStops' \in Nat
  <2>1. picks \in Nat /\ pictureStops \in Nat
    BY <1>1 DEF ScreenTypes
  <2>2. picks' = picks /\ pictureStops' = pictureStops + 1
    BY DEF InPicture!Stop
  <2> QED BY <2>1, <2>2
<1> QED BY <1>3, <1>4, PictureEnds DEF InPicture!Stop

LEMMA PictureStep == PictureInv /\ InPicture!Next => PictureInv'
BY PictureScreen, PicturePick, PictureAnswer, PictureUploaded,
   PictureNotUploaded, PictureDatabase, PictureStop DEF InPicture!Next

LEMMA PictureStutter == PictureInv /\ UNCHANGED picture => PictureInv'
<1> SUFFICES ASSUME PictureInv, UNCHANGED picture PROVE PictureInv'
  OBVIOUS
<1>1. /\ PicturesAre /\ ScreenTypes
      /\ locked => \/ stuck \/ uploads # {}
                   \/ \E i \in DOMAIN uploadAsks : uploadAsks[i] = "first"
  BY PictureUnfolds
<1>2. /\ UNCHANGED <<record, images, row, deletions, puts, lost, uploads, next>>
      /\ UNCHANGED <<open, locked, uploadAsks, stuck, picks, pictureStops>>
  BY DEF picture
<1>3. PicturesAre'
  BY <1>1, <1>2, PicturesRead DEF RowMoves
<1>4. ScreenTypes'
  BY <1>1, <1>2 DEF ScreenTypes
<1> QED BY <1>1, <1>2, <1>3, <1>4, PictureSettled

-----------------------------------------------------------------------------
(* UserCells.                                                              *)

(* A closure is its cell's if the cell still shows the closure's user in   *)
(* the closure's row, or it was waiting when the cell was bound again.     *)
OwnOf(f, u) ==
  \/ cell[f.cell].user = u /\ cell[f.cell].row = f.row
  \/ <<f.cell, f.row>> \in late

ClosuresAreOwn ==
  /\ \A u \in Users : \A i \in 1 .. Len(asks[u]) : OwnOf(asks[u][i], u)
  /\ \A i \in 1 .. Len(wire) : OwnOf(wire[i].for, wire[i].user)
  /\ \A d \in downloads : OwnOf(d.for, d.picture[1])

(* Answers under way are not newer than the database, nor its stamps than  *)
(* its clock.                                                              *)
RecordsBehind ==
  /\ \A u \in Users : server[u].ts <= clock
  /\ \A i \in 1 .. Len(wire) :
       /\ wire[i].record.ts <= server[wire[i].user].ts
       /\ wire[i].record.pic <= server[wire[i].user].pic

CellsInv == InCells!TypeOK /\ RecordsBehind /\ ClosuresAreOwn /\ CellIsOwn

(* The records: on the server, on the way and in USER_INFO.                *)
RecordTypes ==
  /\ server \in [Users -> InCells!Record] /\ clock \in Nat
  /\ info \in [Users -> InCells!Record] /\ lud \in Nat
  /\ files \subseteq InCells!Picture
  /\ \A u \in Users : info[u].ts <= server[u].ts /\ info[u].pic <= server[u].pic
  /\ lud <= clock

(* The cells and the closures that hold them.                              *)
CellTypes ==
  /\ cell \in [Cells -> InCells!Shown]
  /\ asks \in [Users -> Seq(InCells!Closure)] /\ wire \in Seq(InCells!Answer)
  /\ downloads \subseteq InCells!Download /\ late \subseteq Cells \X TableRows
  /\ binds \in Nat /\ stops \in Nat

LEMMA CellsParts ==
  CellsInv <=> /\ RecordTypes /\ CellTypes /\ RecordsBehind /\ ClosuresAreOwn
               /\ CellIsOwn
BY DEF CellsInv, RecordTypes, CellTypes, InCells!TypeOK

LEMMA CellsSettled ==
  ASSUME RecordTypes', CellTypes', RecordsBehind', ClosuresAreOwn', CellIsOwn'
  PROVE  CellsInv'
BY DEF CellsInv, RecordTypes, CellTypes, InCells!TypeOK

LEMMA RecordIs ==
  ASSUME NEW r \in InCells!Record
  PROVE  r.ts \in Nat /\ r.pic \in Nat
BY DEF InCells!Record

LEMMA AnswerIs ==
  ASSUME CellTypes, NEW i \in 1 .. Len(wire)
  PROVE  /\ wire[i].user \in Users /\ wire[i].for \in InCells!Closure
         /\ wire[i].record \in InCells!Record
         /\ wire[i].record.ts \in Nat /\ wire[i].record.pic \in Nat
<1>1. wire[i] \in InCells!Answer
  BY ElementOfSeq DEF CellTypes
<1>2. /\ wire[i].user \in Users /\ wire[i].for \in InCells!Closure
      /\ wire[i].record \in InCells!Record
  BY <1>1 DEF InCells!Answer
<1> QED BY <1>2, RecordIs

LEMMA ClosureIs ==
  ASSUME NEW f \in InCells!Closure
  PROVE  f.cell \in Cells /\ f.row \in TableRows
BY DEF InCells!Closure
-----------------------------------------------------------------------------
LEMMA CellsInit == InCells!Init => CellsInv
<1> SUFFICES ASSUME InCells!Init PROVE CellsInv
  OBVIOUS
<1>1. /\ server = [u \in Users |-> InCells!NoRecord] /\ clock = 0
      /\ info = [u \in Users |-> InCells!NoRecord] /\ lud = 0 /\ files = {}
      /\ cell = [c \in Cells |-> InCells!Blank]
      /\ asks = [u \in Users |-> <<>>] /\ wire = <<>> /\ downloads = {}
      /\ late = {} /\ binds = 0 /\ stops = 0
  BY DEF InCells!Init
<1>2. /\ InCells!NoRecord \in InCells!Record
      /\ InCells!NoRecord.ts = 0 /\ InCells!NoRecord.pic = 0
  BY DEF InCells!NoRecord, InCells!Record
<1>3. RecordTypes
  BY <1>1, <1>2 DEF RecordTypes
<1>4. InCells!Blank \in InCells!Shown
  BY DEF InCells!Blank, InCells!Shown
<1>5. CellTypes
  <2>1. wire \in Seq(InCells!Answer)
    BY <1>1, EmptySeq
  <2>2. asks \in [Users -> Seq(InCells!Closure)]
    BY <1>1, EmptySeq
  <2> QED BY <1>1, <1>4, <2>1, <2>2 DEF CellTypes
<1>6. Len(wire) = 0 /\ \A u \in Users : asks[u] = <<>> /\ Len(asks[u]) = 0
  BY <1>1, EmptySeq
<1>7. RecordsBehind /\ ClosuresAreOwn
  BY <1>1, <1>2, <1>6 DEF RecordsBehind, ClosuresAreOwn
<1>8. CellIsOwn
  <2>1. \A c \in Cells : cell[c] = InCells!Blank
    BY <1>1
  <2>2. InCells!Blank.name = InCells!NoOne /\ InCells!Blank.picture = <<>>
    BY DEF InCells!Blank
  <2> QED BY <2>1, <2>2 DEF CellIsOwn, InCells!CellIsOwn, InCells!NameIsOwn,
          InCells!PictureIsOwn
<1> QED BY <1>3, <1>5, <1>7, <1>8, CellsParts

(* What says nothing of the cells.                                         *)
LEMMA CellsRest ==
  ASSUME CellsInv, UNCHANGED <<cell, asks, wire, downloads, late>>,
         binds' \in Nat, stops' \in Nat
  PROVE  CellTypes' /\ ClosuresAreOwn' /\ CellIsOwn'
BY CellsParts DEF CellTypes, ClosuresAreOwn, OwnOf, CellIsOwn,
   InCells!CellIsOwn, InCells!NameIsOwn, InCells!PictureIsOwn

(* A user's record grows in stamp and picture.                             *)
LEMMA RecordGrows ==
  ASSUME CellsInv, NEW u \in Users, NEW r \in InCells!Record,
         r.ts >= server[u].ts, r.pic >= server[u].pic, r.ts <= clock',
         clock' \in Nat, clock' >= clock,
         server' = [server EXCEPT ![u] = r], UNCHANGED <<info, lud, files>>,
         UNCHANGED wire
  PROVE  RecordTypes' /\ RecordsBehind'
<1>1. RecordTypes /\ CellTypes /\ RecordsBehind
  BY CellsParts
<1>2. \A v \in Users : /\ server'[v] \in InCells!Record
                       /\ server[v].ts \in Nat /\ server[v].pic \in Nat
                       /\ server'[v].ts \in Nat /\ server'[v].pic \in Nat
                       /\ info[v].ts \in Nat /\ info[v].pic \in Nat
                       /\ server'[v].ts >= server[v].ts
                       /\ server'[v].pic >= server[v].pic
                       /\ server'[v].ts <= clock'
  <2> SUFFICES ASSUME NEW v \in Users
               PROVE  /\ server'[v] \in InCells!Record
                      /\ server[v].ts \in Nat /\ server[v].pic \in Nat
                      /\ server'[v].ts \in Nat /\ server'[v].pic \in Nat
                      /\ info[v].ts \in Nat /\ info[v].pic \in Nat
                      /\ server'[v].ts >= server[v].ts
                      /\ server'[v].pic >= server[v].pic
                      /\ server'[v].ts <= clock'
    OBVIOUS
  <2>1. server[v] \in InCells!Record /\ info[v] \in InCells!Record
    BY <1>1 DEF RecordTypes
  <2>2. /\ server[v].ts \in Nat /\ server[v].pic \in Nat
        /\ info[v].ts \in Nat /\ info[v].pic \in Nat
        /\ r.ts \in Nat /\ r.pic \in Nat
    BY <2>1, RecordIs
  <2>3. server'[v] = IF v = u THEN r ELSE server[v]
    BY <1>1 DEF RecordTypes
  <2>4. server[v].ts <= clock /\ clock \in Nat
    BY <1>1 DEF RecordsBehind, RecordTypes
  <2> QED BY <2>1, <2>2, <2>3, <2>4
<1>3. server' \in [Users -> InCells!Record]
  BY <1>1 DEF RecordTypes
<1>4. RecordTypes'
  <2>1. \A v \in Users : info[v].ts <= server'[v].ts /\ info[v].pic <= server'[v].pic
    <3>1. \A v \in Users : info[v].ts <= server[v].ts /\ info[v].pic <= server[v].pic
      BY <1>1 DEF RecordTypes
    <3>2. \A a, b, c \in Nat : a <= b /\ b <= c => a <= c
      OBVIOUS
    <3> QED BY <1>2, <3>1, <3>2
  <2>2. lud <= clock'
    BY <1>1 DEF RecordTypes
  <2> QED BY <1>1, <1>3, <2>1, <2>2 DEF RecordTypes
<1>5. RecordsBehind'
  <2> SUFFICES ASSUME NEW i \in 1 .. Len(wire)
               PROVE  /\ wire[i].record.ts <= server'[wire[i].user].ts
                      /\ wire[i].record.pic <= server'[wire[i].user].pic
    BY <1>2 DEF RecordsBehind
  <2>1. /\ wire[i].user \in Users
        /\ wire[i].record.ts \in Nat /\ wire[i].record.pic \in Nat
    BY <1>1, AnswerIs
  <2>2. /\ wire[i].record.ts <= server[wire[i].user].ts
        /\ wire[i].record.pic <= server[wire[i].user].pic
    BY <1>1 DEF RecordsBehind
  <2> DEFINE v == wire[i].user
             x == wire[i].record
  <2>3. /\ server[v].ts \in Nat /\ server[v].pic \in Nat
        /\ server'[v].ts \in Nat /\ server'[v].pic \in Nat
        /\ server'[v].ts >= server[v].ts /\ server'[v].pic >= server[v].pic
    BY <1>2, <2>1
  <2>4. /\ x.ts \in Nat /\ x.pic \in Nat
        /\ x.ts <= server[v].ts /\ x.pic <= server[v].pic
    BY <2>1, <2>2
  <2>5. x.ts <= server'[v].ts /\ x.pic <= server'[v].pic
    <3> HIDE DEF x, v
    <3> QED BY <2>3, <2>4
  <2> QED BY <2>5
<1> QED BY <1>4, <1>5

LEMMA CellsUnfold ==
  ASSUME CellsInv
  PROVE  /\ RecordTypes /\ CellTypes /\ RecordsBehind /\ ClosuresAreOwn /\ CellIsOwn
         /\ binds \in Nat /\ stops \in Nat
BY CellsParts DEF CellTypes

LEMMA CellsSignUp ==
  ASSUME CellsInv, NEW u \in Users, InCells!SignUp(u)
  PROVE  CellsInv'
<1>1. RecordTypes /\ RecordsBehind /\ binds \in Nat /\ stops \in Nat
  BY CellsUnfold
<1>2. PICK d \in Deltas : clock' = clock + d
  BY DEF InCells!SignUp
<1>3. d \in Nat
  BY ScreensAssumption DEF InCells!UserCellsAssumption
<1>4. clock' \in Nat /\ clock' >= clock
  BY <1>1, <1>2, <1>3 DEF RecordTypes
<1> DEFINE r == [pic |-> 0, ts |-> clock']
<1>5. /\ server[u] = InCells!NoRecord /\ server' = [server EXCEPT ![u] = r]
      /\ UNCHANGED <<info, lud, files>> /\ UNCHANGED wire
      /\ UNCHANGED <<cell, asks, wire, downloads, late>>
      /\ binds' = binds /\ stops' = stops
  BY DEF InCells!SignUp, InCells!store
<1>6. r \in InCells!Record /\ r.pic = 0 /\ r.ts = clock'
  BY <1>4 DEF InCells!Record
<1>7. server[u].ts = 0 /\ server[u].pic = 0
  BY <1>5 DEF InCells!NoRecord
<1> HIDE DEF r
<1>8. r.ts >= server[u].ts /\ r.pic >= server[u].pic /\ r.ts <= clock'
  BY <1>4, <1>6, <1>7
<1>9. RecordTypes' /\ RecordsBehind'
  BY <1>4, <1>5, <1>6, <1>8, RecordGrows
<1>10. CellTypes' /\ ClosuresAreOwn' /\ CellIsOwn'
  BY <1>1, <1>5, CellsRest
<1> QED BY <1>9, <1>10, CellsSettled

LEMMA CellsChangePicture ==
  ASSUME CellsInv, NEW u \in Users, InCells!ChangePicture(u)
  PROVE  CellsInv'
<1>1. RecordTypes /\ RecordsBehind /\ binds \in Nat /\ stops \in Nat
  BY CellsUnfold
<1> DEFINE r == [pic |-> server[u].pic + 1, ts |-> server[u].ts]
<1>2. server[u] \in InCells!Record
  BY <1>1 DEF RecordTypes
<1>3. server[u].pic \in Nat /\ server[u].ts \in Nat
  BY <1>2, RecordIs
<1>4. /\ server' = [server EXCEPT ![u] = r]
      /\ UNCHANGED <<info, lud, files>> /\ UNCHANGED wire /\ clock' = clock
      /\ UNCHANGED <<cell, asks, wire, downloads, late>>
      /\ binds' = binds /\ stops' = stops
  <2>1. server' = [server EXCEPT ![u].pic = @ + 1]
    BY DEF InCells!ChangePicture
  <2>2. [server[u] EXCEPT !.pic = @ + 1] = r
    BY <1>2 DEF InCells!Record
  <2>3. server' = [server EXCEPT ![u] = [server[u] EXCEPT !.pic = @ + 1]]
    BY <2>1
  <2>4. server' = [server EXCEPT ![u] = r]
    BY <2>2, <2>3
  <2> QED BY <2>4 DEF InCells!ChangePicture, InCells!store
<1>5. r \in InCells!Record /\ r.pic = server[u].pic + 1 /\ r.ts = server[u].ts
  BY <1>3 DEF InCells!Record
<1> HIDE DEF r
<1>6. clock' \in Nat /\ clock' >= clock /\ server[u].ts <= clock'
  BY <1>1, <1>4 DEF RecordTypes, RecordsBehind
<1>7. r.ts >= server[u].ts /\ r.pic >= server[u].pic /\ r.ts <= clock'
  BY <1>3, <1>5, <1>6
<1>8. RecordTypes' /\ RecordsBehind'
  BY <1>4, <1>5, <1>6, <1>7, RecordGrows
<1>9. CellTypes' /\ ClosuresAreOwn' /\ CellIsOwn'
  BY <1>1, <1>4, CellsRest
<1> QED BY <1>8, <1>9, CellsSettled

(* The answers to all that ask for a user's record.                        *)
LEMMA AnswersAre ==
  ASSUME CellTypes, RecordTypes, NEW u \in Users
  PROVE  LET s == [i \in DOMAIN asks[u] |->
                     [user |-> u, for |-> asks[u][i], record |-> server[u]]]
         IN /\ s \in Seq(InCells!Answer) /\ Len(s) \in Nat
            /\ \A i \in 1 .. Len(s) : /\ i \in 1 .. Len(asks[u])
                                      /\ s[i].user = u /\ s[i].for = asks[u][i]
                                      /\ s[i].record = server[u]
<1> DEFINE s == [i \in DOMAIN asks[u] |->
                   [user |-> u, for |-> asks[u][i], record |-> server[u]]]
<1>1. asks[u] \in Seq(InCells!Closure)
  BY DEF CellTypes
<1>2. /\ Len(asks[u]) \in Nat /\ DOMAIN asks[u] = 1 .. Len(asks[u])
      /\ \A i \in 1 .. Len(asks[u]) : asks[u][i] \in InCells!Closure
  BY <1>1, LenProperties, ElementOfSeq
<1>3. server[u] \in InCells!Record
  BY DEF RecordTypes
<1>4. ASSUME NEW i \in 1 .. Len(asks[u])
      PROVE  /\ s[i] \in InCells!Answer /\ s[i].user = u
             /\ s[i].for = asks[u][i] /\ s[i].record = server[u]
  BY <1>2, <1>3 DEF InCells!Answer
<1>5. DOMAIN s = 1 .. Len(asks[u]) /\ s = [i \in 1 .. Len(asks[u]) |-> s[i]]
  BY <1>2
<1> HIDE DEF s
<1>6. s \in [1 .. Len(asks[u]) -> InCells!Answer]
  BY <1>4, <1>5
<1>7. s \in Seq(InCells!Answer)
  BY <1>2, <1>6, SeqDef
<1>8. Len(s) \in Nat /\ DOMAIN s = 1 .. Len(s)
  BY <1>7, LenProperties
<1>9. 1 .. Len(s) = 1 .. Len(asks[u])
  BY <1>5, <1>8
<1> QED BY <1>4, <1>7, <1>8, <1>9 DEF s

LEMMA CellsServerAnswers ==
  ASSUME CellsInv, NEW u \in Users, InCells!ServerAnswers(u)
  PROVE  CellsInv'
<1>1. /\ RecordTypes /\ CellTypes /\ RecordsBehind /\ ClosuresAreOwn /\ CellIsOwn
  BY CellsUnfold
<1> DEFINE s == [i \in DOMAIN asks[u] |->
                   [user |-> u, for |-> asks[u][i], record |-> server[u]]]
<1>2. /\ wire' = wire \o s /\ asks' = [asks EXCEPT ![u] = <<>>]
      /\ UNCHANGED <<server, clock, info, lud, files, cell, downloads, late,
                     binds, stops>>
  BY DEF InCells!ServerAnswers, InCells!store
<1>3. /\ s \in Seq(InCells!Answer) /\ Len(s) \in Nat
      /\ \A i \in 1 .. Len(s) : /\ i \in 1 .. Len(asks[u])
                                /\ s[i].user = u /\ s[i].for = asks[u][i]
                                /\ s[i].record = server[u]
  BY <1>1, AnswersAre
<1> HIDE DEF s
<1>4. wire \in Seq(InCells!Answer) /\ Len(wire) \in Nat
  BY <1>1, LenProperties DEF CellTypes
<1>5. /\ wire' \in Seq(InCells!Answer) /\ Len(wire') = Len(wire) + Len(s)
      /\ \A i \in 1 .. Len(wire) + Len(s) :
           wire'[i] = IF i <= Len(wire) THEN wire[i] ELSE s[i - Len(wire)]
  BY <1>2, <1>3, <1>4, ConcatProperties
<1>6. ASSUME NEW i \in 1 .. Len(wire')
      PROVE  \/ i \in 1 .. Len(wire) /\ wire'[i] = wire[i]
             \/ \E k \in 1 .. Len(s) : wire'[i] = s[k]
  <2>1. CASE i <= Len(wire)
    BY <1>3, <1>4, <1>5, <2>1
  <2>2. CASE ~(i <= Len(wire))
    <3>1. i - Len(wire) \in 1 .. Len(s)
      BY <1>3, <1>4, <1>5, <2>2
    <3> QED BY <1>5, <2>2, <3>1
  <2> QED BY <2>1, <2>2
<1>7. /\ asks' \in [Users -> Seq(InCells!Closure)]
      /\ \A v \in Users : asks'[v] = IF v = u THEN <<>> ELSE asks[v]
  BY <1>1, <1>2, EmptySeq DEF CellTypes
<1>8. RecordTypes'
  BY <1>1, <1>2 DEF RecordTypes
<1>9. CellTypes'
  BY <1>1, <1>2, <1>5, <1>7 DEF CellTypes
<1>10. RecordsBehind'
  <2>1. ASSUME NEW i \in 1 .. Len(wire')
        PROVE  /\ wire'[i].record.ts <= server[wire'[i].user].ts
               /\ wire'[i].record.pic <= server[wire'[i].user].pic
    <3>1. server[u].ts \in Nat /\ server[u].pic \in Nat
      BY <1>1, RecordIs DEF RecordTypes
    <3>2. CASE i \in 1 .. Len(wire) /\ wire'[i] = wire[i]
      BY <1>1, <3>2 DEF RecordsBehind
    <3>3. CASE \E k \in 1 .. Len(s) : wire'[i] = s[k]
      <4>1. wire'[i].record = server[u] /\ wire'[i].user = u
        BY <1>3, <3>3
      <4> QED BY <3>1, <4>1
    <3> QED BY <1>6, <3>2, <3>3
  <2>2. \A v \in Users : server'[v].ts <= clock'
    BY <1>1, <1>2 DEF RecordsBehind
  <2> QED BY <1>2, <2>1, <2>2 DEF RecordsBehind
<1>11. ClosuresAreOwn'
  <2>1. ASSUME NEW v \in Users, NEW i \in 1 .. Len(asks'[v])
        PROVE  OwnOf(asks'[v][i], v)
    <3>1. v # u
      BY <1>7, EmptySeq
    <3> QED BY <1>1, <1>7, <3>1 DEF ClosuresAreOwn
  <2>2. ASSUME NEW i \in 1 .. Len(wire')
        PROVE  OwnOf(wire'[i].for, wire'[i].user)
    <3>1. CASE i \in 1 .. Len(wire) /\ wire'[i] = wire[i]
      BY <1>1, <3>1 DEF ClosuresAreOwn
    <3>2. ASSUME NEW k \in 1 .. Len(s), wire'[i] = s[k]
          PROVE  OwnOf(wire'[i].for, wire'[i].user)
      <4>1. k \in 1 .. Len(asks[u]) /\ wire'[i].user = u /\ wire'[i].for = asks[u][k]
        BY <1>3, <3>2
      <4>2. OwnOf(asks[u][k], u)
        BY <1>1, <4>1 DEF ClosuresAreOwn
      <4> QED BY <4>1, <4>2
    <3> QED BY <1>6, <3>1, <3>2
  <2>3. \A d \in downloads : OwnOf(d.for, d.picture[1])
    BY <1>1 DEF ClosuresAreOwn
  <2> QED BY <1>2, <2>1, <2>2, <2>3 DEF ClosuresAreOwn, OwnOf
<1>12. CellIsOwn'
  BY <1>1, <1>2 DEF CellIsOwn, InCells!CellIsOwn, InCells!NameIsOwn,
     InCells!PictureIsOwn
<1> QED BY <1>8, <1>9, <1>10, <1>11, <1>12, CellsSettled

-----------------------------------------------------------------------------
(* The closure of getUserInfo names the cell after the closure's user, and *)
(* gives it or asks for that user's picture.                               *)
LEMMA ShowIs ==
  ASSUME CellTypes, NEW now \in InCells!Shown, NEW u \in Users,
         NEW to \in InCells!Closure, NEW r \in InCells!Record,
         InCells!Show(now, u, to, r)
  PROVE  /\ \E x \in InCells!Shown :
              /\ cell' = [cell EXCEPT ![to.cell] = x]
              /\ x.user = now.user /\ x.row = now.row /\ x.name = u
              /\ \/ x.picture = now.picture
                 \/ x.picture[1] = u /\ x.row = to.row
         /\ downloads' \subseteq InCells!Download
         /\ \A d \in downloads' : \/ d \in downloads
                                  \/ d.for = to /\ d.picture[1] = u
<1> DEFINE shot == <<u, r.pic>>
           named == [now EXCEPT !.name = u]
           pictured == [named EXCEPT !.picture = shot]
           x == IF r.pic = 0 THEN named
                ELSE IF shot \in files /\ named.row = to.row THEN pictured
                     ELSE named
           d == [for |-> to, picture |-> shot]
<1>1. /\ cell' = [cell EXCEPT ![to.cell] = x]
      /\ downloads' = IF r.pic = 0 \/ shot \in files THEN downloads
                      ELSE downloads \cup {d}
  BY DEF InCells!Show, InCells!NamedAndPictured
<1>2. r.pic \in Nat
  BY RecordIs
<1>3. /\ named \in InCells!Shown /\ named.user = now.user /\ named.row = now.row
      /\ named.name = u /\ named.picture = now.picture
  BY DEF InCells!Shown
<1>4. shot[1] = u
  OBVIOUS
<1>5. r.pic # 0 => shot \in InCells!Picture
  BY <1>2 DEF InCells!Picture
<1> HIDE DEF named
<1>6. r.pic # 0 => /\ pictured \in InCells!Shown
                   /\ pictured.user = now.user /\ pictured.row = now.row
                   /\ pictured.name = u /\ pictured.picture = shot
  <2> SUFFICES ASSUME r.pic # 0
               PROVE  /\ pictured \in InCells!Shown
                      /\ pictured.user = now.user /\ pictured.row = now.row
                      /\ pictured.name = u /\ pictured.picture = shot
    OBVIOUS
  <2>1. shot \in InCells!Picture
    BY <1>5
  <2> HIDE DEF shot
  <2> QED BY <1>3, <2>1 DEF InCells!Shown
<1>7. r.pic # 0 => d \in InCells!Download /\ d.for = to /\ d.picture = shot
  BY <1>5 DEF InCells!Download
<1> HIDE DEF shot, pictured, d
<1>8. /\ x \in InCells!Shown /\ x.user = now.user /\ x.row = now.row
      /\ x.name = u
      /\ \/ x.picture = now.picture
         \/ x.picture[1] = u /\ x.row = to.row
  <2>1. CASE r.pic # 0 /\ shot \in files /\ named.row = to.row
    BY <1>3, <1>4, <1>6, <2>1
  <2>2. CASE ~(r.pic # 0 /\ shot \in files /\ named.row = to.row)
    <3>1. x = named
      BY <2>2
    <3> HIDE DEF x
    <3> QED BY <1>3, <3>1
  <2> QED BY <2>1, <2>2
<1> HIDE DEF x
<1>9. downloads' \subseteq InCells!Download
  BY <1>1, <1>7 DEF CellTypes
<1>10. \A e \in downloads' : \/ e \in downloads
                             \/ e.for = to /\ e.picture[1] = u
  BY <1>1, <1>4, <1>7
<1> QED BY <1>1, <1>8, <1>9, <1>10

LEMMA ClosuresAre ==
  ASSUME CellTypes
  PROVE  /\ \A u \in Users : \A i \in 1 .. Len(asks[u]) :
              asks[u][i] \in InCells!Closure
         /\ \A i \in 1 .. Len(wire) : wire[i].for \in InCells!Closure
         /\ \A d \in downloads : d.for \in InCells!Closure
<1>1. ASSUME NEW u \in Users, NEW i \in 1 .. Len(asks[u])
      PROVE  asks[u][i] \in InCells!Closure
  <2>1. asks[u] \in Seq(InCells!Closure)
    BY DEF CellTypes
  <2> QED BY <2>1, ElementOfSeq
<1>2. \A i \in 1 .. Len(wire) : wire[i].for \in InCells!Closure
  BY AnswerIs
<1>3. \A d \in downloads : d.for \in InCells!Closure
  BY DEF CellTypes, InCells!Download
<1> QED BY <1>1, <1>2, <1>3

(* No cell is bound again, and every closure left is one that waited.      *)
LEMMA ClosuresKept ==
  ASSUME CellTypes, ClosuresAreOwn,
         \A c \in Cells : cell'[c].user = cell[c].user /\ cell'[c].row = cell[c].row,
         late' = late, asks' = asks,
         \A i \in 1 .. Len(wire') : \E k \in 1 .. Len(wire) : wire'[i] = wire[k],
         \A d \in downloads' :
           \/ d \in downloads
           \/ \E k \in 1 .. Len(wire) :
                d.for = wire[k].for /\ d.picture[1] = wire[k].user
  PROVE  ClosuresAreOwn'
<1>1. ASSUME NEW u \in Users, NEW i \in 1 .. Len(asks[u])
      PROVE  \/ cell'[asks[u][i].cell].user = u /\ cell'[asks[u][i].cell].row = asks[u][i].row
             \/ <<asks[u][i].cell, asks[u][i].row>> \in late'
  <2> DEFINE f == asks[u][i]
  <2>1. f \in InCells!Closure /\ OwnOf(f, u)
    BY ClosuresAre DEF ClosuresAreOwn
  <2>2. f.cell \in Cells
    BY <2>1, ClosureIs
  <2> QED BY <2>1, <2>2 DEF OwnOf
<1>2. ASSUME NEW k \in 1 .. Len(wire)
      PROVE  \/ /\ cell'[wire[k].for.cell].user = wire[k].user
                /\ cell'[wire[k].for.cell].row = wire[k].for.row
             \/ <<wire[k].for.cell, wire[k].for.row>> \in late'
  <2>1. wire[k].for \in InCells!Closure /\ OwnOf(wire[k].for, wire[k].user)
    BY ClosuresAre DEF ClosuresAreOwn
  <2>2. wire[k].for.cell \in Cells
    BY <2>1, ClosureIs
  <2> QED BY <2>1, <2>2 DEF OwnOf
<1>3. ASSUME NEW d \in downloads'
      PROVE  \/ /\ cell'[d.for.cell].user = d.picture[1]
                /\ cell'[d.for.cell].row = d.for.row
             \/ <<d.for.cell, d.for.row>> \in late'
  <2>1. CASE d \in downloads
    <3>1. d.for \in InCells!Closure /\ OwnOf(d.for, d.picture[1])
      BY <2>1, ClosuresAre DEF ClosuresAreOwn
    <3>2. d.for.cell \in Cells
      BY <3>1, ClosureIs
    <3> QED BY <3>1, <3>2 DEF OwnOf
  <2>2. CASE \E k \in 1 .. Len(wire) :
               d.for = wire[k].for /\ d.picture[1] = wire[k].user
    BY <1>2, <2>2
  <2> QED BY <2>1, <2>2
<1>4. \A i \in 1 .. Len(wire') :
        \/ /\ cell'[wire'[i].for.cell].user = wire'[i].user
           /\ cell'[wire'[i].for.cell].row = wire'[i].for.row
        \/ <<wire'[i].for.cell, wire'[i].for.row>> \in late'
  <2> TAKE i \in 1 .. Len(wire')
  <2>1. PICK k \in 1 .. Len(wire) : wire'[i] = wire[k]
    OBVIOUS
  <2> DEFINE a == wire[k]
  <2>2. \/ cell'[a.for.cell].user = a.user /\ cell'[a.for.cell].row = a.for.row
        \/ <<a.for.cell, a.for.row>> \in late'
    BY <1>2
  <2>3. wire'[i] = a
    BY <2>1
  <2> HIDE DEF a
  <2> QED BY ONLY <2>2, <2>3
<1> QED BY <1>1, <1>3, <1>4 DEF ClosuresAreOwn, OwnOf

(* One cell is named after u, by a closure of u that is the cell's or was  *)
(* waiting when it was bound.                                              *)
LEMMA CellNamed ==
  ASSUME CellTypes, CellIsOwn, NEW u \in Users, NEW to \in InCells!Closure,
         OwnOf(to, u), NEW x \in InCells!Shown,
         cell' = [cell EXCEPT ![to.cell] = x], late' = late,
         x.user = cell[to.cell].user, x.row = cell[to.cell].row, x.name = u,
         \/ x.picture = cell[to.cell].picture
         \/ x.picture[1] = u /\ x.row = to.row
  PROVE  /\ cell' \in [Cells -> InCells!Shown] /\ CellIsOwn'
         /\ \A c \in Cells : /\ cell'[c].user = cell[c].user
                             /\ cell'[c].row = cell[c].row
<1>1. to.cell \in Cells /\ to.row \in TableRows
  BY ClosureIs
<1>2. cell \in [Cells -> InCells!Shown]
  BY DEF CellTypes
<1>3. \A c \in Cells : cell'[c] = IF c = to.cell THEN x ELSE cell[c]
  BY <1>2
<1>4. InCells!NameIsOwn /\ InCells!PictureIsOwn
  BY DEF CellIsOwn, InCells!CellIsOwn
<1>5. ASSUME NEW c \in Cells
      PROVE  \/ cell'[c].name \in {InCells!NoOne, cell'[c].user}
             \/ \E r \in TableRows : <<c, r>> \in late'
  <2>1. CASE c # to.cell
    BY <1>3, <1>4, <2>1 DEF InCells!NameIsOwn
  <2>2. CASE c = to.cell
    <3>1. cell'[c].name = u /\ cell'[c].user = cell[c].user
      BY <1>3, <2>2
    <3>2. CASE cell[to.cell].user = u
      BY <2>2, <3>1, <3>2
    <3>3. CASE <<to.cell, to.row>> \in late
      BY <1>1, <2>2, <3>3
    <3> QED BY <3>2, <3>3 DEF OwnOf
  <2> QED BY <2>1, <2>2
<1>6. ASSUME NEW c \in Cells
      PROVE  \/ cell'[c].picture = <<>> \/ cell'[c].picture[1] = cell'[c].user
             \/ <<c, cell'[c].row>> \in late'
  <2>1. \/ cell[c].picture = <<>> \/ cell[c].picture[1] = cell[c].user
        \/ <<c, cell[c].row>> \in late
    BY <1>4 DEF InCells!PictureIsOwn
  <2>2. CASE c # to.cell
    BY <1>3, <2>1, <2>2
  <2>3. CASE c = to.cell /\ x.picture = cell[to.cell].picture
    <3>1. /\ cell'[c].picture = cell[c].picture /\ cell'[c].user = cell[c].user
          /\ cell'[c].row = cell[c].row
      BY <1>3, <2>3
    <3> QED BY <2>1, <3>1
  <2>4. CASE c = to.cell /\ x.picture[1] = u /\ x.row = to.row
    <3>1. /\ cell'[c].picture[1] = u /\ cell'[c].user = cell[to.cell].user
          /\ cell'[c].row = to.row
      BY <1>3, <2>4
    <3>2. CASE cell[to.cell].user = u
      BY <3>1, <3>2
    <3>3. CASE <<to.cell, to.row>> \in late
      BY <2>4, <3>1, <3>3
    <3> QED BY <3>2, <3>3 DEF OwnOf
  <2> QED BY <2>2, <2>3, <2>4
<1>7. cell' \in [Cells -> InCells!Shown]
  BY <1>2
<1>8. \A c \in Cells : /\ cell'[c].user = cell[c].user /\ cell'[c].row = cell[c].row
  BY <1>3
<1>9. CellIsOwn'
  BY <1>5, <1>6 DEF CellIsOwn, InCells!CellIsOwn, InCells!NameIsOwn,
     InCells!PictureIsOwn
<1> QED BY <1>7, <1>8, <1>9

LEMMA CellsEvent ==
  ASSUME CellsInv, InCells!Event
  PROVE  CellsInv'
<1>1. RecordTypes /\ CellTypes /\ RecordsBehind /\ ClosuresAreOwn /\ CellIsOwn
  BY CellsUnfold
<1> DEFINE u == Head(wire).user
           r == Head(wire).record
           to == Head(wire).for
<1>2. wire # <<>> /\ wire \in Seq(InCells!Answer)
  BY <1>1 DEF InCells!Event, CellTypes
<1>3. /\ wire' = Tail(wire)
      /\ UNCHANGED <<server, clock, files, asks, late, binds, stops>>
      /\ \/ UNCHANGED <<info, lud, cell, downloads>>
         \/ /\ info' = [info EXCEPT ![u] = r]
            /\ \/ lud' = r.ts /\ InCells!Show(cell[to.cell], u, to, r)
               \/ UNCHANGED <<lud, cell, downloads>>
  BY DEF InCells!Event, InCells!Keep
<1>4. /\ 1 \in 1 .. Len(wire) /\ Head(wire) = wire[1] /\ Len(wire) \in Nat
  BY <1>2
<1>5. /\ wire' \in Seq(InCells!Answer) /\ Len(wire') = Len(wire) - 1
      /\ \A i \in 1 .. Len(wire') : wire'[i] = wire[i + 1]
  BY <1>2, <1>3, HeadTailProperties
<1>6. \A i \in 1 .. Len(wire') : i + 1 \in 1 .. Len(wire) /\ wire'[i] = wire[i + 1]
  BY <1>4, <1>5
<1>7. /\ u \in Users /\ to \in InCells!Closure /\ r \in InCells!Record
      /\ r.ts \in Nat /\ r.pic \in Nat
      /\ r.ts <= server[u].ts /\ r.pic <= server[u].pic /\ OwnOf(to, u)
      /\ u = wire[1].user /\ to = wire[1].for
  <2>1. /\ wire[1].user \in Users /\ wire[1].for \in InCells!Closure
        /\ wire[1].record \in InCells!Record
        /\ wire[1].record.ts \in Nat /\ wire[1].record.pic \in Nat
    BY <1>1, <1>4, AnswerIs
  <2>2. /\ wire[1].record.ts <= server[wire[1].user].ts
        /\ wire[1].record.pic <= server[wire[1].user].pic
    BY <1>1, <1>4 DEF RecordsBehind
  <2>3. OwnOf(wire[1].for, wire[1].user)
    BY <1>1, <1>4 DEF ClosuresAreOwn
  <2> QED BY <1>4, <2>1, <2>2, <2>3
<1> HIDE DEF u, r, to
<1>8. RecordsBehind'
  BY <1>1, <1>3, <1>6 DEF RecordsBehind
<1>9. RecordTypes'
  <2>1. server[u].ts \in Nat /\ server[u].ts <= clock /\ clock \in Nat
    BY <1>1, <1>7, RecordIs DEF RecordTypes, RecordsBehind
  <2>2. info' \in [Users -> InCells!Record]
    BY <1>1, <1>3, <1>7 DEF RecordTypes
  <2>3. \A v \in Users : info'[v].ts <= server[v].ts /\ info'[v].pic <= server[v].pic
    BY <1>1, <1>3, <1>7 DEF RecordTypes
  <2>4. lud' \in Nat /\ lud' <= clock
    <3>1. lud' = lud \/ lud' = r.ts
      BY <1>3
    <3> QED BY <1>1, <1>7, <2>1, <3>1 DEF RecordTypes
  <2> QED BY <1>1, <1>3, <2>2, <2>3, <2>4 DEF RecordTypes
<1>10. CASE UNCHANGED <<cell, downloads>>
  <2>1. CellTypes'
    BY <1>1, <1>3, <1>5, <1>10 DEF CellTypes
  <2>2. \A i \in 1 .. Len(wire') : \E k \in 1 .. Len(wire) : wire'[i] = wire[k]
    BY <1>6
  <2>3. ClosuresAreOwn'
    BY <1>1, <1>3, <1>10, <2>2, ClosuresKept
  <2>4. CellIsOwn'
    BY <1>1, <1>3, <1>10 DEF CellIsOwn, InCells!CellIsOwn, InCells!NameIsOwn,
       InCells!PictureIsOwn
  <2> QED BY <1>8, <1>9, <2>1, <2>3, <2>4, CellsSettled
<1>11. CASE InCells!Show(cell[to.cell], u, to, r)
  <2>1. cell[to.cell] \in InCells!Shown
    BY <1>1, <1>7, ClosureIs DEF CellTypes
  <2>2. PICK x \in InCells!Shown :
          /\ cell' = [cell EXCEPT ![to.cell] = x]
          /\ x.user = cell[to.cell].user /\ x.row = cell[to.cell].row
          /\ x.name = u
          /\ \/ x.picture = cell[to.cell].picture
             \/ x.picture[1] = u /\ x.row = to.row
    BY <1>1, <1>7, <1>11, <2>1, ShowIs
  <2>3. /\ downloads' \subseteq InCells!Download
        /\ \A d \in downloads' : \/ d \in downloads
                                 \/ d.for = to /\ d.picture[1] = u
    BY <1>1, <1>7, <1>11, <2>1, ShowIs
  <2>4. late' = late
    BY <1>3
  <2>5. /\ cell' \in [Cells -> InCells!Shown] /\ CellIsOwn'
        /\ \A c \in Cells : /\ cell'[c].user = cell[c].user
                            /\ cell'[c].row = cell[c].row
    BY <1>1, <1>7, <2>2, <2>4, CellNamed
  <2>6. CellTypes'
    BY <1>1, <1>3, <1>5, <2>3, <2>5 DEF CellTypes
  <2>7. \A i \in 1 .. Len(wire') : \E k \in 1 .. Len(wire) : wire'[i] = wire[k]
    BY <1>6
  <2>8. \A d \in downloads' :
          \/ d \in downloads
          \/ \E k \in 1 .. Len(wire) : d.for = wire[k].for /\ d.picture[1] = wire[k].user
    BY <1>4, <1>7, <2>3
  <2>9. ClosuresAreOwn'
    BY <1>1, <1>3, <2>5, <2>7, <2>8, ClosuresKept
  <2> QED BY <1>8, <1>9, <2>5, <2>6, <2>9, CellsSettled
<1> QED BY <1>3, <1>10, <1>11

LEMMA CellsDownloads ==
  ASSUME CellsInv, NEW d \in downloads,
         InCells!Downloaded(d) \/ InCells!NotDownloaded(d)
  PROVE  CellsInv'
<1>1. RecordTypes /\ CellTypes /\ RecordsBehind /\ ClosuresAreOwn /\ CellIsOwn
  BY CellsUnfold
<1>2. /\ downloads' = downloads \ {d}
      /\ UNCHANGED <<server, clock, info, lud, asks, wire, late, binds, stops>>
      /\ files' = files \/ files' = files \cup {d.picture}
      /\ \/ cell' = cell
         \/ cell' = [cell EXCEPT ![d.for.cell] = InCells!InPlace(d, @)]
  BY DEF InCells!Downloaded, InCells!NotDownloaded, InCells!store
<1>3. /\ d.for \in InCells!Closure /\ d.picture \in InCells!Picture
      /\ OwnOf(d.for, d.picture[1])
  BY <1>1 DEF CellTypes, ClosuresAreOwn, InCells!Download
<1>4. RecordTypes' /\ RecordsBehind'
  BY <1>1, <1>2, <1>3 DEF RecordTypes, RecordsBehind
<1> DEFINE now == cell[d.for.cell]
           x == InCells!InPlace(d, now)
<1>5. d.for.cell \in Cells /\ now \in InCells!Shown
  BY <1>1, <1>3, ClosureIs DEF CellTypes
<1>6. /\ x \in InCells!Shown /\ x.user = now.user /\ x.row = now.row
      /\ x.name = now.name
      /\ x.picture = now.picture \/ (x.picture = d.picture /\ x.row = d.for.row)
  <2> HIDE DEF now
  <2>1. CASE now.row = d.for.row
    BY <1>3, <1>5, <2>1 DEF InCells!InPlace, InCells!Shown
  <2>2. CASE now.row # d.for.row
    BY <1>5, <2>2 DEF InCells!InPlace
  <2> QED BY <2>1, <2>2
<1>7. cell' = cell \/ cell' = [cell EXCEPT ![d.for.cell] = x]
  BY <1>2
<1> HIDE DEF x
<1>8. /\ cell' \in [Cells -> InCells!Shown]
      /\ \A c \in Cells :
           /\ cell'[c].user = cell[c].user /\ cell'[c].row = cell[c].row
           /\ cell'[c].name = cell[c].name
           /\ \/ cell'[c].picture = cell[c].picture
              \/ /\ c = d.for.cell /\ cell'[c].picture = d.picture
                 /\ cell[c].row = d.for.row
  BY <1>1, <1>5, <1>6, <1>7 DEF CellTypes
<1>9. CellTypes'
  BY <1>1, <1>2, <1>8 DEF CellTypes
<1>10. ClosuresAreOwn'
  <2>1. \A i \in 1 .. Len(wire') : \E k \in 1 .. Len(wire) : wire'[i] = wire[k]
    BY <1>2
  <2>2. \A e \in downloads' : e \in downloads
    BY <1>2
  <2> QED BY <1>1, <1>2, <1>8, <2>1, <2>2, ClosuresKept
<1>11. InCells!NameIsOwn'
  BY <1>1, <1>2, <1>8 DEF CellIsOwn, InCells!CellIsOwn, InCells!NameIsOwn
<1>12. InCells!PictureIsOwn'
  <2> SUFFICES ASSUME NEW c \in Cells
               PROVE  \/ cell'[c].picture = <<>>
                      \/ cell'[c].picture[1] = cell'[c].user
                      \/ <<c, cell'[c].row>> \in late'
    BY DEF InCells!PictureIsOwn
  <2>1. \/ cell[c].picture = <<>> \/ cell[c].picture[1] = cell[c].user
        \/ <<c, cell[c].row>> \in late
    BY <1>1 DEF CellIsOwn, InCells!CellIsOwn, InCells!PictureIsOwn
  <2>2. CASE cell'[c].picture = cell[c].picture
    BY <1>2, <1>8, <2>1, <2>2
  <2>3. CASE /\ c = d.for.cell /\ cell'[c].picture = d.picture
             /\ cell[c].row = d.for.row
    <3>1. CASE cell[d.for.cell].user = d.picture[1]
      BY <1>8, <2>3, <3>1
    <3>2. CASE <<d.for.cell, d.for.row>> \in late
      BY <1>2, <1>8, <2>3, <3>2
    <3> QED BY <1>3, <3>1, <3>2 DEF OwnOf
  <2> QED BY <1>8, <2>2, <2>3
<1>13. CellIsOwn'
  BY <1>11, <1>12 DEF CellIsOwn, InCells!CellIsOwn
<1> QED BY <1>4, <1>9, <1>10, <1>13, CellsSettled

-----------------------------------------------------------------------------
(* Every closure that has not run is in Waiting.                           *)
LEMMA WaitingHas ==
  ASSUME CellTypes
  PROVE  /\ InCells!Waiting \subseteq Cells \X TableRows
         /\ \A u \in Users : \A i \in 1 .. Len(asks[u]) :
              <<asks[u][i].cell, asks[u][i].row>> \in InCells!Waiting
         /\ \A i \in 1 .. Len(wire) :
              <<wire[i].for.cell, wire[i].for.row>> \in InCells!Waiting
         /\ \A d \in downloads : <<d.for.cell, d.for.row>> \in InCells!Waiting
<1> DEFINE closures ==
      {wire[i].for : i \in DOMAIN wire} \cup {d.for : d \in downloads}
        \cup UNION {{asks[u][i] : i \in DOMAIN asks[u]} : u \in Users}
<1>1. InCells!Waiting = {<<f.cell, f.row>> : f \in closures}
  BY DEF InCells!Waiting
<1>2. /\ \A u \in Users : DOMAIN asks[u] = 1 .. Len(asks[u])
      /\ DOMAIN wire = 1 .. Len(wire)
  BY LenProperties DEF CellTypes
<1>3. /\ \A u \in Users : \A i \in 1 .. Len(asks[u]) : asks[u][i] \in closures
      /\ \A i \in 1 .. Len(wire) : wire[i].for \in closures
      /\ \A d \in downloads : d.for \in closures
  BY <1>2
<1>4. closures \subseteq InCells!Closure
  <2>1. ASSUME NEW f \in closures
        PROVE  f \in InCells!Closure
    <3>1. CASE \E u \in Users : \E i \in 1 .. Len(asks[u]) : f = asks[u][i]
      BY <3>1, ClosuresAre
    <3>2. CASE \E i \in 1 .. Len(wire) : f = wire[i].for
      BY <3>2, ClosuresAre
    <3>3. CASE \E d \in downloads : f = d.for
      BY <3>3, ClosuresAre
    <3> QED BY <1>2, <2>1, <3>1, <3>2, <3>3
  <2> QED BY <2>1
<1> HIDE DEF closures
<1>5. InCells!Waiting \subseteq Cells \X TableRows
  BY <1>1, <1>4 DEF InCells!Closure
<1> QED BY <1>1, <1>3, <1>5

(* What a cell is bound to, with or without an answer from the row.        *)
Bound(x, c, u, r) ==
  /\ cell' = [cell EXCEPT ![c] = x]
  /\ x.user = u /\ x.row = r /\ x.name \in {u, InCells!NoOne}
  /\ x.picture = <<>> \/ x.picture[1] = u

LEMMA BindIs ==
  ASSUME CellTypes, RecordTypes, NEW c \in Cells, NEW u \in Users,
         NEW r \in TableRows, InCells!Bind(c, u, r)
  PROVE  LET to == [cell |-> c, row |-> r] IN
         /\ \E x \in InCells!Shown : Bound(x, c, u, r)
         /\ downloads' \subseteq InCells!Download
         /\ \A d \in downloads' : \/ d \in downloads
                                  \/ d.for = to /\ d.picture[1] = u
<1> DEFINE to == [cell |-> c, row |-> r]
           now == InCells!Reuse(c, u, r)
<1>1. to \in InCells!Closure /\ to.cell = c /\ to.row = r
  BY DEF InCells!Closure
<1>2. /\ now \in InCells!Shown /\ now.user = u /\ now.row = r
      /\ now.name = InCells!NoOne /\ now.picture = <<>>
  BY DEF InCells!Reuse, InCells!Shown
<1>3. IF info[u].ts > 0
      THEN InCells!Show(now, u, to, info[u])
      ELSE cell' = [cell EXCEPT ![c] = now] /\ UNCHANGED downloads
  BY DEF InCells!Bind
<1>4. info[u] \in InCells!Record
  BY DEF RecordTypes
<1> HIDE DEF to, now
<1>5. CASE info[u].ts > 0
  <2>1. InCells!Show(now, u, to, info[u])
    BY <1>3, <1>5
  <2>2. PICK x \in InCells!Shown :
          /\ cell' = [cell EXCEPT ![to.cell] = x]
          /\ x.user = now.user /\ x.row = now.row /\ x.name = u
          /\ \/ x.picture = now.picture
             \/ x.picture[1] = u /\ x.row = to.row
    BY <1>1, <1>2, <1>4, <2>1, ShowIs
  <2>3. /\ downloads' \subseteq InCells!Download
        /\ \A d \in downloads' : \/ d \in downloads
                                 \/ d.for = to /\ d.picture[1] = u
    BY <1>1, <1>2, <1>4, <2>1, ShowIs
  <2>4. Bound(x, c, u, r)
    BY <1>1, <1>2, <2>2 DEF Bound
  <2> QED BY <2>3, <2>4 DEF to
<1>6. CASE ~(info[u].ts > 0)
  <2>1. Bound(now, c, u, r) /\ downloads' = downloads
    BY <1>2, <1>3, <1>6 DEF Bound
  <2> QED BY <1>2, <2>1 DEF CellTypes
<1> QED BY <1>5, <1>6

LEMMA CellsBind ==
  ASSUME CellsInv, NEW c \in Cells, NEW u \in Users, NEW r \in TableRows,
         InCells!Bind(c, u, r)
  PROVE  CellsInv'
<1>1. RecordTypes /\ CellTypes /\ RecordsBehind /\ ClosuresAreOwn /\ CellIsOwn
  BY CellsUnfold
<1> DEFINE to == [cell |-> c, row |-> r]
<1>2. /\ asks' = [asks EXCEPT ![u] = Append(@, to)]
      /\ late' = {l \in late : l[1] # c} \cup {w \in InCells!Waiting : w[1] = c}
      /\ binds' = binds + 1
      /\ UNCHANGED <<server, clock, info, lud, files, wire, stops>>
  BY DEF InCells!Bind, InCells!store
<1>3. PICK x \in InCells!Shown :
        /\ cell' = [cell EXCEPT ![c] = x]
        /\ x.user = u /\ x.row = r /\ x.name \in {u, InCells!NoOne}
        /\ x.picture = <<>> \/ x.picture[1] = u
  <2>1. CellTypes /\ RecordTypes
    BY <1>1
  <2>2. \E x \in InCells!Shown : Bound(x, c, u, r)
    BY <2>1, BindIs
  <2> QED BY <2>2 DEF Bound
<1>4. /\ downloads' \subseteq InCells!Download
      /\ \A d \in downloads' : \/ d \in downloads
                               \/ d.for = to /\ d.picture[1] = u
  BY <1>1, BindIs
<1>5. to \in InCells!Closure /\ to.cell = c /\ to.row = r
  BY DEF InCells!Closure
<1> HIDE DEF to
<1>6. /\ cell' \in [Cells -> InCells!Shown]
      /\ \A b \in Cells : cell'[b] = IF b = c THEN x ELSE cell[b]
  BY <1>1, <1>3 DEF CellTypes
<1>7. asks[u] \in Seq(InCells!Closure)
  BY <1>1 DEF CellTypes
<1>8. /\ Append(asks[u], to) \in Seq(InCells!Closure) /\ Len(asks[u]) \in Nat
      /\ Len(Append(asks[u], to)) = Len(asks[u]) + 1
      /\ \A i \in 1 .. Len(asks[u]) : Append(asks[u], to)[i] = asks[u][i]
      /\ Append(asks[u], to)[Len(asks[u]) + 1] = to
  BY <1>5, <1>7, PushIs
<1>9. /\ asks' \in [Users -> Seq(InCells!Closure)]
      /\ \A v \in Users : asks'[v] = IF v = u THEN Append(asks[u], to) ELSE asks[v]
  BY <1>1, <1>2, <1>8 DEF CellTypes
<1>10. /\ InCells!Waiting \subseteq Cells \X TableRows
       /\ \A v \in Users : \A i \in 1 .. Len(asks[v]) :
            <<asks[v][i].cell, asks[v][i].row>> \in InCells!Waiting
       /\ \A i \in 1 .. Len(wire) :
            <<wire[i].for.cell, wire[i].for.row>> \in InCells!Waiting
       /\ \A d \in downloads : <<d.for.cell, d.for.row>> \in InCells!Waiting
  BY <1>1, WaitingHas
<1>11. RecordTypes' /\ RecordsBehind'
  BY <1>1, <1>2 DEF RecordTypes, RecordsBehind
<1>12. CellTypes'
  <2>1. late' \subseteq Cells \X TableRows
    BY <1>1, <1>2, <1>10 DEF CellTypes
  <2>2. binds' \in Nat
    BY <1>1, <1>2 DEF CellTypes
  <2> QED BY <1>1, <1>2, <1>4, <1>6, <1>9, <2>1, <2>2 DEF CellTypes
<1>13. ASSUME NEW f \in InCells!Closure, NEW v, OwnOf(f, v),
              <<f.cell, f.row>> \in InCells!Waiting
       PROVE  \/ cell'[f.cell].user = v /\ cell'[f.cell].row = f.row
              \/ <<f.cell, f.row>> \in late'
  <2>1. f.cell \in Cells
    BY ClosureIs
  <2>2. CASE f.cell = c
    BY <1>2, <1>13, <2>2
  <2>3. CASE f.cell # c
    <3>1. cell'[f.cell] = cell[f.cell]
      BY <1>6, <2>1, <2>3
    <3>2. <<f.cell, f.row>> \in late => <<f.cell, f.row>> \in late'
      BY <1>2, <2>3
    <3> QED BY <1>13, <3>1, <3>2 DEF OwnOf
  <2> QED BY <2>2, <2>3
<1>14. cell'[to.cell].user = u /\ cell'[to.cell].row = to.row
  BY <1>3, <1>5, <1>6
<1>15. ASSUME NEW v \in Users, NEW i \in 1 .. Len(asks'[v])
       PROVE  \/ /\ cell'[asks'[v][i].cell].user = v
                 /\ cell'[asks'[v][i].cell].row = asks'[v][i].row
              \/ <<asks'[v][i].cell, asks'[v][i].row>> \in late'
  <2>1. CASE i \in 1 .. Len(asks[v]) /\ asks'[v][i] = asks[v][i]
    <3>1. /\ asks[v][i] \in InCells!Closure /\ OwnOf(asks[v][i], v)
          /\ <<asks[v][i].cell, asks[v][i].row>> \in InCells!Waiting
      BY <1>1, <1>10, <2>1, ClosuresAre DEF ClosuresAreOwn
    <3> QED BY <1>13, <2>1, <3>1
  <2>2. CASE v = u /\ asks'[v][i] = to
    BY <1>14, <2>2
  <2>3. (i \in 1 .. Len(asks[v]) /\ asks'[v][i] = asks[v][i])
          \/ (v = u /\ asks'[v][i] = to)
    <3>1. CASE v = u
      <4>1. i \in 1 .. Len(asks[u]) + 1
        BY <1>8, <1>9, <3>1
      <4>2. i \in 1 .. Len(asks[u]) \/ i = Len(asks[u]) + 1
        BY <1>8, <4>1
      <4> QED BY <1>8, <1>9, <3>1, <4>2
    <3>2. CASE v # u
      BY <1>9, <3>2
    <3> QED BY <3>1, <3>2
  <2> QED BY <2>1, <2>2, <2>3
<1>16. ASSUME NEW i \in 1 .. Len(wire)
       PROVE  \/ /\ cell'[wire[i].for.cell].user = wire[i].user
                 /\ cell'[wire[i].for.cell].row = wire[i].for.row
              \/ <<wire[i].for.cell, wire[i].for.row>> \in late'
  <2>1. /\ wire[i].for \in InCells!Closure /\ OwnOf(wire[i].for, wire[i].user)
        /\ <<wire[i].for.cell, wire[i].for.row>> \in InCells!Waiting
    BY <1>1, <1>10, ClosuresAre DEF ClosuresAreOwn
  <2> QED BY <1>13, <2>1
<1>17. ASSUME NEW d \in downloads'
       PROVE  \/ /\ cell'[d.for.cell].user = d.picture[1]
                 /\ cell'[d.for.cell].row = d.for.row
              \/ <<d.for.cell, d.for.row>> \in late'
  <2>1. CASE d \in downloads
    <3>1. /\ d.for \in InCells!Closure /\ OwnOf(d.for, d.picture[1])
          /\ <<d.for.cell, d.for.row>> \in InCells!Waiting
      BY <1>1, <1>10, <2>1, ClosuresAre DEF ClosuresAreOwn
    <3> QED BY <1>13, <3>1
  <2>2. CASE d.for = to /\ d.picture[1] = u
    BY <1>14, <2>2
  <2> QED BY <1>4, <2>1, <2>2
<1>18. ClosuresAreOwn'
  BY <1>2, <1>15, <1>16, <1>17 DEF ClosuresAreOwn, OwnOf
<1>19. InCells!NameIsOwn /\ InCells!PictureIsOwn
  BY <1>1 DEF CellIsOwn, InCells!CellIsOwn
<1>20. ASSUME NEW b \in Cells, b # c, NEW l, <<b, l>> \in late
       PROVE  <<b, l>> \in late'
  BY <1>2, <1>20
<1>21. InCells!NameIsOwn'
  <2>1. ASSUME NEW b \in Cells
        PROVE  \/ cell'[b].name \in {InCells!NoOne, cell'[b].user}
               \/ \E l \in TableRows : <<b, l>> \in late'
    <3>1. CASE b = c
      BY <1>3, <1>6, <3>1
    <3>2. CASE b # c
      BY <1>6, <1>19, <1>20, <3>2 DEF InCells!NameIsOwn
    <3> QED BY <3>1, <3>2
  <2> QED BY <2>1 DEF InCells!NameIsOwn
<1>22. InCells!PictureIsOwn'
  <2>1. ASSUME NEW b \in Cells
        PROVE  \/ cell'[b].picture = <<>> \/ cell'[b].picture[1] = cell'[b].user
               \/ <<b, cell'[b].row>> \in late'
    <3>1. CASE b = c
      BY <1>3, <1>6, <3>1
    <3>2. CASE b # c
      BY <1>6, <1>19, <1>20, <3>2 DEF InCells!PictureIsOwn
    <3> QED BY <3>1, <3>2
  <2> QED BY <2>1 DEF InCells!PictureIsOwn
<1>23. CellIsOwn'
  BY <1>21, <1>22 DEF CellIsOwn, InCells!CellIsOwn
<1> QED BY <1>11, <1>12, <1>18, <1>23, CellsSettled

LEMMA CellsStop ==
  ASSUME CellsInv, InCells!Stop
  PROVE  CellsInv'
<1>1. RecordTypes /\ CellTypes /\ RecordsBehind
  BY CellsUnfold
<1>2. /\ cell' = [c \in Cells |-> InCells!Blank]
      /\ asks' = [u \in Users |-> <<>>] /\ wire' = <<>> /\ downloads' = {}
      /\ late' = {} /\ stops' = stops + 1
      /\ UNCHANGED <<server, clock, info, lud, files, binds>>
  BY DEF InCells!Stop, InCells!store
<1>3. /\ InCells!Blank \in InCells!Shown /\ InCells!Blank.name = InCells!NoOne
      /\ InCells!Blank.picture = <<>>
  BY DEF InCells!Blank, InCells!Shown
<1>4. /\ wire' \in Seq(InCells!Answer) /\ Len(wire') = 0
      /\ asks' \in [Users -> Seq(InCells!Closure)]
      /\ \A u \in Users : Len(asks'[u]) = 0
  BY <1>2, EmptySeq
<1>5. RecordTypes'
  BY <1>1, <1>2 DEF RecordTypes
<1>6. CellTypes'
  <2>1. stops' \in Nat /\ binds' \in Nat
    BY <1>1, <1>2 DEF CellTypes
  <2> QED BY <1>2, <1>3, <1>4, <2>1 DEF CellTypes
<1>7. RecordsBehind'
  BY <1>1, <1>2, <1>4 DEF RecordsBehind
<1>8. ClosuresAreOwn'
  BY <1>2, <1>4 DEF ClosuresAreOwn
<1>9. CellIsOwn'
  <2>1. \A c \in Cells : cell'[c] = InCells!Blank
    BY <1>2
  <2> QED BY <1>3, <2>1 DEF CellIsOwn, InCells!CellIsOwn, InCells!NameIsOwn,
          InCells!PictureIsOwn
<1> QED BY <1>5, <1>6, <1>7, <1>8, <1>9, CellsSettled

LEMMA CellsStep == CellsInv /\ InCells!Next => CellsInv'
BY CellsSignUp, CellsChangePicture, CellsServerAnswers, CellsBind, CellsEvent,
   CellsDownloads, CellsStop DEF InCells!Next

LEMMA CellsStutter == CellsInv /\ UNCHANGED cells => CellsInv'
<1> SUFFICES ASSUME CellsInv, UNCHANGED cells PROVE CellsInv'
  OBVIOUS
<1>1. /\ RecordTypes /\ RecordsBehind /\ binds \in Nat /\ stops \in Nat
  BY CellsUnfold
<1>2. /\ UNCHANGED <<server, clock, info, lud, files, wire>>
      /\ UNCHANGED <<cell, asks, wire, downloads, late>>
      /\ binds' = binds /\ stops' = stops
  BY DEF cells
<1>3. RecordTypes' /\ RecordsBehind'
  BY <1>1, <1>2 DEF RecordTypes, RecordsBehind
<1>4. CellTypes' /\ ClosuresAreOwn' /\ CellIsOwn'
  BY <1>1, <1>2, CellsRest
<1> QED BY <1>3, <1>4, CellsSettled

-----------------------------------------------------------------------------
(* The editor: its types are proved in PostEditorProofs.                   *)
EditorFacts == INSTANCE PostEditorProofs
               WITH Devices <- Users, NoPost <- nobody,
                    MaxStops <- 0, MaxDrops <- 0,
                    puts <- editorPuts, uploads <- editorUploads,
                    deletions <- editorDeletions, lost <- editorLost,
                    images <- editorImages, stops <- editorStops

LEMMA EditorAssumed == EditorFacts!PostEditorAssumption
BY ScreensAssumption
DEF InEditor!PostEditorAssumption, EditorFacts!PostEditorAssumption

LEMMA EditorInit == InEditor!Init => EditorFacts!TypeInv
<1>1. InEditor!Init <=> EditorFacts!Init
  BY DEF InEditor!Init, EditorFacts!Init, InEditor!Absent, EditorFacts!Absent,
     InEditor!Closed, EditorFacts!Closed
<1> QED BY <1>1, EditorAssumed, EditorFacts!TypeInit

LEMMA EditorNext == InEditor!Next <=> EditorFacts!Next
BY DEF
     InEditor!Next, EditorFacts!Next, InEditor!Edit, EditorFacts!Edit,
     InEditor!OpenNew, EditorFacts!OpenNew, InEditor!Closed,
     EditorFacts!Closed, InEditor!remote, EditorFacts!remote,
     InEditor!network, EditorFacts!network, InEditor!OpenEdit,
     EditorFacts!OpenEdit, InEditor!ImageLoaded, EditorFacts!ImageLoaded,
     InEditor!history, EditorFacts!history, InEditor!ImageNotLoaded,
     EditorFacts!ImageNotLoaded, InEditor!Pick, EditorFacts!Pick,
     InEditor!SubmitImage, EditorFacts!SubmitImage, InEditor!device,
     EditorFacts!device, InEditor!SubmitText, EditorFacts!SubmitText,
     InEditor!Enqueue, EditorFacts!Enqueue, InEditor!UpdatePostParameters,
     EditorFacts!UpdatePostParameters, InEditor!Write, EditorFacts!Write,
     InEditor!Delete, EditorFacts!Delete, InEditor!SetPostAsDeleted,
     EditorFacts!SetPostAsDeleted, InEditor!Cancel, EditorFacts!Cancel,
     InEditor!TapOutside, EditorFacts!TapOutside, InEditor!Refresh,
     EditorFacts!Refresh, InEditor!Shown, EditorFacts!Shown,
     InEditor!Stop, EditorFacts!Stop, InEditor!Transfer,
     EditorFacts!Transfer, InEditor!Uploaded, EditorFacts!Uploaded,
     InEditor!Unused, EditorFacts!Unused, InEditor!Absent,
     EditorFacts!Absent, InEditor!DeletedOld, EditorFacts!DeletedOld,
     InEditor!Completed, EditorFacts!Completed, InEditor!NotUploaded,
     EditorFacts!NotUploaded, InEditor!Land, EditorFacts!Land,
     InEditor!Apply, EditorFacts!Apply, InEditor!After, EditorFacts!After,
     InEditor!Acknowledge, EditorFacts!Acknowledge, InEditor!Drop,
     EditorFacts!Drop, InEditor!Deleted, EditorFacts!Deleted,
     InEditor!Max, EditorFacts!Max

LEMMA EditorStep == EditorFacts!TypeInv /\ InEditor!Next => EditorFacts!TypeInv'
BY EditorNext, EditorAssumed, EditorFacts!TypeStep

LEMMA EditorStutter ==
  EditorFacts!TypeInv /\ UNCHANGED editor => EditorFacts!TypeInv'
<1>1. UNCHANGED editor => UNCHANGED EditorFacts!vars
  BY DEF editor, EditorFacts!vars, EditorFacts!remote, EditorFacts!device,
     EditorFacts!network, EditorFacts!history
<1> QED BY <1>1, EditorAssumed, EditorFacts!TypeStep

LEMMA EditorType == EditorFacts!TypeInv => InEditor!TypeOK
BY DEF EditorFacts!TypeInv, EditorFacts!TypeOK, InEditor!TypeOK,
   EditorFacts!Record, InEditor!Record, EditorFacts!Screen, InEditor!Screen,
   EditorFacts!Put, InEditor!Put, EditorFacts!Upload, InEditor!Upload

-----------------------------------------------------------------------------
(* The comments.                                                           *)

(* Events of a post are queued in the order of its comments, and none is   *)
(* ahead of what the SDK holds.                                            *)
QueueInOrder ==
  /\ \A d \in PostIds : held[d] <= comments[d]
  /\ \A i \in 1 .. Len(queue) :
       /\ queue[i].post \in subs
       /\ queue[i].n <= held[queue[i].post]
  /\ \A i, j \in 1 .. Len(queue) :
       i < j /\ queue[i].post = queue[j].post => queue[i].n <= queue[j].n

(* What the screen lists is ahead of no queued event of the same post; a   *)
(* screen that is gone lists nothing and hears nothing.                    *)
ScreenBehind ==
  /\ shown.post \in PostIds => shown.n <= comments[shown.post]
  /\ \A i \in 1 .. Len(queue) : queue[i].post = shown.post => shown.n <= queue[i].n
  /\ commentsScreen = nobody => ~observing /\ ~leaving /\ shown = InComments!Empty
  /\ leaving => ~observing

CommentsInv == InComments!TypeOK /\ QueueInOrder /\ ScreenBehind

-----------------------------------------------------------------------------
(* Appending an event that is behind none of its post's, and no more than  *)
(* held, keeps the order.                                                  *)
LEMMA CommentAppended ==
  ASSUME NEW s \in Seq(InComments!Comments), NEW e \in InComments!Comments
  PROVE  /\ Append(s, e) \in Seq(InComments!Comments)
         /\ Len(Append(s, e)) = Len(s) + 1
         /\ \A i \in 1 .. Len(s) : Append(s, e)[i] = s[i]
         /\ Append(s, e)[Len(s) + 1] = e
BY DEF InComments!Comments

LEMMA NoComment == <<>> \in Seq(InComments!Comments) /\ Len(<<>>) = 0
OBVIOUS

LEMMA CommentTaken ==
  ASSUME NEW s \in Seq(InComments!Comments), s # <<>>
  PROVE  /\ Tail(s) \in Seq(InComments!Comments)
         /\ Head(s) \in InComments!Comments /\ Head(s) = s[1]
         /\ Len(Tail(s)) = Len(s) - 1 /\ Len(s) \in Nat /\ Len(s) >= 1
         /\ \A i \in 1 .. Len(Tail(s)) : Tail(s)[i] = s[i + 1]
OBVIOUS

-----------------------------------------------------------------------------
LEMMA CommentsAssumed == InComments!CommentsScreenAssumption
BY ScreensAssumption

LEMMA CommentsInit == InComments!Init => CommentsInv
<1> SUFFICES ASSUME InComments!Init PROVE CommentsInv
  OBVIOUS
<1>1. InComments!TypeOK
  <2>1. comments \in [PostIds -> Nat] /\ held \in [PostIds -> Nat]
    BY DEF InComments!Init
  <2> QED BY <2>1, NoComment DEF InComments!Init, InComments!TypeOK, InComments!Empty,
       InComments!Comments
<1>2. QueueInOrder
  BY <1>1, NoComment DEF InComments!Init, QueueInOrder, InComments!TypeOK
<1>3. ScreenBehind
  BY CommentsAssumed, NoComment
  DEF InComments!CommentsScreenAssumption, InComments!Init, ScreenBehind, InComments!Empty
<1> QED BY <1>1, <1>2, <1>3 DEF CommentsInv

(* Each step of the program keeps the invariant.                           *)
LEMMA CommentsStep == CommentsInv /\ InComments!Next => CommentsInv'
<1> SUFFICES ASSUME CommentsInv, InComments!Next PROVE CommentsInv'
  OBVIOUS
<1> USE CommentsAssumed DEF InComments!CommentsScreenAssumption
<1>0. Len(queue) \in Nat /\ \A i \in 1 .. Len(queue) : queue[i] \in InComments!Comments
  BY DEF CommentsInv, InComments!TypeOK
<1>1. ASSUME NEW d \in PostIds, InComments!AddComment(d) PROVE CommentsInv'
  BY <1>0, <1>1 DEF InComments!AddComment, CommentsInv, InComments!TypeOK,
       QueueInOrder, ScreenBehind, InComments!Comments, InComments!Empty
<1>2. ASSUME NEW d \in PostIds, InComments!Raise(d) PROVE CommentsInv'
  <2> DEFINE e == [post |-> d, n |-> comments[d]]
  <2>1. e \in InComments!Comments /\ comments[d] \in Nat /\ held[d] \in Nat /\ d \in subs
    BY <1>2 DEF CommentsInv, InComments!TypeOK, InComments!Comments, InComments!Raise
  <2>2. /\ queue' = Append(queue, e) /\ held[d] < comments[d]
        /\ held' = [held EXCEPT ![d] = comments[d]]
        /\ UNCHANGED <<comments, subs, commentsScreen, observing, leaving, shown, opens>>
    BY <1>2 DEF InComments!Raise
  <2>3. /\ queue' \in Seq(InComments!Comments) /\ Len(queue') = Len(queue) + 1
        /\ \A i \in 1 .. Len(queue) : queue'[i] = queue[i]
        /\ queue'[Len(queue) + 1] = e
    BY <2>1, <2>2, CommentAppended DEF CommentsInv, InComments!TypeOK
  <2>4. InComments!TypeOK'
    BY <2>1, <2>2, <2>3 DEF CommentsInv, InComments!TypeOK
  <2>5. QueueInOrder'
    <3>1. /\ subs' = subs /\ held'[d] = comments[d] /\ held[d] <= held'[d]
          /\ \A c \in PostIds : c # d => held'[c] = held[c]
          /\ e.post = d /\ e.n = comments[d]
      BY <2>1, <2>2 DEF CommentsInv, InComments!TypeOK
    <3>2. \A i \in 1 .. Len(queue') : i \in 1 .. Len(queue) \/ i = Len(queue) + 1
      BY <1>0, <2>3
    <3>3. \A i \in 1 .. Len(queue) :
            /\ queue[i].post \in PostIds /\ queue[i].n \in Nat
            /\ queue[i].post \in subs /\ queue[i].n <= held[queue[i].post]
      <4>1. \A x \in InComments!Comments : x.n \in Nat
        BY DEF InComments!Comments
      <4>2. \A i \in 1 .. Len(queue) :
              queue[i].post \in subs /\ queue[i].n <= held[queue[i].post]
        BY DEF CommentsInv, QueueInOrder
      <4>3. subs \subseteq PostIds /\ \A i \in 1 .. Len(queue) : queue[i] \in InComments!Comments
        BY <1>0 DEF CommentsInv, InComments!TypeOK
      <4> QED BY ONLY <4>1, <4>2, <4>3
    <3>4. ASSUME NEW i \in 1 .. Len(queue')
          PROVE  queue'[i].post \in subs' /\ queue'[i].n <= held'[queue'[i].post]
      <4>1. CASE i \in 1 .. Len(queue)
        <5>1. queue'[i] = queue[i]
          BY <2>3, <4>1
        <5>2. CASE queue[i].post = d
          BY <2>1, <3>1, <3>3, <4>1, <5>1, <5>2
        <5>3. CASE queue[i].post # d
          BY <3>1, <3>3, <4>1, <5>1, <5>3
        <5> QED BY <5>2, <5>3
      <4>2. CASE i = Len(queue) + 1
        BY <2>1, <2>3, <3>1, <4>2
      <4> QED BY <3>2, <4>1, <4>2
    <3>5. ASSUME NEW i \in 1 .. Len(queue'), NEW j \in 1 .. Len(queue'),
                 i < j, queue'[i].post = queue'[j].post
          PROVE  queue'[i].n <= queue'[j].n
      <4>1. i \in 1 .. Len(queue)
        BY <1>0, <2>3, <3>5
      <4>2. queue'[i] = queue[i]
        BY <2>3, <4>1
      <4>3. CASE j \in 1 .. Len(queue)
        BY <2>3, <3>5, <4>1, <4>2, <4>3 DEF CommentsInv, QueueInOrder
      <4>4. CASE j = Len(queue) + 1
        <5>1. queue'[j] = e /\ queue[i].post = d
          BY <2>3, <3>1, <3>5, <4>2, <4>4
        <5>2. queue[i].n <= held[d] /\ queue[i].n \in Nat
          BY <3>3, <4>1, <5>1
        <5>3. held[d] <= comments[d] /\ held[d] \in Nat /\ comments[d] \in Nat
          BY <2>1, <2>2
        <5> QED BY <3>1, <4>2, <5>1, <5>2, <5>3
      <4> QED BY <3>2, <4>3, <4>4
    <3>6. ASSUME NEW c \in PostIds PROVE held'[c] <= comments'[c]
      <4>1. comments'[c] = comments[c] /\ held[c] <= comments[c]
        BY <2>2 DEF CommentsInv, QueueInOrder
      <4>2. CASE c = d
        BY <2>1, <3>1, <4>1, <4>2
      <4>3. CASE c # d
        BY <3>1, <4>1, <4>3
      <4> QED BY <4>2, <4>3
    <3> QED BY <3>4, <3>5, <3>6 DEF QueueInOrder
  <2>6. ScreenBehind'
    <3>1. /\ shown' = shown /\ comments' = comments /\ commentsScreen' = commentsScreen
          /\ observing' = observing /\ leaving' = leaving
      BY <2>2
    <3>2. ASSUME NEW i \in 1 .. Len(queue'), queue'[i].post = shown.post
          PROVE  shown.n <= queue'[i].n
      <4>1. CASE i \in 1 .. Len(queue)
        BY <2>3, <3>2, <4>1 DEF CommentsInv, ScreenBehind
      <4>2. CASE i = Len(queue) + 1
        <5>1. e.post = d /\ e.n = comments[d] /\ queue'[i] = e /\ d \in PostIds
          BY <2>3, <4>2
        <5>2. shown.post = d /\ shown.n <= comments[d]
          BY <3>2, <5>1 DEF CommentsInv, ScreenBehind
        <5> QED BY <5>1, <5>2
      <4>3. i \in 1 .. Len(queue) \/ i = Len(queue) + 1
        <5>1. i \in 1 .. Len(queue) + 1
          BY <2>3
        <5> QED BY <1>0, <5>1
      <4> QED BY <4>1, <4>2, <4>3
    <3> QED BY <3>1, <3>2 DEF CommentsInv, ScreenBehind
  <2> QED BY <2>4, <2>5, <2>6 DEF CommentsInv
<1>3. ASSUME NEW d \in PostIds, InComments!Open(d) PROVE CommentsInv'
  <2> DEFINE e == [post |-> d, n |-> held[d]]
  <2>1. e \in InComments!Comments /\ held[d] \in Nat
    BY DEF CommentsInv, InComments!TypeOK, InComments!Comments
  <2>2. PICK n \in InComments!FeedCopies(d) : shown' = [post |-> d, n |-> n]
    BY <1>3 DEF InComments!Open
  <2>3. /\ n \in Nat /\ n <= comments[d]
        /\ d \in subs => n <= held[d]
        /\ \A i \in 1 .. Len(queue) : queue[i].post = d => n <= queue[i].n
    BY DEF InComments!FeedCopies, CommentsInv, InComments!TypeOK
  <2>4. /\ commentsScreen' = d /\ observing' = TRUE
        /\ leaving' = FALSE /\ opens' = opens + 1
        /\ subs' = subs \cup {d} /\ UNCHANGED <<comments, held>>
    BY <1>3 DEF InComments!Open
  <2>5. CASE d \in subs /\ held[d] > 0
    <3>1. queue' = Append(queue, e)
      BY <1>3, <2>5 DEF InComments!Open, InComments!FirstEvent
    <3>2. /\ queue' \in Seq(InComments!Comments) /\ Len(queue') = Len(queue) + 1
          /\ \A i \in 1 .. Len(queue) : queue'[i] = queue[i]
          /\ queue'[Len(queue) + 1] = e
      BY <2>1, <3>1, CommentAppended DEF CommentsInv, InComments!TypeOK
    <3>3. InComments!TypeOK'
      <4>1. shown' \in InComments!Comments
        BY <2>2, <2>3 DEF InComments!Comments
      <4>2. observing' \in BOOLEAN /\ leaving' \in BOOLEAN
        BY <2>4, Zenon
      <4>3. /\ comments' \in [PostIds -> Nat] /\ held' \in [PostIds -> Nat]
            /\ subs' \subseteq PostIds
            /\ commentsScreen' \in PostIds \cup {nobody} /\ opens' \in Nat
        BY <2>4 DEF CommentsInv, InComments!TypeOK
      <4> QED BY <3>2, <4>1, <4>2, <4>3 DEF InComments!TypeOK
    <3>4. QueueInOrder'
      <4>1. Len(queue') = Len(queue) + 1 /\ e.post = d /\ e.n = held[d]
        BY <3>2
      <4>2. \A i \in 1 .. Len(queue') : i \in 1 .. Len(queue) \/ i = Len(queue) + 1
        BY <1>0, <4>1
      <4>3. \A i \in 1 .. Len(queue') :
              queue'[i].post \in subs' /\ queue'[i].n <= held'[queue'[i].post]
        BY <2>1, <2>4, <2>5, <3>2, <4>1, <4>2 DEF CommentsInv, QueueInOrder
      <4>4. ASSUME NEW i \in 1 .. Len(queue'), NEW j \in 1 .. Len(queue'),
                   i < j, queue'[i].post = queue'[j].post
            PROVE  queue'[i].n <= queue'[j].n
        <5>1. i \in 1 .. Len(queue)
          BY <1>0, <4>1, <4>4
        <5>2. CASE j \in 1 .. Len(queue)
          BY <3>2, <4>4, <5>1, <5>2 DEF CommentsInv, QueueInOrder
        <5>3. CASE j = Len(queue) + 1
          <6>1. queue[i].post = d /\ queue'[i] = queue[i] /\ queue'[j] = e
            BY <3>2, <4>1, <4>4, <5>1, <5>3
          <6>2. queue[i].n <= held[d]
            BY <5>1, <6>1 DEF CommentsInv, QueueInOrder
          <6> QED BY <4>1, <6>1, <6>2
        <5> QED BY <4>2, <5>2, <5>3
      <4> QED BY <2>4, <4>3, <4>4 DEF CommentsInv, QueueInOrder
    <3>5. ScreenBehind'
      <4>1. /\ shown'.post = d /\ shown'.n = n /\ e.post = d
            /\ e.n = held[d] /\ commentsScreen' # nobody
        BY <2>2, <2>4
      <4>2. shown'.n <= comments'[d]
        BY <2>3, <2>4, <4>1
      <4>3. \A i \in 1 .. Len(queue') : queue'[i].post = d => n <= queue'[i].n
        BY <1>0, <2>3, <2>5, <3>2, <4>1
      <4> QED BY <2>4, <4>1, <4>2, <4>3 DEF ScreenBehind
    <3> QED BY <3>3, <3>4, <3>5 DEF CommentsInv
  <2>6. CASE ~(d \in subs /\ held[d] > 0)
    <3>1. queue' = queue
      BY <1>3, <2>6 DEF InComments!Open, InComments!FirstEvent
    <3>3. InComments!TypeOK'
      <4>1. shown' \in InComments!Comments
        BY <2>2, <2>3 DEF InComments!Comments
      <4>2. observing' \in BOOLEAN /\ leaving' \in BOOLEAN
        BY <2>4, Zenon
      <4>3. /\ comments' \in [PostIds -> Nat] /\ held' \in [PostIds -> Nat]
            /\ subs' \subseteq PostIds
            /\ commentsScreen' \in PostIds \cup {nobody} /\ opens' \in Nat
        BY <2>4 DEF CommentsInv, InComments!TypeOK
      <4> QED BY <3>1, <4>1, <4>2, <4>3 DEF CommentsInv, InComments!TypeOK
    <3>4. QueueInOrder'
      BY <2>4, <3>1 DEF CommentsInv, QueueInOrder
    <3>5. ScreenBehind'
      BY <2>2, <2>3, <2>4, <3>1 DEF CommentsInv, ScreenBehind
    <3> QED BY <3>3, <3>4, <3>5 DEF CommentsInv
  <2> QED BY <2>5, <2>6
<1>4. ASSUME InComments!Deliver PROVE CommentsInv'
  <2>1. /\ queue # <<>> /\ queue' = Tail(queue)
        /\ shown' = IF observing THEN Head(queue) ELSE shown
        /\ UNCHANGED <<comments, subs, held, commentsScreen, observing, leaving, opens>>
    BY <1>4 DEF InComments!Deliver
  <2>2. /\ queue' \in Seq(InComments!Comments)
        /\ Head(queue) \in InComments!Comments /\ Head(queue) = queue[1]
        /\ Len(queue') = Len(queue) - 1 /\ Len(queue) >= 1
        /\ \A i \in 1 .. Len(queue') : queue'[i] = queue[i + 1]
    BY <2>1, CommentTaken DEF CommentsInv, InComments!TypeOK
  <2>3. InComments!TypeOK'
    BY <2>1, <2>2 DEF CommentsInv, InComments!TypeOK
  <2>4. QueueInOrder'
    <3>1. \A i \in 1 .. Len(queue') : i + 1 \in 1 .. Len(queue) /\ queue'[i] = queue[i + 1]
      BY <1>0, <2>2
    <3>2. \A i \in 1 .. Len(queue') :
            queue'[i].post \in subs' /\ queue'[i].n <= held'[queue'[i].post]
      BY <2>1, <3>1 DEF CommentsInv, QueueInOrder
    <3>3. \A i, j \in 1 .. Len(queue') : i < j => i + 1 < j + 1
      OBVIOUS
    <3>4. \A i, j \in 1 .. Len(queue') :
            i < j /\ queue'[i].post = queue'[j].post => queue'[i].n <= queue'[j].n
      BY <3>1, <3>3 DEF CommentsInv, QueueInOrder
    <3> QED BY <2>1, <3>2, <3>4 DEF CommentsInv, QueueInOrder
  <2>5. ScreenBehind'
    BY <1>0, <2>1, <2>2 DEF CommentsInv, InComments!TypeOK, QueueInOrder, ScreenBehind,
         InComments!Comments
  <2> QED BY <2>3, <2>4, <2>5 DEF CommentsInv
<1>5. CASE InComments!BeginBack \/ InComments!FinishBack \/ InComments!CancelBack
  <2>1. /\ UNCHANGED <<comments, subs, held, queue, opens>>
        /\ commentsScreen' \in {commentsScreen, nobody}
        /\ shown' \in {shown, InComments!Empty}
    BY <1>5 DEF InComments!BeginBack, InComments!FinishBack, InComments!CancelBack
  <2>2. observing' \in BOOLEAN /\ leaving' \in BOOLEAN
    BY <1>5, Zenon DEF InComments!BeginBack, InComments!FinishBack,
         InComments!CancelBack, CommentsInv, InComments!TypeOK
  <2>3. InComments!TypeOK'
    BY <2>1, <2>2 DEF CommentsInv, InComments!TypeOK, InComments!Empty,
         InComments!Comments
  <2>4. QueueInOrder'
    BY <2>1 DEF CommentsInv, QueueInOrder
  <2>5. /\ shown'.post \in PostIds => shown'.n <= comments'[shown'.post]
        /\ \A i \in 1 .. Len(queue') :
             queue'[i].post = shown'.post => shown'.n <= queue'[i].n
    <3>1. CASE shown' = shown
      BY <2>1, <3>1 DEF CommentsInv, ScreenBehind
    <3>2. CASE shown' = InComments!Empty
      <4>1. \A i \in 1 .. Len(queue) : queue[i].post # nobody
        BY DEF CommentsInv, InComments!TypeOK, QueueInOrder
      <4> QED BY <2>1, <3>2, <4>1 DEF InComments!Empty
    <3> QED BY <2>1, <3>1, <3>2
  <2>6. /\ commentsScreen' = nobody => ~observing' /\ ~leaving' /\ shown' = InComments!Empty
        /\ leaving' => ~observing'
    <3>1. CASE InComments!BeginBack
      BY <3>1 DEF InComments!BeginBack
    <3>2. CASE InComments!FinishBack
      BY <3>2 DEF InComments!FinishBack, CommentsInv, ScreenBehind
    <3>3. CASE InComments!CancelBack
      BY <3>3 DEF InComments!CancelBack, CommentsInv, ScreenBehind
    <3> QED BY <1>5, <3>1, <3>2, <3>3
  <2>7. ScreenBehind'
    BY <2>5, <2>6 DEF ScreenBehind
  <2> QED BY <2>3, <2>4, <2>7 DEF CommentsInv
<1> QED BY <1>1, <1>2, <1>3, <1>4, <1>5 DEF InComments!Next

LEMMA CommentsStutter == CommentsInv /\ UNCHANGED commenting => CommentsInv'
BY DEF commenting, CommentsInv, InComments!TypeOK, QueueInOrder, ScreenBehind

-----------------------------------------------------------------------------
(* The tables of the posts and the handler that fills them, statement by   *)
(* statement.                                                              *)

NoLikes(d) == \A u \in Users : likeRows[d][u] = 0

LoopBehind == batch \ (todo \cup cur)

(* The loop variable is bound in the loop body and only there.             *)
CursorInv ==
  /\ phase = "idle" => batch = {}
  /\ cur \subseteq batch /\ todo \subseteq batch
  /\ phase = "loop" => cur = {}
  /\ \A x, y \in cur : x = y
  /\ cur \cap todo = {}
  /\ \A x, y \in batch : x.id = y.id => x = y

(* How far the statements for the post at hand have come.                  *)
Halfway(post) ==
  /\ phase = "delete" => post.isDeleted = 1 /\ NoLikes(post.id)
  /\ phase = "comments" =>
       /\ post.isDeleted = 0 /\ NoLikes(post.id)
       /\ post.comments \subseteq commentRows \cup left
  /\ phase = "likes" =>
       /\ post.isDeleted = 0 /\ postRow[post.id] = post.lastUpdate
       /\ left \subseteq post.likes
       /\ post.comments \subseteq commentRows
       /\ \A u \in Users :
            likeRows[post.id][u] = IF u \in post.likes \ left THEN 1 ELSE 0
  /\ phase = "track" => InTables!Applied(post)

TrackInv ==
  /\ \A post \in LoopBehind : post.lastUpdate <= newest
  /\ isUpdated => \E post \in LoopBehind : post.lastUpdate = newest

LoopInv ==
  /\ InTables!TypeOK
  /\ CursorInv
  /\ \A post \in cur : Halfway(post)
  /\ \A post \in LoopBehind : InTables!Applied(post)
  /\ TrackInv
  /\ InTables!LikesHavePost
  /\ InTables!NoDuplicateLike

(* The tables and the handler's variables keep their types.                *)
LEMMA TablesTyped ==
  ASSUME InTables!TypeOK, InTables!Next
  PROVE  InTables!TypeOK'
<1> USE DEF InTables!TypeOK, InTables!Phases, InTables!Post, InTables!NoRow
<1>1. ASSUME NEW data \in Batches, InTables!Enter(data) PROVE InTables!TypeOK'
  BY <1>1, ScreensAssumption
     DEF InTables!LocalStoreAssumption, InTables!Enter, InTables!GetLastUpdate,
         InTables!tables
<1>2. ASSUME NEW post \in todo, InTables!RemoveAllLikes(post) PROVE InTables!TypeOK'
  <2>1. post \in InTables!Post /\ cur' \subseteq InTables!Post /\ todo' \subseteq InTables!Post
    BY <1>2 DEF InTables!RemoveAllLikes, InTables!LikesRemoved
  <2>2. likeRows' \in [PostIds -> [Users -> Nat]]
    BY <1>2, <2>1 DEF InTables!RemoveAllLikes, InTables!LikesRemoved
  <2>3. phase' \in InTables!Phases /\ left' \subseteq Users \cup CommentIds
    BY <1>2, <2>1 DEF InTables!RemoveAllLikes, InTables!LikesRemoved
  <2> QED BY <1>2, <2>1, <2>2, <2>3
     DEF InTables!RemoveAllLikes, InTables!LikesRemoved
<1>3. ASSUME NEW post \in cur, InTables!Body(post) PROVE InTables!TypeOK'
  <2>0. post \in InTables!Post
    BY <1>3
  <2>1. CASE InTables!Delete(post)
    BY <2>0, <2>1 DEF InTables!Delete
  <2>2. ASSUME NEW c \in CommentIds, InTables!AddComment(c) PROVE InTables!TypeOK'
    BY <2>2 DEF InTables!AddComment
  <2>3. CASE InTables!AddNew(post)
    BY <2>0, <2>3 DEF InTables!AddNew
  <2>4. ASSUME NEW u \in Users, InTables!AddNewLike(post, u) PROVE InTables!TypeOK'
    <3>1. likeRows' \in [PostIds -> [Users -> Nat]]
      BY <2>0, <2>4 DEF InTables!AddNewLike
    <3> QED BY <2>4, <3>1 DEF InTables!AddNewLike
  <2>5. CASE InTables!TrackNewest(post)
    BY <2>0, <2>5 DEF InTables!TrackNewest, InTables!tables
  <2> QED BY <1>3, <2>1, <2>2, <2>3, <2>4, <2>5 DEF InTables!Body
<1>4. CASE InTables!SetLastUpdate
  BY <1>4 DEF InTables!SetLastUpdate, InTables!Idle
<1>5. CASE InTables!Kill
  BY <1>5 DEF InTables!Kill, InTables!Idle, InTables!tables
<1> QED BY <1>1, <1>2, <1>3, <1>4, <1>5 DEF InTables!Next

(* A statement about one post's tables leaves what is said of others true. *)
LEMMA AppliedFrame ==
  ASSUME NEW post \in InTables!Post,
         postRow'[post.id] = postRow[post.id],
         likeRows'[post.id] = likeRows[post.id],
         commentRows \subseteq commentRows',
         InTables!Applied(post)
  PROVE  InTables!Applied(post)'
BY DEF InTables!Applied

(* One case per action; under it, the conjuncts the action can disturb.    *)
LEMMA LoopStep ==
  ASSUME LoopInv, InTables!Next
  PROVE  LoopInv'
<1>0. InTables!TypeOK /\ InTables!TypeOK'
  BY TablesTyped DEF LoopInv
<1>1. ASSUME NEW data \in Batches, InTables!Enter(data) PROVE LoopInv'
  <2>1. cur = {} /\ cur' = {} /\ LoopBehind' = {} /\ ~isUpdated'
    BY <1>1 DEF InTables!Enter, LoopInv, CursorInv, LoopBehind, TrackInv
  <2>2. \A x, y \in data : x.id = y.id => x = y
    BY ScreensAssumption DEF InTables!LocalStoreAssumption
  <2>3. CursorInv'
    BY <1>1, <2>1, <2>2 DEF InTables!Enter, CursorInv
  <2>4. InTables!LikesHavePost' /\ InTables!NoDuplicateLike'
    BY <1>1
       DEF InTables!Enter, InTables!tables, LoopInv, InTables!LikesHavePost,
           InTables!NoDuplicateLike
  <2> QED BY <1>0, <2>1, <2>3, <2>4 DEF LoopInv, TrackInv
<1>2. ASSUME NEW post \in todo, InTables!RemoveAllLikes(post) PROVE LoopInv'
  <2>0. post \in InTables!Post /\ post \in batch /\ cur = {}
    BY <1>0, <1>2
       DEF InTables!RemoveAllLikes, InTables!LikesRemoved, LoopInv, CursorInv,
           InTables!TypeOK
  <2>1. CursorInv'
    BY <1>2, <2>0
       DEF InTables!RemoveAllLikes, InTables!LikesRemoved, LoopInv, CursorInv
  <2>2. LoopBehind' = LoopBehind
    BY <1>2, <2>0
       DEF InTables!RemoveAllLikes, InTables!LikesRemoved, LoopBehind
  <2>3. NoLikes(post.id)'
    BY <1>0, <1>2, <2>0
       DEF InTables!RemoveAllLikes, InTables!LikesRemoved, NoLikes,
           InTables!TypeOK, InTables!Post
  <2>4. \A q \in PostIds : q # post.id => likeRows'[q] = likeRows[q]
    BY <1>0, <1>2, <2>0
       DEF InTables!RemoveAllLikes, InTables!LikesRemoved, InTables!TypeOK
  <2>5. \A x \in cur' : Halfway(x)'
    BY <1>2, <2>0, <2>3
       DEF InTables!RemoveAllLikes, InTables!LikesRemoved, Halfway,
           InTables!Post
  <2>6. \A x \in LoopBehind' : InTables!Applied(x)'
    <3> TAKE x \in LoopBehind'
    <3>1. x \in InTables!Post /\ x.id # post.id
      BY <1>0, <1>2, <2>0, <2>2
         DEF LoopInv, CursorInv, LoopBehind, InTables!TypeOK
    <3>2. x.id \in PostIds
      BY <3>1 DEF InTables!Post
    <3>3. InTables!Applied(x)
      BY <2>2 DEF LoopInv
    <3> QED BY <1>2, <2>4, <3>1, <3>2, <3>3, AppliedFrame
       DEF InTables!RemoveAllLikes, InTables!LikesRemoved
  <2>7. TrackInv'
    BY <1>2, <2>2
       DEF InTables!RemoveAllLikes, InTables!LikesRemoved, LoopInv, TrackInv
  <2>8. InTables!LikesHavePost' /\ InTables!NoDuplicateLike'
    BY <1>0, <1>2, <2>0, <2>3, <2>4
    DEF InTables!RemoveAllLikes, InTables!LikesRemoved, LoopInv,
        InTables!LikesHavePost, InTables!NoDuplicateLike, NoLikes
  <2> QED BY <1>0, <2>1, <2>5, <2>6, <2>7, <2>8 DEF LoopInv
<1>3. ASSUME NEW post \in cur, InTables!Body(post) PROVE LoopInv'
  <2>0. /\ post \in InTables!Post /\ post \in batch /\ post.id \in PostIds
        /\ cur = {post} /\ Halfway(post)
    BY <1>0, <1>3 DEF LoopInv, CursorInv, InTables!TypeOK, InTables!Post
  <2>1. \A x \in LoopBehind : x \in InTables!Post /\ x.id \in PostIds /\ x.id # post.id
    BY <1>0, <2>0
       DEF LoopInv, CursorInv, LoopBehind, InTables!TypeOK, InTables!Post
  <2>2. CASE InTables!Delete(post)
    <3>1. CursorInv' /\ LoopBehind' = LoopBehind /\ TrackInv'
      BY <2>2 DEF InTables!Delete, LoopInv, CursorInv, LoopBehind, TrackInv
    <3>2. NoLikes(post.id) /\ post.isDeleted = 1
      BY <2>0, <2>2 DEF InTables!Delete, Halfway
    <3>3. postRow'[post.id] = InTables!NoRow
          /\ \A q \in PostIds : q # post.id => postRow'[q] = postRow[q]
      BY <1>0, <2>0, <2>2 DEF InTables!Delete, InTables!TypeOK
    <3>4. \A x \in cur' : Halfway(x)'
      BY <2>0, <2>2, <3>2, <3>3
         DEF InTables!Delete, Halfway, InTables!Applied, NoLikes
    <3>5. \A x \in LoopBehind' : InTables!Applied(x)'
      BY <2>1, <2>2, <3>1, <3>3, AppliedFrame DEF InTables!Delete, LoopInv
    <3>6. InTables!LikesHavePost' /\ InTables!NoDuplicateLike'
      BY <2>2, <3>2, <3>3
      DEF InTables!Delete, LoopInv, InTables!LikesHavePost,
          InTables!NoDuplicateLike, NoLikes
    <3> QED BY <1>0, <3>1, <3>4, <3>5, <3>6 DEF LoopInv
  <2>3. ASSUME NEW c \in CommentIds, InTables!AddComment(c) PROVE LoopInv'
    <3>1. CursorInv' /\ LoopBehind' = LoopBehind /\ TrackInv'
      BY <2>3 DEF InTables!AddComment, LoopInv, CursorInv, LoopBehind, TrackInv
    <3>2. \A x \in cur' : Halfway(x)'
      BY <2>0, <2>3 DEF InTables!AddComment, Halfway, NoLikes
    <3>3. \A x \in LoopBehind' : InTables!Applied(x)'
      BY <2>1, <2>3, <3>1, AppliedFrame DEF InTables!AddComment, LoopInv
    <3>4. InTables!LikesHavePost' /\ InTables!NoDuplicateLike'
      BY <2>3
         DEF InTables!AddComment, LoopInv, InTables!LikesHavePost,
             InTables!NoDuplicateLike
    <3> QED BY <1>0, <3>1, <3>2, <3>3, <3>4 DEF LoopInv
  <2>4. CASE InTables!AddNew(post)
    <3>1. CursorInv' /\ LoopBehind' = LoopBehind /\ TrackInv'
      BY <2>4 DEF InTables!AddNew, LoopInv, CursorInv, LoopBehind, TrackInv
    <3>2. /\ post.isDeleted = 0 /\ NoLikes(post.id)
          /\ post.comments \subseteq commentRows
      BY <2>0, <2>4 DEF InTables!AddNew, Halfway
    <3>3. postRow'[post.id] = post.lastUpdate
          /\ \A q \in PostIds : q # post.id => postRow'[q] = postRow[q]
      BY <1>0, <2>0, <2>4 DEF InTables!AddNew, InTables!TypeOK
    <3>4. \A x \in cur' : Halfway(x)'
      BY <2>0, <2>4, <3>2, <3>3 DEF InTables!AddNew, Halfway, NoLikes
    <3>5. \A x \in LoopBehind' : InTables!Applied(x)'
      BY <2>1, <2>4, <3>1, <3>3, AppliedFrame DEF InTables!AddNew, LoopInv
    <3>6. InTables!LikesHavePost' /\ InTables!NoDuplicateLike'
      BY <2>4, <3>2, <3>3
      DEF InTables!AddNew, LoopInv, InTables!LikesHavePost,
          InTables!NoDuplicateLike, NoLikes
    <3> QED BY <1>0, <3>1, <3>4, <3>5, <3>6 DEF LoopInv
  <2>5. ASSUME NEW u \in Users, InTables!AddNewLike(post, u) PROVE LoopInv'
    <3>1. CursorInv' /\ LoopBehind' = LoopBehind /\ TrackInv'
      BY <2>5 DEF InTables!AddNewLike, LoopInv, CursorInv, LoopBehind, TrackInv
    <3>2. /\ post.isDeleted = 0 /\ postRow[post.id] = post.lastUpdate
          /\ post.comments \subseteq commentRows /\ left \subseteq post.likes
          /\ \A w \in Users :
               likeRows[post.id][w] = IF w \in post.likes \ left THEN 1 ELSE 0
      BY <2>0, <2>5 DEF InTables!AddNewLike, Halfway
    <3>3. /\ likeRows'[post.id][u] = likeRows[post.id][u] + 1
          /\ \A w \in Users :
               w # u => likeRows'[post.id][w] = likeRows[post.id][w]
          /\ \A q \in PostIds : q # post.id => likeRows'[q] = likeRows[q]
      BY <1>0, <2>0, <2>5 DEF InTables!AddNewLike, InTables!TypeOK
    <3>4. likeRows[post.id][u] = 0 /\ likeRows'[post.id][u] = 1
      BY <2>5, <3>2, <3>3 DEF InTables!AddNewLike
    <3>5. \A x \in cur' : Halfway(x)'
      BY <2>0, <2>5, <3>2, <3>3, <3>4 DEF InTables!AddNewLike, Halfway
    <3>6. \A x \in LoopBehind' : InTables!Applied(x)'
      BY <2>1, <2>5, <3>1, <3>3, AppliedFrame DEF InTables!AddNewLike, LoopInv
    <3>7. InTables!LikesHavePost'
      BY <2>0, <2>5, <3>2, <3>3
      DEF InTables!AddNewLike, LoopInv, InTables!LikesHavePost, InTables!Post,
          InTables!NoRow
    <3>8. InTables!NoDuplicateLike'
      BY <3>3, <3>4 DEF LoopInv, InTables!NoDuplicateLike
    <3> QED BY <1>0, <3>1, <3>5, <3>6, <3>7, <3>8 DEF LoopInv
  <2>6. CASE InTables!TrackNewest(post)
    <3>1. CursorInv' /\ LoopBehind' = LoopBehind \cup {post}
      BY <2>0, <2>6
         DEF InTables!TrackNewest, InTables!tables, LoopInv, CursorInv,
             LoopBehind
    <3>2. InTables!Applied(post)
      BY <2>0, <2>6 DEF InTables!TrackNewest, Halfway, InTables!Applied
    <3>3. \A x \in LoopBehind' : InTables!Applied(x)'
      BY <2>6, <3>1, <3>2
         DEF InTables!TrackNewest, InTables!tables, LoopInv, InTables!Applied
    <3>4. TrackInv'
      BY <1>0, <2>0, <2>6, <3>1
      DEF InTables!TrackNewest, InTables!tables, LoopInv, TrackInv, LoopBehind,
          InTables!TypeOK, InTables!Post
    <3>5. InTables!LikesHavePost' /\ InTables!NoDuplicateLike'
      BY <2>6
         DEF InTables!TrackNewest, InTables!tables, LoopInv,
             InTables!LikesHavePost, InTables!NoDuplicateLike
    <3>6. cur' = {}
      BY <2>6 DEF InTables!TrackNewest
    <3> QED BY <1>0, <3>1, <3>3, <3>4, <3>5, <3>6 DEF LoopInv
  <2> QED BY <1>3, <2>2, <2>3, <2>4, <2>5, <2>6 DEF InTables!Body
<1>4. CASE InTables!SetLastUpdate \/ InTables!Kill
  <2>1. batch' = {} /\ todo' = {} /\ cur' = {} /\ ~isUpdated'
        /\ UNCHANGED <<postRow, likeRows>>
    BY <1>4
       DEF InTables!SetLastUpdate, InTables!Kill, InTables!Idle,
           InTables!tables
  <2>2. LoopBehind' = {} /\ CursorInv' /\ TrackInv'
    BY <2>1 DEF LoopBehind, CursorInv, TrackInv
  <2>3. InTables!LikesHavePost' /\ InTables!NoDuplicateLike'
    BY <2>1 DEF LoopInv, InTables!LikesHavePost, InTables!NoDuplicateLike
  <2> QED BY <1>0, <2>1, <2>2, <2>3 DEF LoopInv
<1> QED BY <1>1, <1>2, <1>3, <1>4 DEF InTables!Next

LEMMA LoopInit == InTables!Init => LoopInv
<1> SUFFICES ASSUME InTables!Init PROVE LoopInv
  OBVIOUS
<1>1. InTables!TypeOK
  <2>1. postRow \in [PostIds -> Nat \cup {InTables!NoRow}]
    BY DEF InTables!Init
  <2>2. likeRows \in [PostIds -> [Users -> Nat]]
    BY DEF InTables!Init
  <2> QED BY <2>1, <2>2 DEF InTables!Init, InTables!TypeOK, InTables!Phases
<1>2. InTables!LikesHavePost /\ InTables!NoDuplicateLike
  BY DEF InTables!Init, InTables!LikesHavePost, InTables!NoDuplicateLike
<1> QED BY <1>1, <1>2 DEF InTables!Init, LoopInv, CursorInv, LoopBehind, TrackInv

LEMMA LoopStutter == LoopInv /\ UNCHANGED storing => LoopInv'
<1> SUFFICES ASSUME LoopInv, UNCHANGED storing PROVE LoopInv'
  OBVIOUS
<1> USE DEF storing
<1>1. CursorInv' /\ TrackInv' /\ LoopBehind' = LoopBehind /\ InTables!TypeOK'
      /\ InTables!LikesHavePost' /\ InTables!NoDuplicateLike'
  BY DEF LoopInv, CursorInv, TrackInv, LoopBehind, InTables!TypeOK,
         InTables!LikesHavePost, InTables!NoDuplicateLike
<1>2. \A x \in cur' : Halfway(x)'
  BY DEF LoopInv, Halfway, InTables!Applied, NoLikes
<1>3. \A x \in LoopBehind' : InTables!Applied(x)'
  BY <1>1 DEF LoopInv, InTables!Applied
<1> QED BY <1>1, <1>2, <1>3 DEF LoopInv

-----------------------------------------------------------------------------
(* A step is one part's, and the others rest.                              *)
ScreensInv == CellsInv /\ PictureInv /\ SessionInv /\ EditorFacts!TypeInv /\ CommentsInv
              /\ LoopInv

LEMMA ScreensInit == Init => ScreensInv
BY CellsInit, PictureInit, SessionInit, EditorInit, CommentsInit, LoopInit
   DEF Init, ScreensInv

LEMMA ScreensStep == ScreensInv /\ [Next]_vars => ScreensInv'
<1> SUFFICES ASSUME ScreensInv, [Next]_vars PROVE ScreensInv'
  OBVIOUS
<1> USE DEF ScreensInv
<1>1. CASE InCells!Next /\ UNCHANGED <<part, picture, session, editor, commenting, storing>>
  BY <1>1, CellsStep, PictureStutter, SessionStutter, EditorStutter,
     CommentsStutter, LoopStutter
<1>2. CASE InPicture!Next /\ UNCHANGED <<part, cells, session, editor, commenting, storing>>
  BY <1>2, CellsStutter, PictureStep, SessionStutter, EditorStutter,
     CommentsStutter, LoopStutter
<1>3. CASE InSession!Next /\ UNCHANGED <<part, cells, picture, editor, commenting, storing>>
  BY <1>3, CellsStutter, PictureStutter, SessionStep, EditorStutter,
     CommentsStutter, LoopStutter
<1>4. CASE InEditor!Next /\ UNCHANGED <<part, cells, picture, session, commenting, storing>>
  BY <1>4, CellsStutter, PictureStutter, SessionStutter, EditorStep,
     CommentsStutter, LoopStutter
<1>5. CASE InComments!Next /\ UNCHANGED <<part, cells, picture, session, editor, storing>>
  BY <1>5, CellsStutter, PictureStutter, SessionStutter, EditorStutter,
     CommentsStep, LoopStutter
<1>6. CASE InTables!Next /\ UNCHANGED <<part, cells, picture, session, editor, commenting>>
  BY <1>6, CellsStutter, PictureStutter, SessionStutter, EditorStutter,
     CommentsStutter, LoopStep
<1>7. CASE UNCHANGED vars
  BY <1>7, CellsStutter, PictureStutter, SessionStutter, EditorStutter,
     CommentsStutter, LoopStutter DEF vars
<1> QED BY <1>1, <1>2, <1>3, <1>4, <1>5, <1>6, <1>7 DEF Next

LEMMA ScreensHold == Spec => []ScreensInv
BY ScreensInit, ScreensStep, PTL DEF Spec

(* What the variables of the six parts hold has the shape the code gives  *)
(* it; in USER_INFO nothing is newer than in the database.                 *)
THEOREM TypeCorrect == Spec => []TypeOK
<1>1. ScreensInv => TypeOK
  BY EditorType DEF ScreensInv, CellsInv, PictureInv, SessionInv, CommentsInv,
     LoopInv, TypeOK
<1> QED BY <1>1, ScreensHold, PTL

(* A reused cell shows its own user's name and picture, unless a closure   *)
(* of it still waited when it was bound again.                             *)
THEOREM CellsShowTheirOwn == Spec => []CellIsOwn
<1>1. ScreensInv => CellIsOwn
  BY DEF ScreensInv, CellsInv
<1> QED BY <1>1, ScreensHold, PTL

(* The picture the user's record names is in Storage, unless the write     *)
(* that replaces it is on its way or died with the process.                *)
THEOREM RecordedPictureExists == Spec => []PictureExists
<1>1. ScreensInv => PictureExists
  <2> SUFFICES ASSUME ScreensInv, record > 0, puts = <<>>, ~lost
               PROVE  record \in images
    BY DEF PictureExists, InPicture!PictureExists
  <2>1. InPicture!Seen = record
    BY DEF InPicture!Seen
  <2> QED BY <2>1 DEF ScreensInv, PictureInv, Kept
<1> QED BY <1>1, ScreensHold, PTL

(* The profile screen is locked only while an upload or the callback that  *)
(* starts it is to come, unless one of them failed to.                     *)
THEOREM ProfileLockedForAReason == Spec => []LockedForAReason
<1>1. ScreensInv => LockedForAReason
  BY DEF ScreensInv, PictureInv
<1> QED BY <1>1, ScreensHold, PTL

(* A feed or profile on top is that of the user signed in, and the profile *)
(* lists that user's posts or those of a user whose answer was due.        *)
THEOREM TopScreenIsOwn == Spec => []ScreensAreOwn
<1>1. ScreensInv => ScreensAreOwn
  BY DEF ScreensInv, SessionInv
<1> QED BY <1>1, ScreensHold, PTL

(* An account whose record has no picture never gets one.                  *)
THEOREM NoFirstPicture == Spec => FirstPictureNeverLands
<1>1. ScreensInv /\ [Next]_vars => [record = 0 => record' = 0]_InPicture!vars
  <2> SUFFICES ASSUME ScreensInv, [Next]_vars, record = 0
               PROVE  record' = 0 \/ UNCHANGED InPicture!vars
    OBVIOUS
  <2>1. puts = <<>>
    BY DEF ScreensInv, PictureInv, NoneYet
  <2>2. CASE UNCHANGED picture
    BY <2>2 DEF picture, InPicture!vars
  <2>3. CASE InPicture!Next
    BY <2>1, <2>3 DEF InPicture!Next, InPicture!OpenProfile, InPicture!Close,
       InPicture!Pick, InPicture!Answer, InPicture!Uploaded, InPicture!Replace,
       InPicture!Dies, InPicture!NotUploaded, InPicture!Deleted, InPicture!Land,
       InPicture!Stop
  <2> QED BY <2>2, <2>3 DEF Next, vars
<1> QED BY <1>1, ScreensHold, PTL
        DEF Spec, FirstPictureNeverLands, InPicture!FirstPictureNeverLands

(* While a screen stays open, no event brings an older list of a post      *)
(* after a newer one, however visits and subscriptions follow each other.  *)
THEOREM ScreenNeverGoesBack == Spec => NeverBackwards
<1> DEFINE Forward == /\ commentsScreen # nobody /\ commentsScreen' = commentsScreen
                      /\ shown'.post = shown.post
                      => shown'.n >= shown.n
<1>1. ASSUME ScreensInv, [Next]_vars PROVE [Forward]_InComments!vars
  <2>0. CommentsInv
    BY <1>1 DEF ScreensInv
  <2>1. shown.n \in Nat
    BY <2>0 DEF CommentsInv, InComments!TypeOK, InComments!Comments
  <2>2. CASE shown' = shown
    BY <2>1, <2>2
  <2>3. ASSUME NEW d \in PostIds, InComments!Open(d) PROVE Forward
    BY <2>3 DEF InComments!Open
  <2>4. CASE InComments!Deliver
    <3>1. CASE ~observing
      BY <2>1, <2>4, <3>1 DEF InComments!Deliver
    <3>2. CASE observing
      <4>1. shown' = queue[1] /\ Len(queue) >= 1
        BY <2>0, <2>4, <3>2, CommentTaken DEF InComments!Deliver, CommentsInv,
             InComments!TypeOK
      <4>2. Len(queue) \in Nat /\ queue[1].n \in Nat
        <5>1. queue \in Seq(InComments!Comments) /\ Len(queue) \in Nat
          BY <2>0 DEF CommentsInv, InComments!TypeOK
        <5>2. queue[1] \in InComments!Comments
          BY <4>1, <5>1
        <5> QED BY <5>1, <5>2 DEF InComments!Comments
      <4> QED BY <2>0, <2>1, <4>1, <4>2 DEF CommentsInv, ScreenBehind
    <3> QED BY <3>1, <3>2
  <2>5. CASE InComments!FinishBack
    BY <2>5 DEF InComments!FinishBack
  <2>6. CASE UNCHANGED commenting
    BY <2>6 DEF commenting, InComments!vars
  <2>7. CASE InComments!Next
    BY <2>2, <2>3, <2>4, <2>5, <2>7
    DEF InComments!Next, InComments!AddComment, InComments!Raise,
        InComments!BeginBack, InComments!CancelBack
  <2> QED BY <1>1, <2>6, <2>7 DEF Next, vars
<1> QED BY <1>1, ScreensHold, PTL DEF Spec, NeverBackwards, InComments!NeverBackwards

(* After every statement, with kills anywhere, each LIKES row belongs to a *)
(* POSTS row, although the two tables are written by separate statements.  *)
THEOREM LikesAreNeverOrphaned == Spec => []LikesHavePost
<1>1. ScreensInv => LikesHavePost
  BY DEF ScreensInv, LoopInv, LikesHavePost
<1> QED BY <1>1, ScreensHold, PTL

(* No user is counted twice on a post, although LIKES has no key and a     *)
(* post is delivered again after a kill.                                   *)
THEOREM LikesAreNeverDoubled == Spec => []NoDuplicateLike
<1>1. ScreensInv => NoDuplicateLike
  BY DEF ScreensInv, LoopInv, NoDuplicateLike
<1> QED BY <1>1, ScreensHold, PTL

(* The step that moves the watermark finds the whole batch applied and     *)
(* moves it to that batch's newest stamp.                                  *)
THEOREM WatermarkIsEarned == Spec => WatermarkAfterRows
<1> DEFINE Earned == feedLud' # feedLud =>
                       /\ \A post \in batch : InTables!Applied(post)
                       /\ \E post \in batch : feedLud' = post.lastUpdate
                       /\ \A post \in batch : post.lastUpdate <= feedLud'
<1>1. ASSUME ScreensInv, [Next]_vars, feedLud' # feedLud PROVE Earned
  <2>1. InTables!SetLastUpdate
    <3>1. InTables!Next
      BY <1>1 DEF Next, vars, storing
    <3> QED BY <1>1, <3>1
         DEF InTables!Next, InTables!tables, InTables!Enter,
             InTables!RemoveAllLikes, InTables!Body, InTables!Delete,
             InTables!AddComment, InTables!AddNew, InTables!AddNewLike,
             InTables!TrackNewest, InTables!Kill
  <2>2. isUpdated /\ feedLud' = newest /\ LoopBehind = batch
    BY <1>1, <2>1 DEF InTables!SetLastUpdate, ScreensInv, LoopInv, CursorInv, LoopBehind
  <2> QED BY <1>1, <2>2 DEF ScreensInv, LoopInv, TrackInv
<1>2. ScreensInv /\ [Next]_vars => [Earned]_InTables!vars
  BY <1>1
<1> QED BY <1>2, ScreensHold, PTL DEF Spec, WatermarkAfterRows, InTables!WatermarkAfterRows

(* A POSTS row disappears only in the statement a tombstone asks for.      *)
THEOREM FeedForgetsNothing == Spec => RowsLeaveOnlyByTombstone
<1>1. ASSUME ScreensInv, [Next]_vars, NEW d \in PostIds,
             postRow[d] # InTables!NoRow, postRow'[d] = InTables!NoRow
      PROVE  \E post \in cur : post.id = d /\ post.isDeleted = 1
  <2>0. InTables!Next
    BY <1>1 DEF Next, vars, storing
  <2>1. PICK post \in cur : InTables!Delete(post) \/ InTables!AddNew(post)
    BY <1>1, <2>0
       DEF InTables!Next, InTables!tables, InTables!Enter,
           InTables!RemoveAllLikes, InTables!Body, InTables!AddComment,
           InTables!AddNewLike, InTables!TrackNewest, InTables!SetLastUpdate,
           InTables!Kill
  <2>2. /\ post \in InTables!Post /\ Halfway(post)
        /\ postRow \in [PostIds -> Nat \cup {InTables!NoRow}]
    BY <1>1 DEF ScreensInv, LoopInv, InTables!TypeOK
  <2>3. CASE InTables!Delete(post)
    BY <1>1, <2>2, <2>3 DEF InTables!Delete, Halfway
  <2>4. CASE InTables!AddNew(post)
    BY <1>1, <2>2, <2>4 DEF InTables!AddNew, InTables!Post, InTables!NoRow
  <2> QED BY <2>1, <2>3, <2>4
<1>2. ScreensInv /\ [Next]_vars =>
        [\A d \in PostIds :
           postRow[d] # InTables!NoRow /\ postRow'[d] = InTables!NoRow
             => \E post \in cur : post.id = d /\ post.isDeleted = 1]_InTables!vars
  BY <1>1
<1> QED BY <1>2, ScreensHold, PTL
        DEF Spec, RowsLeaveOnlyByTombstone, InTables!RowsLeaveOnlyByTombstone
==============================================================================
