----------------------------- MODULE UserCells ------------------------------
(***************************************************************************)
(* The names and pictures of users in reused table cells.                  *)
(*                                                                         *)
(* A cell that is bound to a user blanks its name and asks                 *)
(* Model.getUserInfo, which sends a one-shot query and calls back at once  *)
(* from USER_INFO if the user has a row there.  The answer always replaces *)
(* the row, but calls back only if its stamp is beyond the one watermark   *)
(* of USER_INFO, which is the newest stamp of any user.  The callback      *)
(* holds the cell, not the user the cell shows by then; only a picture is  *)
(* checked against the row the cell is in.                                 *)
(*                                                                         *)
(* PostTableViewCell and CommentViewCell do the same; a cell here is       *)
(* either.  A user's record is abstracted to its picture, counted from 0   *)
(* (none), and its stamp, 0 where there is no record.                      *)
(***************************************************************************)
EXTENDS Integers, Sequences

CONSTANTS
  Users, Cells,
  TableRows,    \* the rows of the table, the cells' tags
  Deltas,       \* by how much the server clock advances from stamp to stamp
  MaxPictures, MaxBinds, MaxAsks, MaxStops     \* bounds of the model

UserCellsAssumption ==
  /\ Deltas \subseteq Nat
  /\ MaxPictures \in Nat /\ MaxBinds \in Nat /\ MaxAsks \in Nat
  /\ MaxStops \in Nat

Record == [pic : Nat, ts : Nat]
NoRecord == [pic |-> 0, ts |-> 0]
NoOne == "no one"

VARIABLES
  server,     \* the records in the Firebase database
  clock,      \* the server's clock at the last stamp
  info,       \* USER_INFO on the device
  lud,        \* LAST_UPDATE.DATE of "USER_INFO"
  files,      \* the picture files saved on the device, by owner and number
  cell,       \* what each cell was bound to and what it shows
  asks,       \* the closures that wait for each user's record
  wire,       \* answers on the main queue
  downloads,  \* picture downloads under way
  late,       \* history: cell and row of closures that waited when their
              \* cell was last rebound
  binds, stops                         \* history: use of the bounds

store == <<info, lud, files>>
vars  == <<server, clock, store, cell, asks, wire, downloads, late,
           binds, stops>>

Picture == Users \X (Nat \ {0})
Closure == [cell : Cells, row : TableRows]
Answer  == [user : Users, for : Closure, record : Record]
Download == [for : Closure, picture : Picture]
Shown   == [user : Users \cup {NoOne}, row : TableRows \cup {0},
            name : Users \cup {NoOne}, picture : Picture \cup {<<>>}]
Blank   == [user |-> NoOne, row |-> 0, name |-> NoOne, picture |-> <<>>]

TypeOK ==
  /\ server \in [Users -> Record] /\ clock \in Nat
  /\ info \in [Users -> Record] /\ lud \in Nat /\ files \subseteq Picture
  /\ cell \in [Cells -> Shown]
  /\ asks \in [Users -> Seq(Closure)] /\ wire \in Seq(Answer)
  /\ downloads \subseteq Download /\ late \subseteq Cells \X TableRows
  /\ binds \in Nat /\ stops \in Nat
  /\ \A u \in Users : info[u].ts <= server[u].ts /\ info[u].pic <= server[u].pic
  /\ lud <= clock

Init ==
  /\ server = [u \in Users |-> NoRecord] /\ clock = 0
  /\ info = [u \in Users |-> NoRecord] /\ lud = 0 /\ files = {}
  /\ cell = [c \in Cells |-> Blank]
  /\ asks = [u \in Users |-> <<>>] /\ wire = <<>> /\ downloads = {}
  /\ late = {} /\ binds = 0 /\ stops = 0

-----------------------------------------------------------------------------
(* The database.                                                           *)

(* signUp writes the whole record, without a picture, with its stamp.      *)
SignUp(u) ==
  /\ server[u] = NoRecord
  /\ \E d \in Deltas : clock' = clock + d
  /\ clock' > 0
  /\ server' = [server EXCEPT ![u] = [pic |-> 0, ts |-> clock']]
  /\ UNCHANGED <<store, cell, asks, wire, downloads, late, binds, stops>>

(* updateUserInfo writes the picture and no stamp.                         *)
ChangePicture(u) ==
  /\ server[u].ts > 0 /\ server[u].pic < MaxPictures
  /\ server' = [server EXCEPT ![u].pic = @ + 1]
  /\ UNCHANGED <<clock, store, cell, asks, wire, downloads, late, binds,
                 stops>>

(* One listen serves every closure that waits for the same record.         *)
ServerAnswers(u) ==
  /\ asks[u] # <<>>
  /\ wire' = wire \o [i \in DOMAIN asks[u] |->
                        [user |-> u, for |-> asks[u][i], record |-> server[u]]]
  /\ asks' = [asks EXCEPT ![u] = <<>>]
  /\ UNCHANGED <<server, clock, store, cell, downloads, late, binds, stops>>

-----------------------------------------------------------------------------
(* The closure a cell gives to getUserInfo, run on state `now`.            *)

(* The name is set whatever the cell shows by now.  The picture comes from *)
(* its file at once, or later from Storage.                                *)
NamedAndPictured(now, u, to, picture) ==
  LET named == [now EXCEPT !.name = u] IN
  IF picture \in files /\ named.row = to.row
  THEN [named EXCEPT !.picture = picture] ELSE named

Show(now, u, to, record) ==
  LET picture == <<u, record.pic>> IN
  /\ cell' = [cell EXCEPT ![to.cell] =
                IF record.pic = 0 THEN [now EXCEPT !.name = u]
                ELSE NamedAndPictured(now, u, to, picture)]
  /\ downloads' = IF record.pic = 0 \/ picture \in files THEN downloads
                  ELSE downloads \cup {[for |-> to, picture |-> picture]}

(* The closures that have not run, as cell and row.                        *)
Waiting ==
  LET closures == {wire[i].for : i \in DOMAIN wire} \cup {d.for : d \in downloads}
                    \cup UNION {{asks[u][i] : i \in DOMAIN asks[u]} : u \in Users}
  IN {<<f.cell, f.row>> : f \in closures}

Reuse(c, u, r) == [user |-> u, row |-> r, name |-> NoOne, picture |-> <<>>]

(* setPostData, setCommentData.                                            *)
Bind(c, u, r) ==
  /\ binds < MaxBinds /\ Len(asks[u]) < MaxAsks
  /\ binds' = binds + 1
  /\ LET to == [cell |-> c, row |-> r] IN
       /\ asks' = [asks EXCEPT ![u] = Append(@, to)]
       /\ IF info[u].ts > 0
          THEN Show(Reuse(c, u, r), u, to, info[u])
          ELSE /\ cell' = [cell EXCEPT ![c] = Reuse(c, u, r)]
               /\ UNCHANGED downloads
  /\ late' = {l \in late : l[1] # c} \cup {w \in Waiting : w[1] = c}
  /\ UNCHANGED <<server, clock, store, wire, stops>>

(* LastUpdateDates.get: the watermark, or 0 (see LocalStore).              *)
GetLastUpdate == {lud, 0}

(* Slip: the row is stored only with a stamp that is news.                 *)
KeepNews(u, record, seen) ==
  info' = IF record.ts > seen + 1 THEN [info EXCEPT ![u] = record] ELSE info

(* Slip: the row takes the watermark that was just raised for its stamp.    *)
KeepRaised(u, record, seen) ==
  info' = [info EXCEPT ![u] = [pic |-> record.pic, ts |-> seen + 1]]

Keep(u, record, seen) == info' = [info EXCEPT ![u] = record]

(* getUserInfo's closure: a missing record is dropped, a record is stored, *)
(* and news is shown.                                                      *)
Event ==
  /\ wire # <<>>
  /\ wire' = Tail(wire)
  /\ LET u == Head(wire).user
         record == Head(wire).record
         to == Head(wire).for
     IN \E seen \in GetLastUpdate :
          IF record.ts = 0
          THEN UNCHANGED <<info, lud, cell, downloads>>
          ELSE /\ Keep(u, record, seen)
               /\ IF record.ts > seen + 1
                  THEN lud' = record.ts /\ Show(cell[to.cell], u, to, record)
                  ELSE UNCHANGED <<lud, cell, downloads>>
  /\ UNCHANGED <<server, clock, files, asks, late, binds, stops>>

(* Slip: the picture is set without a look at the row.                     *)
InPlaceUnguarded(d, now) == [now EXCEPT !.picture = d.picture]

InPlace(d, now) ==
  IF now.row = d.for.row THEN [now EXCEPT !.picture = d.picture] ELSE now

(* Model.getImage's download: saved, then shown if the row is the same.    *)
Downloaded(d) ==
  /\ d \in downloads
  /\ downloads' = downloads \ {d}
  /\ files' \in {files \cup {d.picture}, files}    \* the save may fail
  /\ cell' = [cell EXCEPT ![d.for.cell] = InPlace(d, @)]
  /\ UNCHANGED <<server, clock, info, lud, asks, wire, late, binds, stops>>

NotDownloaded(d) ==
  /\ d \in downloads
  /\ downloads' = downloads \ {d}
  /\ UNCHANGED <<server, clock, store, cell, asks, wire, late, binds, stops>>

(* The process dies; the tables and files stay.                            *)
Stop ==
  /\ stops < MaxStops
  /\ stops' = stops + 1
  /\ cell' = [c \in Cells |-> Blank]
  /\ asks' = [u \in Users |-> <<>>] /\ wire' = <<>> /\ downloads' = {}
  /\ late' = {}
  /\ UNCHANGED <<server, clock, store, binds>>

Next ==
  \/ \E u \in Users : SignUp(u) \/ ChangePicture(u) \/ ServerAnswers(u)
  \/ \E c \in Cells, u \in Users, r \in TableRows : Bind(c, u, r)
  \/ Event
  \/ \E d \in downloads : Downloaded(d) \/ NotDownloaded(d)
  \/ Stop

Spec == Init /\ [][Next]_vars

-----------------------------------------------------------------------------
(* A cell shows the name of the user it was bound to, or none; another     *)
(* user's name only if an earlier closure of the cell still waited when it *)
(* was rebound: the closures capture the cell alone.                       *)
NameIsOwn ==
  \A c \in Cells :
    \/ cell[c].name \in {NoOne, cell[c].user}
    \/ \E r \in TableRows : <<c, r>> \in late

(* The same of the picture, and only if the closure that waited was for    *)
(* the very row the cell is in: the tag is the row, not the post.          *)
PictureIsOwn ==
  \A c \in Cells :
    \/ cell[c].picture = <<>> \/ cell[c].picture[1] = cell[c].user
    \/ <<c, cell[c].row>> \in late

(* A reused cell shows its own user, in both: only closures that waited    *)
(* when it was bound again can put another user's name or picture in it.   *)
CellIsOwn == NameIsOwn /\ PictureIsOwn

-----------------------------------------------------------------------------
(* Liveness.  The server answers what it is asked and the main queue runs. *)
Fairness ==
  WF_vars(Event) /\ \A u \in Users : WF_vars(ServerAnswers(u))

FairSpec == Spec /\ Fairness

(* Whatever was asked for ends up in USER_INFO, however old its stamp is   *)
(* beside the watermark of all users, so that a cell bound again shows it. *)
AnswersAreKept ==
  \A u \in Users, k \in 0 .. MaxPictures :
    (server[u].ts > 0 /\ server[u].pic >= k /\ asks[u] # <<>>)
      ~> (stops > 0 \/ (info[u].ts > 0 /\ info[u].pic >= k))
=============================================================================
