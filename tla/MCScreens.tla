----------------------------- MODULE MCScreens ------------------------------
(* Six parts of the client that share nothing, explored in one run: a      *)
(* behaviour is one of the table cells (UserCells), of the user's own      *)
(* picture (ProfilePicture), of the way between the screens (Session), of  *)
(* the editor when nothing stops or is dropped (PostEditor), of the        *)
(* comments (CommentsScreen) or of the tables of the posts they all show   *)
(* (LocalStore), with the variables of the others at rest.                 *)
EXTENDS Integers, Sequences

CONSTANTS
  ann, bob, nobody, c1,
  Users, Cells, TableRows, Deltas, MaxPictures, MaxBinds, MaxAsks, MaxStops,
  MaxPicks, MaxUploadAsks,
  MaxDepth,
  p, Posts, MaxImages, MaxEdits,
  other, PostIds, MaxComments, MaxOpens,
  CommentIds, Batches

VARIABLES
  part,
  server, clock, info, lud, files, cell, asks, wire, downloads, late, binds,
  stops,
  record, images, row, open, locked, uploadAsks, uploads, deletions, puts,
  next, stuck, lost, picks, pictureStops,
  user, stack, busy, modelUser, profileAsks, feeds, lateUsers, sessionStops,
  db, storage, screen, list, editorPuts, sent, editorUploads, editorDeletions,
  failed, editorLost, repeated, editorImages, edits, editorStops, drops,
  comments, subs, held, queue, commentsScreen, observing, leaving, shown, opens,
  postRow, likeRows, commentRows, feedLud, phase, batch, todo, cur, left, newest,
  isUpdated

cells == <<server, clock, info, lud, files, cell, asks, wire, downloads, late,
           binds, stops>>
picture == <<record, images, row, open, locked, uploadAsks, uploads, deletions,
             puts, next, stuck, lost, picks, pictureStops>>
session == <<user, stack, busy, modelUser, profileAsks, feeds, lateUsers,
             sessionStops>>
editor == <<db, storage, screen, list, editorPuts, sent, editorUploads,
            editorDeletions, failed, editorLost, repeated, editorImages, edits,
            editorStops, drops>>
commenting == <<comments, subs, held, queue, commentsScreen, observing, leaving,
                shown, opens>>
storing == <<postRow, likeRows, commentRows, feedLud, phase, batch, todo, cur, left,
             newest, isUpdated>>
vars == <<part, cells, picture, session, editor, commenting, storing>>

(* Batches of the run: versions of two posts as the server may hold them   *)
(* one after another, with a comment each.                                 *)
Version(i, t, d, l, c) ==
  [id |-> i, lastUpdate |-> t, isDeleted |-> d, likes |-> l, comments |-> c]

VersionsOfP == {Version(p, 1, 0, {}, {}), Version(p, 2, 0, {ann}, {c1}),
                Version(p, 4, 0, {ann, bob}, {c1}),
                Version(p, 5, 1, {ann, bob}, {c1})}
VersionsOfOther == {Version(other, 3, 0, {bob}, {}),
                    Version(other, 4, 1, {bob}, {})}

MCBatches ==
  {{}} \cup {{x} : x \in VersionsOfP \cup VersionsOfOther}
       \cup {{x, y} : x \in VersionsOfP, y \in VersionsOfOther}

InCells == INSTANCE UserCells
InPicture == INSTANCE ProfilePicture
             WITH asks <- uploadAsks, stops <- pictureStops,
                  MaxAsks <- MaxUploadAsks
InSession == INSTANCE Session
             WITH Accounts <- Users, NoOne <- nobody,
                  asks <- profileAsks, late <- lateUsers,
                  stops <- sessionStops
InEditor == INSTANCE PostEditor
            WITH Devices <- Users, NoPost <- nobody,
                 MaxStops <- 0, MaxDrops <- 0,
                 puts <- editorPuts, uploads <- editorUploads,
                 deletions <- editorDeletions, lost <- editorLost,
                 images <- editorImages, stops <- editorStops
InComments == INSTANCE CommentsScreen
              WITH NoPost <- nobody, screen <- commentsScreen
InTables == INSTANCE LocalStore WITH lud <- feedLud

ASSUME ScreensAssumption ==
  /\ InCells!UserCellsAssumption
  /\ InPicture!ProfilePictureAssumption
  /\ InSession!SessionAssumption
  /\ InEditor!PostEditorAssumption
  /\ InComments!CommentsScreenAssumption
  /\ InTables!LocalStoreAssumption

TypeOK ==
  /\ InCells!TypeOK /\ InPicture!TypeOK /\ InSession!TypeOK /\ InEditor!TypeOK
  /\ InComments!TypeOK /\ InTables!TypeOK

CellIsOwn == InCells!CellIsOwn
AnswersAreKept == InCells!AnswersAreKept
Settles == InEditor!Settles
PictureExists == InPicture!PictureExists
FirstPictureNeverLands == InPicture!FirstPictureNeverLands
LockedForAReason == InPicture!LockedForAReason
ScreensAreOwn == InSession!ScreensAreOwn
NeverBackwards == InComments!NeverBackwards
OwnCommentsArrive == InComments!OwnCommentsArrive
LikesHavePost == InTables!LikesHavePost
NoDuplicateLike == InTables!NoDuplicateLike
WatermarkAfterRows == InTables!WatermarkAfterRows
RowsLeaveOnlyByTombstone == InTables!RowsLeaveOnlyByTombstone

Init ==
  /\ part \in {"cells", "picture", "session", "editor", "comments", "tables"}
  /\ InCells!Init /\ InPicture!Init /\ InSession!Init /\ InEditor!Init
  /\ InComments!Init /\ InTables!Init
  /\ part # "picture" => record = 0
  /\ part # "session" => user = nobody
  /\ part # "comments" => \A d \in PostIds : comments[d] = 0

Next ==
  \/ /\ part = "cells" /\ InCells!Next
     /\ UNCHANGED <<part, picture, session, editor, commenting, storing>>
  \/ /\ part = "picture" /\ InPicture!Next
     /\ UNCHANGED <<part, cells, session, editor, commenting, storing>>
  \/ /\ part = "session" /\ InSession!Next
     /\ UNCHANGED <<part, cells, picture, editor, commenting, storing>>
  \/ /\ part = "editor" /\ InEditor!Next
     /\ UNCHANGED <<part, cells, picture, session, commenting, storing>>
  \/ /\ part = "comments" /\ InComments!Next
     /\ UNCHANGED <<part, cells, picture, session, editor, storing>>
  \/ /\ part = "tables" /\ InTables!Next
     /\ UNCHANGED <<part, cells, picture, session, editor, commenting>>

Fairness == InCells!Fairness /\ InEditor!Fairness /\ InComments!Fairness

Spec == Init /\ [][Next]_vars /\ Fairness
=============================================================================
