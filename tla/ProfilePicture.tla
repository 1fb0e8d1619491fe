--------------------------- MODULE ProfilePicture ---------------------------
(***************************************************************************)
(* Changing the picture of the signed-in user on the profile screen.       *)
(*                                                                         *)
(* Picking a picture locks the screen and asks Model.getUserInfo for the   *)
(* record to update.  That calls back once from the row in USER_INFO, if   *)
(* there is one, and once more with the answer, if its stamp counts as     *)
(* news; every callback uploads the picture under a name of its own.  A    *)
(* finished upload deletes the picture the record had, writes the new one  *)
(* and unlocks the screen, in that order.                                  *)
(*                                                                         *)
(* Pictures are numbered as they are uploaded.  0 is the empty URL a new   *)
(* account starts with, NoRecord an account whose first write was lost     *)
(* when the process died after the account was created.  Writes that are   *)
(* sent again are in PostEditor.                                           *)
(***************************************************************************)
EXTENDS Integers, Sequences

CONSTANTS MaxPicks, MaxAsks, MaxStops     \* bounds of the model

ProfilePictureAssumption ==
  MaxPicks \in Nat /\ MaxAsks \in Nat /\ MaxStops \in Nat

NoRecord == -1

VARIABLES
  record,     \* the picture in the user's record in the database
  images,     \* the pictures in Storage
  row,        \* the picture in the user's row of USER_INFO
  open,       \* the profile screen is shown
  locked,     \* its interaction is disabled
  asks,       \* closures that wait for the record: to show it, or to upload
              \* again, or for the first time if there was no row
  uploads,    \* uploads under way: the new picture and the one before it
  deletions,  \* requests to delete a picture
  puts,       \* writes of the picture on their way, oldest first
  next,       \* the number of the next picture
  stuck,      \* history: the screen met an upload that failed or no record
  lost,       \* history: a write of the picture died with the process
  picks, stops                          \* history: use of the bounds

vars == <<record, images, row, open, locked, asks, uploads, deletions, puts,
          next, stuck, lost, picks, stops>>

Picture == Nat \ {0}

TypeOK ==
  /\ record \in Nat \cup {NoRecord} /\ row \in Nat \cup {NoRecord}
  /\ images \subseteq 1 .. next - 1 /\ deletions \subseteq 1 .. next - 1
  /\ open \in BOOLEAN /\ locked \in BOOLEAN
  /\ asks \in Seq({"show", "first", "again"})
  /\ uploads \subseteq [new : 1 .. next - 1, pre : 0 .. next - 1]
  /\ puts \in Seq(1 .. next - 1) /\ next \in Picture
  /\ stuck \in BOOLEAN /\ lost \in BOOLEAN
  /\ picks \in Nat /\ stops \in Nat

(* Accounts of this version start without a picture; an account may also   *)
(* have been given one by addUserInfo.                                     *)
Init ==
  /\ record \in {NoRecord, 0, 1}
  /\ images = {record} \cap {1} /\ next = 2
  /\ row = NoRecord
  /\ open = FALSE /\ locked = FALSE
  /\ asks = <<>> /\ uploads = {} /\ deletions = {} /\ puts = <<>>
  /\ stuck = FALSE /\ lost = FALSE /\ picks = 0 /\ stops = 0

-----------------------------------------------------------------------------
(* The picture a one-shot query returns: own writes lie over the record.   *)
Seen == IF puts = <<>> THEN record ELSE puts[Len(puts)]

Upload(pre) ==
  /\ uploads' = uploads \cup {[new |-> next, pre |-> pre]}
  /\ next' = next + 1

(* viewDidLoad asks for the record to show it.                             *)
OpenProfile ==
  /\ ~open /\ Len(asks) < MaxAsks
  /\ open' = TRUE
  /\ asks' = Append(asks, "show")
  /\ UNCHANGED <<record, images, row, locked, uploads, deletions, puts, next,
                 stuck, lost, picks, stops>>

Close ==
  /\ open /\ ~locked /\ open' = FALSE
  /\ UNCHANGED <<record, images, row, locked, asks, uploads, deletions, puts,
                 next, stuck, lost, picks, stops>>

(* imagePickerController, with getUserInfo's callback from the local row.  *)
Pick ==
  /\ open /\ ~locked /\ picks < MaxPicks
  /\ picks' = picks + 1
  /\ locked' = TRUE
  /\ IF row # NoRecord
     THEN asks' = Append(asks, "again") /\ Upload(row)
     ELSE asks' = Append(asks, "first") /\ UNCHANGED <<uploads, next>>
  /\ UNCHANGED <<record, images, row, open, deletions, puts, stuck, lost, stops>>

(* getUserInfo's answer.  A missing record calls nobody back.  Whether the *)
(* record's stamp counts as news is open: the watermark may read as 0.     *)
Missed == stuck' = (stuck \/ Head(asks) = "first") /\ UNCHANGED <<uploads, next>>

Answer ==
  /\ asks # <<>>
  /\ asks' = Tail(asks)
  /\ \/ Missed
     \/ Head(asks) # "show" /\ Seen # NoRecord /\ Upload(Seen) /\ UNCHANGED stuck
  /\ row' = IF Seen = NoRecord THEN row ELSE Seen
  /\ UNCHANGED <<record, images, open, locked, deletions, puts, lost, picks,
                 stops>>

-----------------------------------------------------------------------------
(* saveImage and updateUserInfo's closure.                                 *)

(* The process dies: nothing of it is left but the row.                    *)
Dies ==
  /\ open' = FALSE /\ locked' = FALSE /\ asks' = <<>> /\ uploads' = {}
  /\ deletions' = {} /\ puts' = <<>> /\ stuck' = FALSE
  /\ lost' = (lost \/ puts # <<>>)
  /\ UNCHANGED <<record, row, next, picks, stops>>

(* Slips: the picture just uploaded is deleted; no picture before it is    *)
(* taken for nothing to delete; the completion is forgotten.               *)
ReplaceSilently(u) ==
  IF u.pre = 0 THEN Dies
  ELSE /\ deletions' = deletions \cup {u.pre}
       /\ puts' = Append(puts, u.new)
       /\ uploads' = uploads \ {u}
       /\ UNCHANGED <<record, row, open, locked, asks, next, stuck, lost, picks,
                      stops>>

ReplaceNew(u) ==
  IF u.pre = 0 THEN Dies
  ELSE /\ deletions' = deletions \cup {u.new}
       /\ puts' = Append(puts, u.new) /\ locked' = FALSE
       /\ uploads' = uploads \ {u}
       /\ UNCHANGED <<record, row, open, asks, next, stuck, lost, picks, stops>>

ReplaceAny(u) ==
  /\ deletions' = deletions \cup ({u.pre} \ {0})
  /\ puts' = Append(puts, u.new) /\ locked' = FALSE
  /\ uploads' = uploads \ {u}
  /\ UNCHANGED <<record, row, open, asks, next, stuck, lost, picks, stops>>

(* deleteImage asks Storage for a reference to the old picture's URL: the  *)
(* empty one raises an exception nothing catches, before the write.        *)
Replace(u) ==
  IF u.pre = 0 THEN Dies
  ELSE /\ deletions' = deletions \cup {u.pre}
       /\ puts' = Append(puts, u.new) /\ locked' = FALSE
       /\ uploads' = uploads \ {u}
       /\ UNCHANGED <<record, row, open, asks, next, stuck, lost, picks, stops>>

Uploaded ==
  \E u \in uploads : images' = images \cup {u.new} /\ Replace(u)

(* saveImage returns without a word.                                       *)
NotUploaded ==
  /\ \E u \in uploads : uploads' = uploads \ {u}
  /\ stuck' = TRUE
  /\ UNCHANGED <<record, images, row, open, locked, asks, deletions, puts,
                 next, lost, picks, stops>>

Deleted ==
  /\ \E p \in deletions : deletions' = deletions \ {p} /\ images' = images \ {p}
  /\ UNCHANGED <<record, row, open, locked, asks, uploads, puts, next, stuck,
                 lost, picks, stops>>

Land ==
  /\ puts # <<>>
  /\ record' = Head(puts) /\ puts' = Tail(puts)
  /\ UNCHANGED <<images, row, open, locked, asks, uploads, deletions, next,
                 stuck, lost, picks, stops>>

(* Requests to Storage that were sent may still be carried out.            *)
Stop ==
  /\ stops < MaxStops /\ stops' = stops + 1
  /\ open' = FALSE /\ locked' = FALSE /\ asks' = <<>> /\ uploads' = {}
  /\ puts' = <<>> /\ deletions' = {} /\ stuck' = FALSE
  /\ lost' = (lost \/ puts # <<>>)
  /\ \E p \in SUBSET deletions : images' = images \ p
  /\ UNCHANGED <<record, row, next, picks>>

Next ==
  \/ OpenProfile \/ Close \/ Pick \/ Answer
  \/ Uploaded \/ NotUploaded \/ Deleted \/ Land
  \/ Stop

Spec == Init /\ [][Next]_vars

-----------------------------------------------------------------------------
(* The record never names a picture that is gone, unless the write that    *)
(* replaces it is on its way or was lost: one pick may upload twice, and a *)
(* stale row may delete the same picture again.                            *)
PictureExists == record > 0 => record \in images \/ puts # <<>> \/ lost

(* An account without a picture never gets one: its first upload ends the  *)
(* process in deleteImage, before the record is written.                   *)
FirstPictureNeverLands == [][record = 0 => record' = 0]_vars

(* The screen is locked only while a callback or an upload is to come,     *)
(* unless an upload failed or the only callback was withheld: there is no  *)
(* record, or there was no row when the picture was picked and the answer  *)
(* was no news.                                                            *)
LockedForAReason ==
  locked => \/ stuck \/ uploads # {}
            \/ \E i \in DOMAIN asks : asks[i] = "first"
=============================================================================
