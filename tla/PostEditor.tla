----------------------------- MODULE PostEditor -----------------------------
(***************************************************************************)
(* The editor of a post (AddPostController) on the devices of one user,    *)
(* and the requests FirebaseModel makes for it: an upload to Storage, a    *)
(* deletion in Storage, and writes to the database.                        *)
(*                                                                         *)
(* The three go their own ways.  Writes of one device are sent and applied *)
(* in order; after a lost connection those not acknowledged are sent       *)
(* again.  Storage requests are plain HTTP: they overtake the writes, fail *)
(* without a retry, and a failed deletion is only logged.                  *)
(*                                                                         *)
(* A post is abstracted to the image it refers to, its isDeleted flag and  *)
(* whether a change still waits for its lastUpdate stamp.  Images are      *)
(* numbered as they are named; 0 is none.                                  *)
(***************************************************************************)
EXTENDS Integers, Sequences, FiniteSetsExt

CONSTANTS
  Devices,
  Posts,                            \* keys childByAutoId may give
  NoPost,                           \* the empty id of a post not yet created
  MaxImages, MaxEdits, MaxStops, MaxDrops   \* bounds of the model

ASSUME PostEditorAssumption ==
  /\ NoPost \notin Posts
  /\ MaxImages \in Nat /\ MaxEdits \in Nat
  /\ MaxStops \in Nat /\ MaxDrops \in Nat

VARIABLES
  db,         \* the posts in the database
  storage,    \* the images in Storage
  screen,     \* the editor on each device
  list,       \* imageUrl of the posts in the device's list, 0 if not listed
  puts,       \* writes not acknowledged (outstandingPuts), oldest first
  sent,       \* how many of them the server has applied
  uploads,    \* saveImage under way
  deletions,  \* images with a deletion under way
  failed,     \* history: devices on which a transfer failed
  lost,       \* history: posts with a write that died with its process
  repeated,   \* history: posts with a write that was sent again
  images,     \* history: the images named so far
  edits, stops, drops   \* history: how much of the bounds is used

remote  == <<db, storage>>
device  == <<screen, list>>
network == <<puts, sent, uploads, deletions>>
history == <<failed, lost, repeated, images, edits, stops, drops>>
vars    == <<remote, device, network, history>>

Record == [image : Nat, isDeleted : BOOLEAN, unstamped : BOOLEAN]
Absent == [image |-> 0, isDeleted |-> FALSE, unstamped |-> FALSE]
Put    == [kind : {"record", "field", "image", "deleted", "stamp"},
           post : Posts, image : Nat]
Upload == [device : Devices, post : Posts \cup {NoPost}, old : Nat, image : Nat]
Screen == [stage : {"closed", "fetching", "editing", "locked"},
           post : Posts \cup {NoPost}, old : Nat,
           hasImage : BOOLEAN, isImageSelected : BOOLEAN, waitsFor : Nat]
Closed == [stage |-> "closed", post |-> NoPost, old |-> 0,
           hasImage |-> FALSE, isImageSelected |-> FALSE, waitsFor |-> 0]

TypeOK ==
  /\ db \in [Posts -> Record] /\ storage \subseteq 1 .. images
  /\ screen \in [Devices -> Screen]
  /\ list \in [Devices -> [Posts -> Nat]]
  /\ puts \in [Devices -> Seq(Put)]
  /\ sent \in [Devices -> Nat] /\ \A d \in Devices : sent[d] <= Len(puts[d])
  /\ uploads \subseteq Upload /\ deletions \subseteq 1 .. images
  /\ failed \subseteq Devices /\ lost \subseteq Posts /\ repeated \subseteq Posts
  /\ images \in Nat /\ edits \in Nat /\ stops \in Nat /\ drops \in Nat

Init ==
  /\ db = [p \in Posts |-> Absent] /\ storage = {}
  /\ screen = [d \in Devices |-> Closed]
  /\ list = [d \in Devices |-> [p \in Posts |-> 0]]
  /\ puts = [d \in Devices |-> <<>>] /\ sent = [d \in Devices |-> 0]
  /\ uploads = {} /\ deletions = {}
  /\ failed = {} /\ lost = {} /\ repeated = {}
  /\ images = 0 /\ edits = 0 /\ stops = 0 /\ drops = 0

-----------------------------------------------------------------------------
(* Writes.                                                                 *)

Write(kind, p, i) == [kind |-> kind, post |-> p, image |-> i]

(* What a post is after a write.  A new record carries its own stamp.      *)
After(record, put) ==
  CASE put.kind = "record"  -> [Absent EXCEPT !.image = put.image]
    [] put.kind = "field"   -> [record EXCEPT !.unstamped = TRUE]
    [] put.kind = "image"   -> [record EXCEPT !.image = put.image,
                                              !.unstamped = TRUE]
    [] put.kind = "deleted" -> [record EXCEPT !.isDeleted = TRUE,
                                              !.unstamped = TRUE]
    [] put.kind = "stamp"   -> [record EXCEPT !.unstamped = FALSE]

Apply(posts, put) == [posts EXCEPT ![put.post] = After(@, put)]

(* Slip: the stamp is written first.                                       *)
StampFirst(p, image) ==
  <<Write("stamp", p, 0), Write("field", p, 0), Write("field", p, 0)>>
  \o (IF image = 0 THEN <<>> ELSE <<Write("image", p, image)>>)

(* updatePostParameters: location, description, imageUrl if there is a new *)
(* one, lastUpdate.                                                        *)
UpdatePostParameters(p, image) ==
  <<Write("field", p, 0), Write("field", p, 0)>>
  \o (IF image = 0 THEN <<>> ELSE <<Write("image", p, image)>>)
  \o <<Write("stamp", p, 0)>>

(* Slip: a deletion is not stamped.                                        *)
SetDeletedOnly(p) == <<Write("deleted", p, 0)>>

SetPostAsDeleted(p) == <<Write("deleted", p, 0), Write("stamp", p, 0)>>

Enqueue(d, writes) == puts' = [puts EXCEPT ![d] = @ \o writes]

(* A key childByAutoId has not given before.                               *)
Unused(p) ==
  /\ db[p] = Absent /\ p \notin lost
  /\ \A d \in Devices : \A n \in DOMAIN puts[d] : puts[d][n].post # p

-----------------------------------------------------------------------------
(* The editor.                                                             *)

OpenNew(d) ==
  /\ screen[d].stage = "closed" /\ edits < MaxEdits
  /\ edits' = edits + 1
  /\ screen' = [screen EXCEPT ![d] = [Closed EXCEPT !.stage = "editing"]]
  /\ UNCHANGED <<remote, list, network, failed, lost, repeated, images, stops,
                 drops>>

(* enterEditMode with a Post of the list; locked until its image is there. *)
OpenEdit(d, p) ==
  /\ screen[d].stage = "closed" /\ edits < MaxEdits
  /\ list[d][p] # 0
  /\ edits' = edits + 1
  /\ screen' = [screen EXCEPT ![d] = [Closed EXCEPT !.stage = "fetching",
                                        !.post = p, !.old = list[d][p]]]
  /\ UNCHANGED <<remote, list, network, failed, lost, repeated, images, stops,
                 drops>>

ImageLoaded(d) ==
  /\ screen[d].stage = "fetching"
  /\ screen' = [screen EXCEPT ![d].stage = "editing", ![d].hasImage = TRUE]
  /\ UNCHANGED <<remote, list, network, history>>

(* The callback without an image unlocks nothing.                          *)
ImageNotLoaded(d) ==
  /\ screen[d].stage = "fetching"
  /\ screen' = [screen EXCEPT ![d].stage = "locked"]
  /\ failed' = failed \cup {d}
  /\ UNCHANGED <<remote, list, network, lost, repeated, images, edits, stops,
                 drops>>

(* What the picker returns need not be an image.                           *)
Pick(d) ==
  /\ screen[d].stage = "editing"
  /\ \E hasImage \in BOOLEAN :
       screen' = [screen EXCEPT ![d].hasImage = hasImage,
                                ![d].isImageSelected = TRUE]
  /\ UNCHANGED <<remote, list, network, history>>

(* OnPostSubmit with an image to upload: the screen is locked and          *)
(* saveImage starts.                                                       *)
SubmitImage(d) ==
  LET s == screen[d] IN
  /\ s.stage = "editing" /\ s.hasImage
  /\ s.post = NoPost \/ s.isImageSelected
  /\ images < MaxImages
  /\ images' = images + 1
  /\ uploads' = uploads \cup {[device |-> d, post |-> s.post, old |-> s.old,
                               image |-> images']}
  /\ screen' = [screen EXCEPT ![d].stage = "locked", ![d].waitsFor = images']
  /\ UNCHANGED <<remote, list, puts, sent, deletions, failed, lost, repeated,
                 edits, stops, drops>>

(* OnPostSubmit of an edit that keeps the image: done at once.             *)
SubmitText(d) ==
  LET s == screen[d] IN
  /\ s.stage = "editing" /\ s.hasImage
  /\ s.post # NoPost /\ ~s.isImageSelected
  /\ Enqueue(d, UpdatePostParameters(s.post, 0))
  /\ screen' = [screen EXCEPT ![d] = Closed]
  /\ UNCHANGED <<remote, list, sent, uploads, deletions, history>>

(* onDeletePostSubmit.  The image is left in Storage.                      *)
Delete(d) ==
  LET s == screen[d] IN
  /\ s.stage = "editing" /\ s.post # NoPost
  /\ Enqueue(d, SetPostAsDeleted(s.post))
  /\ screen' = [screen EXCEPT ![d] = Closed]
  /\ UNCHANGED <<remote, list, sent, uploads, deletions, history>>

Cancel(d) ==
  /\ screen[d].stage = "editing"
  /\ screen' = [screen EXCEPT ![d] = Closed]
  /\ UNCHANGED <<remote, list, network, history>>

(* On an iPad the new-post editor is a popover: a tap beside it closes it, *)
(* locked or not.                                                          *)
TapOutside(d) ==
  /\ screen[d].stage # "closed" /\ screen[d].post = NoPost
  /\ screen' = [screen EXCEPT ![d] = Closed]
  /\ UNCHANGED <<remote, list, network, history>>

(* The completion unlocks and dismisses its own screen.                    *)
Completed(u) ==
  screen' = IF screen[u.device].waitsFor = u.image
            THEN [screen EXCEPT ![u.device] = Closed] ELSE screen

(* Slip: the new image is deleted in place of the old one.                 *)
DeletedNew(u) == deletions \cup {u.image}

(* deleteImage(post.imageUrl!), the image of the Post the editor was given *)
DeletedOld(u) == IF u.post = NoPost THEN deletions ELSE deletions \cup {u.old}

(* Slip: the editor is dismissed only after an edit.                       *)
UploadedInEditMode(u) ==
  /\ uploads' = uploads \ {u}
  /\ storage' = storage \cup {u.image}
  /\ IF u.post = NoPost
     THEN /\ \E p \in Posts : /\ Unused(p)
                              /\ Enqueue(u.device, <<Write("record", p, u.image)>>)
          /\ UNCHANGED screen
     ELSE /\ Enqueue(u.device, UpdatePostParameters(u.post, u.image))
          /\ Completed(u)
  /\ deletions' = DeletedOld(u)
  /\ UNCHANGED <<db, list, sent, history>>

(* saveImage calls back: a new record, or the edit with its new image; the *)
(* old image is deleted by the way.                                        *)
Uploaded(u) ==
  /\ uploads' = uploads \ {u}
  /\ storage' = storage \cup {u.image}
  /\ IF u.post = NoPost
     THEN \E p \in Posts : /\ Unused(p)
                           /\ Enqueue(u.device, <<Write("record", p, u.image)>>)
     ELSE Enqueue(u.device, UpdatePostParameters(u.post, u.image))
  /\ deletions' = DeletedOld(u)
  /\ Completed(u)
  /\ UNCHANGED <<db, list, sent, history>>

(* No URL comes back, whether or not the image was stored: saveImage       *)
(* returns without calling back and the screen stays locked.               *)
NotUploaded(u) ==
  /\ uploads' = uploads \ {u}
  /\ storage' \in {storage, storage \cup {u.image}}
  /\ failed' = failed \cup {u.device}
  /\ UNCHANGED <<db, device, puts, sent, deletions, lost, repeated, images,
                 edits, stops, drops>>

-----------------------------------------------------------------------------
(* The network.                                                            *)

(* The oldest write the server has not seen on this connection lands.      *)
Land(d) ==
  /\ sent[d] < Len(puts[d])
  /\ sent' = [sent EXCEPT ![d] = @ + 1]
  /\ db' = Apply(db, puts[d][sent[d] + 1])
  /\ UNCHANGED <<storage, device, puts, uploads, deletions, history>>

Acknowledge(d) ==
  /\ sent[d] > 0
  /\ sent' = [sent EXCEPT ![d] = @ - 1]
  /\ puts' = [puts EXCEPT ![d] = Tail(@)]
  /\ UNCHANGED <<remote, device, uploads, deletions, history>>

(* The connection is lost; restoreState will send every outstanding put.   *)
Drop(d) ==
  /\ sent[d] > 0 /\ drops < MaxDrops
  /\ drops' = drops + 1
  /\ sent' = [sent EXCEPT ![d] = 0]
  /\ repeated' = repeated \cup {puts[d][n].post : n \in 1 .. sent[d]}
  /\ UNCHANGED <<remote, device, puts, uploads, deletions, failed, lost, images,
                 edits, stops>>

Deleted(i) ==
  /\ i \in deletions
  /\ deletions' = deletions \ {i}
  /\ storage' \in {storage, storage \ {i}}
  /\ UNCHANGED <<db, device, puts, sent, uploads, history>>

(* The image the list shows for p: what the database holds, with some of   *)
(* the device's own writes laid over it.  Deleted posts are not listed.    *)
Shown(d, p, laid) ==
  LET own   == {n \in laid : puts[d][n].post = p}
      named == {n \in own : puts[d][n].kind \in {"record", "image"}}
      gone  == \/ db[p].isDeleted /\ \A n \in own : puts[d][n].kind # "record"
               \/ \E n \in own : puts[d][n].kind = "deleted"
  IN IF gone THEN 0
     ELSE IF named = {} THEN db[p].image ELSE puts[d][Max(named)].image

(* The SDK lays the writes not acknowledged over the posts it holds, and   *)
(* over others none.                                                       *)
Refresh(d) ==
  /\ \E laid \in {{}, DOMAIN puts[d]} :
       list' = [list EXCEPT ![d] = [p \in Posts |-> Shown(d, p, laid)]]
  /\ UNCHANGED <<remote, screen, network, history>>

(* The process dies: writes and uploads die with it, deletions already     *)
(* sent do not.  The list comes back from the tables.                      *)
Stop(d) ==
  /\ stops < MaxStops
  /\ stops' = stops + 1
  /\ screen' = [screen EXCEPT ![d] = Closed]
  /\ puts' = [puts EXCEPT ![d] = <<>>]
  /\ sent' = [sent EXCEPT ![d] = 0]
  /\ lost' = lost \cup {puts[d][n].post : n \in sent[d] + 1 .. Len(puts[d])}
  /\ uploads' = {u \in uploads : u.device # d}
  /\ UNCHANGED <<remote, list, deletions, failed, repeated, images, edits, drops>>

-----------------------------------------------------------------------------
Edit(d) ==
  \/ OpenNew(d) \/ \E p \in Posts : OpenEdit(d, p)
  \/ ImageLoaded(d) \/ ImageNotLoaded(d)
  \/ Pick(d) \/ SubmitImage(d) \/ SubmitText(d)
  \/ Delete(d) \/ Cancel(d) \/ TapOutside(d)

Transfer == \E u \in uploads : Uploaded(u) \/ NotUploaded(u)

Next ==
  \/ \E d \in Devices : Edit(d) \/ Refresh(d) \/ Stop(d)
  \/ Transfer
  \/ \E d \in Devices : Land(d) \/ Acknowledge(d) \/ Drop(d)
  \/ \E i \in deletions : Deleted(i)

Spec == Init /\ [][Next]_vars

(* The SDKs go on sending; the users do as they like.                      *)
Fairness ==
  /\ WF_vars(Transfer)
  /\ \A d \in Devices : WF_vars(Land(d)) /\ WF_vars(Acknowledge(d))

FairSpec == Spec /\ Fairness

-----------------------------------------------------------------------------
(* A post refers to an image that is in Storage, or the write that         *)
(* replaces the image is still on its way from the device that deleted it. *)
(* Excepted are posts for which a write died with its process or was       *)
(* applied twice: for those the code has no remedy.                        *)
ImagesNotDangling ==
  \A p \in Posts \ (lost \cup repeated) :
    db[p].image \in storage \cup {0}
    \/ \E d \in Devices : \E n \in sent[d] + 1 .. Len(puts[d]) :
         puts[d][n].post = p /\ puts[d][n].kind = "image"

(* Every change of a post has its stamp in the database or right behind    *)
(* it: what FeedSync relies on to find the change.  Only a process that    *)
(* dies leaves a change unstamped.                                         *)
EveryChangeIsStamped ==
  \A p \in Posts \ lost :
    db[p].unstamped =>
      \E d \in Devices : \E n \in sent[d] + 1 .. Len(puts[d]) :
        puts[d][n].post = p /\ puts[d][n].kind = "stamp"

(* What the editors' many separate requests leave of a post is sound.      *)
PostsAreSound == ImagesNotDangling /\ EveryChangeIsStamped

(* The screen is locked only while its own upload is under way, unless a   *)
(* transfer failed on the device: then it may be locked for good.          *)
LockedWhileUploading ==
  \A d \in Devices \ failed :
    screen[d].stage = "locked" =>
      \E u \in uploads : u.device = d /\ u.image = screen[d].waitsFor

(* With nothing lost, repeated or failed, all posts end up stamped and     *)
(* with an image that is in Storage, and no editor stays locked.           *)
Settles ==
  [](lost = {} /\ repeated = {} /\ failed = {}) =>
    <>[](/\ \A p \in Posts : db[p].image \in storage \cup {0}
         /\ \A p \in Posts : ~db[p].unstamped
         /\ \A d \in Devices : screen[d].stage # "locked")
=============================================================================
