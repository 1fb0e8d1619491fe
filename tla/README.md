# Tripit: a verification development

Tripit is an iOS client for sharing trips: a feed of posts with likes and
comments, kept in a Firebase Realtime Database and cached in SQLite on each
device. The repository carries its libraries with it; the largest one with
logic of its own is LevelDB. This directory holds TLA+ modules that model the
client and LevelDB's engine, the TLC configurations that check them on small
instances, and TLAPS proofs of theorems that hold for every instance.

## The system

### The client (`src/Tripit/Tripit/`, Swift)

| Component | State | Operations | Interacts with |
|---|---|---|---|
| Local store (`Model.sqlHandler`, `Classes/Extensions/*Sql*`, `LastUpdateDates`, `SqlModel`) | tables POSTS, COMMENTS, LIKES, USER_INFO, LAST_UPDATE | one SQL statement at a time, no transaction | called with the posts of a snapshot; survives the process |
| Feed synchronisation (`Model.getAllPosts`, `FirebaseModel` queries) | watermark in LAST_UPDATE, SDK subscriptions, `userId`, lists of two screens | launch, feed events, one-shot profile answer | database by queries; screens by notifications |
| Own writes and the like button (`PostTableViewCell.onLikeTap`, `FirebaseModel.addLike`, `removeLike`) | pending writes, estimated stamps, likes last shown | tap, echo, acknowledgement, resend | feed query and its watermark |
| Comments screen (`CommentsController`, `NotificationModel`) | notification observer, database observers, table | open, leave, cancelled swipe, deliver | shared notification without a post id |
| User information (`Model.getUserInfo`, `UserInfoSqlExtension`), cells, image cache (`Model.getImage`) | USER_INFO and its watermark, image files, what each cell shows | bind, one-shot query, callback from the local copy, download | reused cells of two tables |
| Profile picture (`ProfileViewController`, `FirebaseModel.updateUserInfo`) | screen lock, record, images in Storage | pick, two callbacks, upload, replace | user information, Storage |
| Post editor (`AddPostController`, `FirebaseModel.updatePost`, `saveImage`) | screen lock, edited `Post`, images in Storage | upload, edit, delete | database, Storage |
| Session (`LoginViewController`, `RegisterViewController`, sign-out) | current user, stacked screens, `Model.userId` | sign in, register, sign out, open the profile | new feed screens, one-shot queries |
| Firebase database and SDK (`Pods/Firebase*`, server) | posts, users; listens and pending writes | set a field, set a stamp, listen, push, reconnect | callbacks on the main queue |

### LevelDB (`src/Tripit/Pods/leveldb-library/`, C++, vendored)

The Firebase SDK keeps its disk cache in LevelDB through `APLevelDB`, which
writes with `sync` off and never compacts by hand. The client never turns that
cache on (`persistenceEnabled`), so no behaviour of the client reaches the
engine today; it is modelled for itself, as a component with a contract of its
own, also for the calls the wrapper does not make (`sync`, `CompactRange`).

| Component | State | Operations | Interacts with |
|---|---|---|---|
| Writes, background thread, recovery (`db/db_impl.cc`, `VersionSet::LogAndApply`, `Recover`) | writer queue, memtables, log, MANIFEST, files, `bg_error_` | Put, Get, flush, compaction, open, close, crash | all of the parts below |
| Levels and compactions (`db/version_set.cc`) | files of each level, snapshots, the running compaction | place a flush, pick and merge files, drop entries, search | tables, iterators |
| Log format (`db/log_writer.cc`, `db/log_reader.cc`) | cells of a file, the reader's state | append, read, resynchronise | log and MANIFEST |
| Memtable list (`db/skiplist.h`) | links, heights, `max_height_` | insert; seek, next, prev, last without a lock | one writer, readers |
| Caches (`util/cache.cc`, `db/table_cache.cc`) | entries, two lists, hash table, usage | lookup, insert, release, erase, evict | open tables |
| Iterators (`db/db_iter.cc`, `table/merger.cc`) | children's positions, direction, saved key | all moves, both directions | memtable and tables |
| Table files (`table/*.cc`, `util/comparator.cc`) | blocks, restarts, index, filters | build, get, iterate | shortened keys |

What is hard here:

* **Interleaving and ordering.** Two queries feed one handler and one watermark;
  their answers come in any order after a reconnect. Observers and closures
  outlive screens, cells and sessions. LevelDB gives up its mutex in the middle
  of writes, reads, flushes and compactions; its list is read with no lock.
* **Crashes.** Every SQL statement commits by itself, so the watermark must
  never be ahead of what is stored. A log, an edit or a table may be cut at any
  byte that was not synced.
* **Two-request writes.** A field and its `lastUpdate` stamp are separate
  requests, as are an image and the record that names it; a device may die in
  between.
* **Boundaries.** Watermark plus one, twice, with strict comparison, against
  stamps in whole milliseconds that may tie. Index keys shortened by a byte,
  records that end with a block, caches of no capacity.

`PROJECT.json` lists every hazard at its line, with the properties that cover
it or the reason none does.

## Modules

### The client

**LocalStore** is `Model.sqlHandler` one SQL statement at a time. `phase`,
`todo`, `cur` and `left` are the handler's program counter; `postRow`,
`likeRows`, `commentRows`, `lud` are the tables. `Enter` is the call;
`RemoveAllLikes`, `Delete`, `AddComment`, `AddNew`, `AddNewLike` are the
statements in code order; `TrackNewest` is the end of the loop body;
`SetLastUpdate` is the end of the routine; `Kill` ends the process between any
two of them. `LIKES` has no key, so it is a bag: the number of rows for each
user and post. Only the columns the properties tell apart are kept. The read of
the watermark may return 0 although a row exists: `LastUpdateDates.get` binds
its argument by a pointer to a temporary, which the build may have freed.

**FeedSync** puts the store between the database and the screens, with
`sqlHandler` as one step (and `KilledInHandler` for the process that dies in
it). `Create`, `WriteField` and `WriteStamp` are other devices' writes, split
into requests as `FirebaseModel` splits them. `Connect`, `Drop`, `AnswerFeed`,
`AnswerProfile` are the connection; `FeedEvent` and `ProfileEvent` the two
callbacks on the main queue. `tomb`, `tied` and `gap` are history variables: the
tombstones handled, the posts stamped in the millisecond of an earlier stamp, and
whether a profile answer overtook the feed (`open`
until the feed's next event, `lost` if the process died before it).

**PostReplica** is the abstract specification: a cache whose copy of each post
moves forward through versions the database held and shows exactly the posts
alive at those versions. FeedSync implements it (`IsReplica`).

**OwnWrites** is the like button with what FeedSync leaves out: this device's
writes are laid over the SDK's view before they are sent (`puts`, of which the
server has applied the first `landed`), stamps as estimates. `known` is what the
SDK has from the server, `View` that with the writes over it. `Receive` is news
from the server with the acknowledgements due, `Event` the feed's callback,
`Removed` the completion of `removeLike`, which sends the stamp. `Overlaid` is a
post with the writes over it: the last like or unlike counts, and the last stamp. `claim`, `hole` and
`lost` are history: whether an estimate had a part in the watermark (it is one,
or it kept its post out of the event), whether a process died with such a
watermark, and the posts with a write, a stamp still to be sent or an event lost
with a process.

**CommentsScreen** has the database observers (`subs`), which are never
removed, the notification observer (`observing`), which is removed when the
screen begins to leave, and the main queue between them.

**UserCells** is `getUserInfo` as the cells use it, with the image cache.
`Bind` is `cellForRowAt`; the closures in `asks` and the `downloads` hold the
cell and the row it then had, never the user. `Event` is the answer:
it always replaces the row of USER_INFO and calls back only if its stamp is
beyond the one watermark. `late` is history: the closures that waited when their
cell was bound again.

**ProfilePicture** is a picture picked on the profile screen: one upload for
each callback of `getUserInfo`, and a finished upload deletes the old picture,
writes the new one and unlocks, in that order.

**PostEditor** is `AddPostController` on the devices of one user, with the
requests `FirebaseModel` makes for it. `screen` is the editor (`fetching` the
image of the post to edit, `editing`, `locked`, `closed`) with the `Post` it was
given; `uploads` and `deletions` are Storage requests; `puts` are the writes the
SDK has not seen acknowledged, of which the server has applied the first `sent`.
`SubmitImage`, `SubmitText`, `Delete`, `Cancel` are the buttons; `Uploaded` and
`NotUploaded` are the two ways out of `saveImage`, the first with everything
`updatePost` and the screen's completion do. `Drop` makes `restoreState` send
every outstanding write again. The history variables `failed`, `lost` and
`repeated` record which devices and posts met a failure for which the code has
no remedy.

**Session** is the stack of screens with the user each was opened for and
shows, `Model.userId`, and the one-shot answers that outlive their screen.

### LevelDB

**LevelDB** is the write path, the background thread and recovery. An action is
what a thread does between two releases of `mutex_`, or one call to the
environment without it, so a write is a chain of steps (queue, make room, append,
sync, insert, wake the others) and so are a flush and a compaction with a flush
nested in it. `thread`, `bg` and `opening` are those program counters; `logs`,
`tables`, `manifest` are the disk, where a crash keeps what was synced and any
part of the rest. `acked`, `promised`, `risky` are history: writes acknowledged
and not given up by a crash, synced writes acknowledged, and writes appended
behind a torn record.

**LevelCompaction** is what happens to entries: where a memtable's table goes
(`PickLevelForMemTableOutput`), which files a compaction takes, which entries it
drops and where its output is cut, any number of times, between writes, flushes,
snapshots and reads. What byte counts decide may go either way. `manual` is a call
of `CompactRange` on its way through the levels: it waits for the memtable's flush
(`TEST_CompactMemTable`), takes level 0, then each level above the deepest that had
files over the range when it was made (`MaxLevelWithFiles`, at least level 1), and in
a level goes on from the last input's largest key (`rest`) until nothing is left.
One thread at a time makes such a call. Compactions that fail, which end a call
early, are LevelDB's.

**LogFormat** is the writer and the reader of logs over cells that may be torn,
cut or damaged. **SkipList** is the memtable's list load by load and store by
store. **TableCache** is the table cache on the LRU cache, with the lists and
reference counts. **DBIterator** is `DBIter` over `MergingIterator`, a move of
the merged iterator a step. **Table** is the building, the index, the restart
points and the filters of table files.

### How they are put together

Modules that interact are composed where the interaction matters: FeedSync takes
`sqlHandler` as the atomic step that LocalStore shows it may be taken for
(`WatermarkAfterRows`, and a kill in it as `KilledInHandler`). **MC\*** modules
give the constants their small values. MCScreens and MCStorage explore several
modules in one run: `part` chooses one of them in the initial state and the
variables of the others rest, so such a run shows of each module what a run of
its own would. MCOwnWrites does the same with two instances of OwnWrites.
**\*Proofs** modules hold the theorems. Operators introduced by a comment
beginning "Slip" are mistakes a programmer could have made at that place; each
property is known to fail when one of them replaces the definition below it.

## Runs

| Run | Specification | Checks |
|---|---|---|
| `feed_safety` | FeedSync, 2 posts, stamps 0 to 2 apart, 3 writes, 1 stop, 1 drop | no resurrection, nothing below the watermark missed, fresh when caught up, implements PostReplica |
| `feed_settles` | the same with fairness, stamps 0 or 2 apart | the store converges, the lists catch up with it |
| `own_writes` | OwnWrites, 2 posts, 2 writes, 2 taps, 1 stop, 1 drop; estimates 0 or 2 ahead, or a steady offset | posts missed only by an estimate, the user's own like is true, the button settles |
| `comments_mix_up` | CommentsScreen, 2 posts, 3 comments each, 3 visits | *violated*: the list shown belongs to the post on screen |
| `post_editor` | PostEditor, 2 devices, 2 posts, 3 images, 3 edits, 1 stop, 1 drop | no dangling image, every change stamped, locked only while uploading |
| `screens` | UserCells, ProfilePicture, Session, PostEditor with fairness and no faults, CommentsScreen with 2 posts, 2 comments each, 3 visits, and LocalStore with 2 posts, 2 users, 1 comment, 15 snapshots, apart | cells show their own user, answers are kept; a record names an existing picture, a first picture never lands, locked for a reason; screens are the signed-in user's; edits settle; an open list of comments never shrinks and is complete in the end; likes neither orphaned nor doubled, the watermark after the rows, rows leave only by tombstone |
| `db` | LevelDB, 2 threads, memtables of one entry, 3 writes or flushes, 4 other events | writes survive, reads are right, numbers are sound, every call ends |
| `storage` | LevelCompaction, LogFormat, SkipList, TableCache, DBIterator, Table, apart | reads find the newest, levels stay sorted, the log is replayed, the list finds what was inserted, the cache is sound, an iterator shows its snapshot, a table is its keys |
| `levels_hop` | LevelCompaction, 2 keys, 4 sequence numbers, 1 snapshot | *violated*: entries never hop across levels |
| `levels_overlap` | LevelCompaction, 3 keys, 3 levels, 4 sequence numbers, `CompactRange` of all keys | *violated*: files of a level below 0 never overlap |

The runs of a module check its type invariant too, except those of OwnWrites,
whose types are proved; PostEditor's is part of `screens`.

**Bounds of the client's runs.** Two posts suffice for ties, for one post
overtaking another and for an own and a foreign post. Three writes are the
shortest history with a creation, a field and a stamp of one post, or with a
second post beside a change of the first. One stop separates two launches with
different watermarks; one drop gives a second answer to every listen. In
PostEditor, three edits are a creation and two edits that race on two devices,
each with an image of its own. Two taps are a like and its removal. One cell
and two users with two rows make every foreign closure that can meet a cell;
two picks with two asks overlap an upload of each callback. Two comments are an
older and a newer event of one post, three visits two of one post around one of
the other. A stack of eight
screens holds a session, a sign-out and a second session with its profile. The
snapshots of LocalStore contain a creation, likes that grow, a deletion, and two
posts in one batch in either order.

**Bounds of LevelDB's runs.** Two threads form a group of two batches, or a
leader and a flush. `MaxMem` is 0, a memtable being checked before the insert,
so that each holds one entry and the next write must switch; with triggers of
1, 1 and 2 level-0 files three writes reach the slowdown, the stop and a
compaction with a flush nested in it. Four events allow a failed call, a crash
during the recovery from a crash, and a read across both. Three levels
are enough for a flush to every level it may go to, a move, a compaction with
a level below its output and one into the last level, and for a call of
`CompactRange` that goes through one level or two; `levels_hop` has four.
`CompactRange` is called with all keys, or with the first only. The three keys of
`levels_overlap` are a range with a gap: the two files of level 0 hold its ends, one
of level 2 and the memtable flushed into level 1 the key between. Three records of lengths 0, 1 and 5 in blocks of 4 end at, before
and behind the end of a block, and the longest has a first, a middle and a last
fragment. The list has three keys on two levels, the cache up to two entries
for two tables and three threads, tables up to four keys that share prefixes or
end in the last byte, iterators three entries of two keys and one written
later.

**What the qualifications mean.** They were found by checking without them.

* `NothingBelowWatermarkMissed` excludes `gap # "none"`. Without that, the run
  reconnects, the profile's answer arrives before the feed's, `sqlHandler`
  moves the watermark to the user's own newest post, and the process dies: the
  next launch never asks for what other users wrote before that stamp.
* It excludes posts in `tied`. A second post of the same millisecond, written
  after the watermark has reached that millisecond, is not asked for by
  `queryStarting(atValue: lastUpdated + 1)` after a restart.
* `ListsCatchUp` needs stamps two apart: `sqlHandler` adds one to the watermark
  and then asks for more than that, so a post stamped one millisecond after it
  is stored without notifying the screens. `ButtonSettles` needs that and a
  steady offset for the same reason, with estimates for stamps.
* `MissedOnlyByEstimate` excludes a `hole`: an estimate ahead of the server's
  clock became the watermark and the process died, so the next query starts
  behind what others wrote in between; or an estimate below the query's start
  took its post out of the event from which the watermark was moved past what
  others had written of that post.
* `OwnLikeIsTrue` excludes posts in `lost` and a `hole`: the echo puts a like in
  the tables that dies with the process before it is sent, or whose stamp alone
  dies with it; an event takes along what it would have stored, a removal its
  stamp. What a `hole` keeps from the next query may be the user's own like.
* `PostsAreSound` excludes, for images, posts with a write that was `lost` or
  `repeated`. `updatePostParameters` deletes the old image in a request of its
  own: if the process dies before the new `imageUrl` is sent, the post keeps
  the URL of a deleted image; and a write sent again after a lost connection
  puts an old URL back over a newer one whose predecessor is gone. For stamps it
  excludes posts with a `lost` write: the stamp may have died with the process.
* `LockedWhileUploading` excludes devices on which a transfer `failed`:
  `saveImage` then returns without calling back, and an editor whose image did
  not load never unlocks. `LockedForAReason` excludes, for the same reason, a
  profile screen that is `stuck`, which is also one whose only callback
  `getUserInfo` withheld.
* `FirstPictureNeverLands` states a defect as it is: a new account's picture is
  the empty URL, which `deleteImage` gives to `Storage.reference(forURL:)`, and
  that raises an exception.
* `CellIsOwn` and `ScreensAreOwn` exclude closures in `late`: those that waited
  when their cell was bound again, or when the profile opened.
* `OwnCommentsArrive` is about a process that opened one post's comments only;
  `comments_mix_up` shows what happens with two.
* `WritesSurvive` and `LogIsReplayed` exclude records behind a `torn` one: the
  reader drops the rest of the block with it, so a write acknowledged after a
  failed append may be lost although it was synced.
* `ReadsFindTheNewest` and `LevelsStaySorted` exclude user keys that two files
  of one level ever divided (`divided`) and levels into which a flush was
  `squeezed` between the inputs of a running compaction: these are what
  `levels_hop` and `levels_overlap` show.

**Fairness.** Nobody has to write, tap, launch, open or quit, and a stamp that
is owed need not come. FeedSync assumes that the SDK goes on trying to connect
(`tryScheduleReconnect`), that the server answers listens, and that the main
queue runs its blocks: weak fairness of `Connect`, `AnswerFeed`,
`AnswerProfile`, `FeedEvent`, `ProfileEvent`. OwnWrites assumes the same of
`Land`, `Receive`, `Event`, `Removed`, CommentsScreen of `Raise` and `Deliver`,
UserCells of `Event` and `ServerAnswers`. PostEditor's assumes that a transfer
ends one way or the other and that writes are sent and acknowledged; no user
has to finish an edit. LevelDB's assumes that a thread that can run does (`Step`
of each thread, `BgStep`, `Opening`, `EndClose`): the code waits on condition
variables and nowhere polls, so weak fairness of each thread is what an
operating system gives. Deadlock checking is off where every user may stop and
every bound be used up.

## Proofs

`FeedSyncProofs` proves type correctness, `NoResurrection`, and the refinement
`Spec => IsReplica`. `Inv` orders, for each post, the row, the events on the
wire and the database (`DiskInv`, `WireInv`, `ServerInv`): an event is never
older than the row, a later event never older than an earlier one, none newer
than the database. Each step then maps to `Publish`, `Advance` or a stutter.

It also proves `NothingBelowWatermarkMissed` and `CaughtUpStoreIsFresh`. Neither
follows from what the device holds: a watermark may be moved by an event that
says nothing of most posts. `Watermark` is the invariant. Stamps are ordered as
versions are (`StampInv`, `WireStampInv`), and what the SDK holds of a post is
what the last feed event says of it (`HeldInv`), so a post stamped now is beyond
everything the device and the wire know. `CoverInv` then says of every event
that could move the watermark past a post that the device has the post's last
version by that event at the latest: an earlier event on the wire, or this one,
brings it. What breaks that order is what the properties except: `tied` posts
and the profile's answer that overtakes the feed (`early`, `FeedsOnTime`).

`PostEditorProofs` proves type correctness, `LockedWhileUploading` and
`PostsAreSound`. The last needs to know who can still name an image that is
deleted. `OwnInv` says that an image belongs to one post and one write, and
that nothing names it before its upload is done; `SeenInv` that until the write
which names it has landed only its own device knows it. So the device that
deletes an image has every write that could still name it in its own queue, in
front of the write of the image that replaces it: `DoomInv`, which is what
makes a dangling post temporary. For the stamps, `StampInv` keeps behind every
unsent change the stamp of its post and `StampedInv` does so for changes that
have landed. The proof is for every number of devices, posts, images and edits.

`OwnWritesProofs` proves type correctness, `MissedOnlyByEstimate` and
`OwnLikeIsTrue` for every number of posts, taps, stops and repeated connections
and every offset of the device's clock. `BaseInv` puts the versions of a post in
order (`OrderInv`): the tables' is not beyond that of an event on its way, the
events follow each other in that order, and none is beyond the SDK's copy or the
database; only a stamp that is an estimate may be ahead of the database's clock.
`CoverInv` is about an event in which no estimate hides a post: for every stamp
of the server that it shows, it has each post the database had stamped up to
then, or the post is in the tables already. So a watermark taken from a server
stamp leaves nothing behind (`LudCover`), and neither does the query that starts
from it (`StartCover`). `OwnInv` is about what the queue will leave in the
tables once it is empty (`Final`): the SDK's view of a post (`ViewInv`) and so,
when no write of the post is under way (`Settled`), the database's like of it.
A settled post may still lie outside the query, where news of it never comes;
that it then never changed is because a like is followed by its stamp
(`StampFollows`), a stamp that has landed puts the post in range
(`LandedStamps`), and a removal leaves a completion that stamps the post.

`ScreensProofs` proves of MCScreens, for every number of users, cells, rows,
pictures, screens, posts, visits and comments, its type invariant, `CellIsOwn`,
`PictureExists`, `LockedForAReason`, `ScreensAreOwn`, `FirstPictureNeverLands`,
`NeverBackwards` and what the run checks of LocalStore; the editor's part of the type invariant is
`PostEditorProofs`' theorem, instantiated. Each
part has an invariant of its own, and a step of one leaves the others' alone.
`CellsInv` follows a closure from the queue of its question to the answer and
into the download: it is its cell's, or it was waiting when the cell was bound
again (`ClosuresAreOwn`). `PictureInv` says that until an upload is done nothing
names its picture (`Fresh`): neither record, row nor write, no request to delete,
and no other upload as the one to replace. So whatever is deleted is never what
the next query will see, and that picture is in Storage (`Kept`). `SessionInv`
puts every profile over the feed of its owner (`ProfilesOverFeeds`), which is
why closing one shows no other's feed, and knows of every answer still to come
whether it was due when the profile opened (`AnswersDue`). For the comments, that
a delivered event may not shrink the list says nothing of the events before it,
so `CommentsInv` adds that the events of one post lie in the queue in the order
of their lists and none is longer than what the SDK holds (`QueueInOrder`), and
that what is shown is behind every event of its post still queued
(`ScreenBehind`). Opening a post twice only appends what the SDK holds by then,
which is why a second visit cannot bring an older list.

Of LocalStore it proves that after every statement `LikesHavePost` and
`NoDuplicateLike` hold, and `WatermarkAfterRows` and `RowsLeaveOnlyByTombstone`.
None of them is inductive: `LoopInv` adds where the cursor is (`CursorInv`), what
holds of the post in hand at each phase (`Halfway`), that every post the loop is
through with is fully applied (`LoopBehind`, `Applied`), and that `newest` is the
greatest stamp seen (`TrackInv`). `WatermarkIsEarned` follows because at
`SetLastUpdate` all of the batch is behind. Of the snapshots the proofs assume
only that none holds an id twice (`LocalStoreAssumption`).

`StorageProofs` proves `ListFindsInserted` of the memtable's list, for any number
of keys and levels. `ListInv` says that the pointers of each level lead through
exactly the nodes linked there, in order (`LinksLead`): a node under insertion
counts at the levels whose store is done. What the search of `Insert` found stays
true while the writer links from the bottom up (`InsertFound`), because there is
one writer; and a reader between two loads stands at a node that is linked at its
level and below its target (`CursorStands`), so no key whose insertion returned
before it started lies behind it unseen.

It also proves `CacheIsSound` of the table cache, for any number of threads,
tables and entries and any capacity. `CacheInv` says of each entry that the
holders and the cache count it and which list it is in (`EntryRight`), of the
hash table that it leads to the entries in the cache and nowhere else
(`HashRight`), and of each client that its handle's entry is its table's.
`Fits` says so of any cache and any holders, with one entry `x` on its way out:
the state between the table's `Insert` or `Remove` and `FinishErase`, which
every replacement, erasure and eviction passes through. The bound on `usage`
needs no history: an eviction that stops above the capacity has emptied `lru`,
so every entry left has a holder, and no client holds two. The loops of `Insert`
and `Prune` are modelled by what they end in (`EraseOldest`), which takes the
code's two asserts for granted; that they hold of every entry of `lru` is part
of the invariant.

For the levels it proves `LevelsStaySorted` and `ReadsFindTheNewest`, for any
number of keys, levels, writes and snapshots, any input a compaction may pick, any
ranges `CompactRange` is called with, and any places to cut the output. `LevelsInv` says of each key that what lies
higher is newer (`MemNewest`, `Level0Ordered`, `Ordered`) and that below level 0
one file of a level has it (`Undivided`), so that `Get` may stop at the first file
that does. A compaction runs while flushes put files into levels 0 to 2, so the
invariant also holds the files it took apart from those it left (`OthersApart`,
`OthersNewer`) and knows that what its `base` does not name holds none of its
keys (`BaseKnown`); a deletion is dropped on that ground alone. `Retained` says
of every snapshot that the newest write it sees of a key is in some file, or is a
deletion with nothing older left to hide: entries go only when a newer one is
visible to the oldest snapshot the compaction knew, and no snapshot taken later
is older (`SeenByAll`). Two exceptions are the code's and stay in what is stated:
a key whose entries a compaction divided between two files (`divided`) and a
table flushed between the inputs of a running compaction (`squeezed`), which
`levels_hop` and `levels_overlap` show.

For the iterator it proves `IteratorShowsSnapshot`, for any number of keys,
children and entries. `IterInv` places the children first: while the merged
iterator moves forwards, each stands at its first entry from the merged key on
(`AfterKey`), backwards at its last up to it (`BeforeKey`), but for what was
inserted since, which no snapshot before it sees (`Visible`). Then it follows the
loops of `DBIter`: on the way forwards every key that is to be shown and lies
before the goal has been passed or is skipped, and a key whose newest entry has
been passed is skipped (`Forth`); on the way back the saved entry is the next
above, and nothing to be shown lies between (`Back`). At rest, backwards, the
iterator stands before all entries of its key and shows what it saved
(`RestBackward`), which is what a change of direction has to undo (`Turns`).

`LogProofs` proves `LogIsReplayed` of the log, for any block longer than a
header, a header of at least two cells, any lengths of records and any number of
torn appends, cuts and damaged cells. `LogInv` speaks of the sequence `fs` of all
fragments ever given to the file, which the code keeps nowhere: which part of
which record each holds, where, and how much of it was written. Every cell of the
file is a fragment's, fills the end of a block, or is damaged (`CellsRight`), and
until the first torn append each fragment lies in one block, where the one before
ends or at the start of a block (`AlignedRight`). That an append adds such
fragments is an induction over the recursion of `AddRecord`, stated of the points
in the record and in the block that it passes (`Path`). A reader stands before a
piece of a block (`ReaderRight`); a header with its payload is found only where a
whole fragment lies (`FragmentHere`). What it has put together is the beginning of
one record, and no fragment in between can have been passed unseen (`Assembled`,
`NoneLost`), so what is returned is whole. A record that is due is returned, or
the reader is on the way to its first fragment, or to the next one of it
(`OnTrack`): the fragments before it in the same block are whole too, since none
of a due record's blocks is damaged, and after a bad header the reader goes on at
the next block. `QuietRight` says that a reader of a file that was only cut goes
from each fragment to the next, which is why it has nothing to report.

`TableProofs` proves `TableIsItsKeys`, for any user keys, restart interval,
filter base and number of entries. `Packs` says of a block that each entry
brings its key out of the one before, at a restart point out of nothing; so
parsing gives the keys back from whichever restart point it starts (`KeyFrom`),
and the binary search over restart points ends at the last one before the target
(`RestartBefore`). Both are recursive functions: each claim about them is proved
by looking at the least place where it would be wrong (`LeastOf`). `TableInv`
then says of the file that its blocks hold the keys one after the other
(`Laid`), that each key of the index divides a block from the next (`Divides`:
not before the block's last key, and of a smaller user key than the next block's
first or the last key itself), that a block's user keys are in the filter of the
offset the block starts at (`Filtered`), and that the iterator is at the block
and entry of its place (`AtPlace`). A key is shortened only to fewer bytes of
its user key that come after the whole of it, which is why the index may hold
keys that no block has and a seek still ends in the right block, or behind its
last key and so at the first of the next (`SkippedForward`); and why `Get`,
which asks one block only and its filter first, may say that there is nothing.

Its `StorageTyped` puts the parts together: `TypeOK` of the whole run, from the
invariants above and from `HistoryCounted`, that there are as many entries as
sequence numbers given out.

The results about levels, iterator, log and tables assume the parts of
`StorageAssumption` about their modules: that their bounds are numbers, that
there are at least three levels, a key and an entry, what was said of blocks and
headers, and that user keys are nonempty strings of bytes up to `MaxByte`. For
the last, the run gives `TableUserKeys` the four keys of `MCUserKeys`.

`LevelDBProofs` proves every safety property of `db` for any number of threads,
any triggers, sizes and bounds: `TypeOK`, `WritesSurvive`, `ReadsAreRight` and
`NumbersAreSound`. One inductive invariant serves all four, because each needs
the others. An entry keeps being found only if it is in the log and the memtable
while its group writes (`GroupInv`), then in `mem`, `imm` or a table, and in a
log not yet deleted as long as no table of the MANIFEST has it (`SafeInv`). A log
is deleted at `version.log`, so the MANIFEST must never be behind the version in
log number, nor hold less (`VersionInv`): it may be ahead, by an edit whose sync
failed, and `bgError` then stops every later deletion. The edit under way says
what its output will be, and its numbers are between the MANIFEST's and the
process's (`BgInv`, `EditInv`); a new table never overwrites one that is named,
because its number is fresh and pending. Sequence numbers up to `lastSeq` are used,
and those above belong to the one group between `AddRecord` and `Finish`
(`SeqInv`), which is why a group that failed still has to use its numbers up.
That there is one such group is `QueueInv`: only the head of the queue is beyond
waiting. During recovery, a log is either still to be replayed or its records are
in a table made (`ReplayInv`). The assumptions are `LevelDBAssumption` only.

The invariants `Watermark`, `PostInv`, those of OwnWrites, those of
ScreensProofs, `ListInv` and LevelDB's `Inv` were first checked with TLC on the
instances of `feed_safety`, `post_editor`, `own_writes`, `screens` and `db`, and
on four keys and two levels; `LevelsInv` in the 2,140,212 distinct
states of `storage`, `IterInv` in the 204,316 of its part; `LogInv`, with the fragments
as a variable that remembers them, on that instance and with blocks of six cells
and headers of three, in 539,684 and 534,067; `TableInv`, with the index read
back from its entries, on that instance, in 8,189.

Every safety property that a run checks is thus proved for all constants. Only
model-checked: what must happen in the end (`Converges`, `ListsCatchUp`,
`AnswersAreKept`, `Settles`, `OwnCommentsArrive`, `SteadyButtonSettles`,
`CallsEnd`), which rests on weak fairness and so on `ENABLED`, out of the prover's
reach; and the three runs that show a violation, which are counterexamples.

## Not modelled

In the client:

* Failing SQL statements and the lifetime of the other bound strings: SQLite is
  assumed to execute what it is given, and locals to live to the end of their
  scope. Failing statements would break `WatermarkAfterRows` at once, which
  needs no run to see.
* Several feed subscriptions in one process. FeedSync takes each write as
  applied once, except stamps: a whole record sent again (see PostEditor) could
  undo a deletion, which `NoResurrection` does not consider.
* The texts of a post, and so an edit that the list shows although its upload
  failed; the signed-out branch of `OnPostSubmit`, which no screen leads to.
* Layout, storyboards, cell drawing, alerts, and the test templates, which
  assert nothing.

In LevelDB:

* A failed append of the zeros that fill the end of a block. `AddRecord` ignores
  its status (`log_writer.cc:53`): were it alone to fail, later records would be
  acknowledged out of place and lost. With `PosixWritableFile` it cannot be the
  first append that fails: the zeros, fewer than a header, only enter the buffer
  of the stream, which every fragment's successful `Flush` has left empty. Behind
  a torn append it may; `LogIsReplayed` and `WritesSurvive` except what is there,
  and the model has records out of place there already, by the cells the torn
  fragment lacks. A fragment torn within the zeros before it is taken to
  leave them whole.
* What is counted in bytes: scores, seek counts, sizes of files and charges of
  the cache. Where bytes decide, the model may go either way.
* The arena, the encodings of entries and numbers, checksums but for the ones
  LogFormat needs, compression, the block cache and the shards of the LRU cache.
* `reuse_logs` and `paranoid_checks` (off by default and in the wrapper),
  `RepairDB`, `DestroyDB`, the environment's system calls and the C binding.

The other libraries: the Firebase SDK only as the app uses it (reconnecting,
listens, pending writes, estimated stamps). nanopb is a pair of sequential coders
driven by generated tables, and no code of the client calls it. Of the C and C++
in the repository, what has state and control worth a model is LevelDB's;
most of the rest is declarations, comments and coders, and the client itself is
Swift. A map over those lines would stand for nothing.

## What is left

* The liveness properties, should the prover learn `ENABLED`.
* Failing SQL statements, once the code answers them.
