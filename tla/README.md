# NuSync in TLA+

A model of the NuSync daemon (`src/`): how a cluster of nodes keeps a directory
in sync, checked with TLC on small instances and, where it says so, proved with
TLAPS for every instance. `PROJECT.json` maps each definition to the lines it
models and lists the runs, the mutants, the findings, the hazards and the
theorems.

## The system and the modules

A node watches a directory. A changed file is chunked, its chunks go to a
content-addressed store, its chunk list, Merkle root and Lamport timestamp to an
index, and an announcement to gossip. A node that hears of a version that wins
against its own (higher timestamp, then greater node name) starts a Pull: it
asks the peers one after the other for a diff and the metadata, fetches the
missing chunks from all who have them, assembles the file in place, saves the
metadata as its own and announces it again. Every 20 s a node compares catalogs
with three random peers.

| Module | Models | Source |
|---|---|---|
| `Replication` | the cluster: clocks, indices, announcements, anti-entropy, Pulls as a sequence of requests, restarts | `daemon.go`, `api.go`, `sync.go`, `service.go` |
| `SharedFiles` | what replication promises for files with one writer each, implemented by `Replication`, and by `NodeSync` on a node that receives | |
| `NodeSync` | one file on one node: disk, store, index, debounce timer, quiet mark, HandleFileChange, /ingest and Pull statement by statement, restarts | `daemon.go`, `api.go`, `quiet.go`, `watcher.go`, `sync.go`, `sparse.go` |
| `Merkle` | the root of a list of chunks, used by `NodeSync` | `tree.go` |
| `Transfer` | what the chunk transfer of a Pull promises, implemented by `ChunkFetch` | |
| `ChunkFetch` | the chunk transfer of one Pull: rarity map, one goroutine per chunk, attempts, health tracker, the peers' semaphore and their authentication | `sync.go`, `rarest.go`, `backoff.go`, `server.go` |
| `Auth` | signing and verification of a request, used by `ChunkFetch` | `hmac.go`, `grpc_interceptor.go` |
| `CASPut` | `CASBlobStore.Put` of one hash on the file system | `cas.go` |
| `BlobStore` | what the store promises, implemented by `CASPut` | |
| `Watcher` | the directory watcher: walk, events, debounce timers and the functions they start | `watcher.go` |
| `Lifecycle` | Start and Stop of the daemon against everything that runs meanwhile | `main.go`, `daemon.go`, `gossip.go`, `api.go` |
| `MCReplication`, `MCNodeSync`, `MCChunkFetch`, `MCWatcher` | definitions for the instances | |
| `ReplicationProofs`, `SoleEditorProofs`, `MerkleProofs`, `NodeSyncProofs`, `ChunkFetchProofs`, `CASPutProofs`, `WatcherProofs`, `LifecycleProofs` | the theorems | |

The modules overlap on purpose at Pull. `Replication` knows which version wins
and not what a version consists of; `NodeSync` knows chunks and the disk and has
only a flag `behind` for "the peer's version wins"; `ChunkFetch` takes the one
step of `NodeSync` that fetches the chunks apart. In the same way `Watcher`
takes apart the armed timer of `NodeSync`, and `Lifecycle` the Restart of
`Replication` and `NodeSync`.

### Replication

`meta[n][f]` is the index, `indexing[n][f]` the changes that have a timestamp
and are not in the index yet (two steps, because other goroutines run in
between), `pull[n][f]` the Pull goroutine, whose `pc = "idle"` is "not in
`d.syncing`". A goroutine that handles an announcement or a catalog reads the
index, compares, and calls triggerSync later, without a lock: `decided` holds
what each of the goroutines (`Goroutine`, per node) has found to fetch and not
yet triggered. `announced` only grows: each announcement may reach a node never,
once or often, in any order, which is what gossip over UDP does. The catalog of
reconcileWithPeer is compared entry by entry; an entry that is stale by then is
an earlier announcement of the same peer. `written` is history, for the
properties. A node name is a number because names are compared. `Restarting`,
`ManualSync` and `Overlap` are the nodes whose daemons restart, whose users call
/sync and whose changes may overlap; the
sole editor of a file (`SoleEditor`) is a node that alone edits it and does not
restart.

bbolt transactions are atomic. With `IndexErrors` a PutFileMeta of a local
change may fail; HandleFileChange and /ingest announce the version all the same.

`SharedFiles` has a copy per node and file, the set of versions the writer has
published, and the nodes that are fetching: a node sets out to fetch only when
it is behind, and may then get any published version. `Replication` maps its
index to the copies, the stamped versions that are no longer on their way to the
index to the published ones, and the nodes with a Pull or a decision under way
to those that fetch. `NodeSync` maps its index and the peer's version to two
copies of a file that the peer writes, and fetches as long as they differ.

### NodeSync

A content is the sequence of its chunks. Whether two are the same version is
decided by their roots, computed with `Merkle`; a node that has never seen the
file has no root, and an empty file the root of zero bytes. A hash of two hashes
is the pair of them: hashes do not collide. A save by the user and a reading by
ChunkFile are one step each. `own` is history: the last event the armed timer
saw is one of the assembler; so are `refused`, the chunks whose CAS.Put
failed in HandleFileChange, which ignores that, and `disturbed`: the last save
could not be read or not be indexed, a restart or the mark of a Pull came after
it, or a mark was there when it came. HandleFileChange returns when it cannot
read the file and ignores an error of PutFileMeta; a Pull returns at the first
error of a request, of the file or of the index. The mark expires after 5 s:
with `SlowAssembly = FALSE` the model uses that an assembly and the debounce of 0.3 s after it are over by then,
with `TRUE` it may expire at any time. One handler means that indexing is
quicker than the debounce; two handlers may overlap. /ingest begins a handler
that looks neither at the mark nor at the old root; it names the file as the
watcher does only if the daemon runs in the synced directory. `MaxUses` bounds
saves and calls of /ingest together. A Pull may start when the node is level,
because what led to it was compared earlier or not at all (/sync).

### ChunkFetch

`Missing` is a list, because DiffMerkleTree repeats a hash that the file
repeats; the availability reply then repeats it too, and a peer occurs twice in
the rarity map. Backoffs and cooldowns take any time. All Pulls of a node share
the tracker, so peers may be hot at the start, and become hot by a failure in
the Pull of another file (`MarkedByOther`). `FailCount` is not modelled: nothing
reads it. A client gives up after 10 s, a handler of the peer may go on for 30 s:
`busy` are the permits in use at a peer, which come back when the handler
returns (`Release`) and not when the client has its chunk or has given up, so a
retry can be refused because the attempt before it is still being served.

Every request is signed at some fraction of a second (`Moment`, in
milliseconds), travels up to `MaxDelay`, and is verified with the peer's clock,
which is off by `Skew`, and its secret; a peer that refuses answers 403 before
it touches its semaphore. `heard` and `denied` are history.

`Transfer` has an outcome and the set of stored chunks. `ChunkFetch` maps the
statement Pull is at to the outcome, which is `running` until Pull goes on to
the assembly or returns.

### CASPut

Files are inodes with a content; `tmp` and `object` say which inode the two
names stand for. os.WriteFile is an open, which truncates, and a write to the
opened inode. Data written over other data may leave a mixture.

### Watcher

`timers` is the map the mutex guards. A timer that expires starts a goroutine
(`entering`) that locks the mutex and deletes the entry of its path, and then
looks at the file and calls back (`calling`). An event may reset a timer whose
goroutine has started: that goroutine then deletes the entry of a running timer,
which becomes a stray. Time is one bit per path: `recent` until the quiet period
has passed since the last event. `owed` is history: the files that the kernel
has reported and that no callback has passed on after the quiet period; so are
`early`, the directories there when Start was called, and `refused`, those whose
Add failed.
Directories that are made later get an event and no watch. With `Faults` a
directory may not be added or not be read, and events may be lost.

### Lifecycle

`start` and `stop` are the next statements of Start and of the signal handler.
`list` is g.list, which has no lock: the two reads of NumNodes are two steps.
`learn` is a comparison with a peer's version, by an announcement or by a
catalog, from the reading of the index to triggerSync; `work` a change or a Pull
from before its PutFileMeta to its announcement; `refused` is history: the
changes that an open index failed to take. A panic ends the process,
except in a handler of the HTTP API. The data plane's HTTP server is left out:
Stop does not wait for it, so /meta and /catalog may find the index closed.

## Runs

| Run | Instance | States | What it shows |
|---|---|---|---|
| `rep_sole` | 3 nodes, one editor, 2 versions, one goroutine per node between comparison and trigger | 90 thousand | for a file that one node edits: a timestamp names one content, the editor's next version is newer than all there is, the editor's copy is never replaced, a level node that is not fetching stays as it is, one that differs is replaced at the next comparison, the cluster implements `SharedFiles`, and all nodes converge to the editor's content |
| `rep_any` | 2 nodes that both edit, 2 timestamps, failing index writes; one of them restarts, the other has overlapping changes and /sync | 2.5 million | every indexed version was stamped by some node with that content and timestamp, and of two nodes that differ one fetches |
| `node_recv` | 3 versions of the peer, of no, two and three chunks, a restart, failing requests, fetches and writes | 68 thousand | a receiving node never indexes half a file, what a Pull left damaged is seen by the next, the node implements a copy of `SharedFiles`, and ends with the peer's version on disk |
| `node_any` | 2 saves or calls of /ingest, 2 versions of the peer, failing reads, puts and index writes | 1.4 million | the index never lists a chunk that the store neither has nor refused; the last save is under way until it is indexed, and gets indexed, unless it cannot be read or indexed or a Pull disturbs it |
| `fetch` | 2 chunks, 2 peers that hold different ones, 1 stream each, clocks 2 s behind and 29.5 s ahead, a peer with another secret, anything may fail | 458 thousand | the transfer implements `Transfer`, ends with no goroutine running after a bounded number of attempts, goes on only with all chunks stored, and gives up only on errors; who is refused |
| `cas_one` | 1 writer, wrong data, failing writes, 2 crashes | 612 | Put implements `BlobStore` |
| `cas_two` | 3 writers with the right data | 9 thousand | when all are done the object is there and whole |
| `watch` | a file in the root, a file in a directory that may be made later, a hidden directory, 4 saves, faults | 346 thousand | the walk misses no directory, and a save that the kernel reports is passed on after the quiet period, whatever the timers do |
| `life` | 2 requests, a change, 2 versions of peers, failing index writes, a signal at any time | 940 thousand | no request meets a closed index, what is sent is indexed or was refused, no Pull starts without a comparison, g.list is nil only at the edges, and Stop ends |

The bounds are the smallest at which the interesting cases happen: three nodes
so that a Pull can reach a node other than the one that announced; two
timestamps so that a version can be overtaken while it is compared or fetched,
and one goroutine per node that has compared, beside the Pull, so that a node can
become level before it triggers; two versions of the peer in `node_any` so that
the diff and the metadata of a Pull can be of different ones; two chunks per content so
that an assembly can be interrupted half-way, with a chunk shared by two
contents so that the diff leaves it out; a chunk that one peer has and a chunk
that both have, with one stream per peer, so that the sort by rarity matters and
one goroutine can be refused while the other is served; three chunks so that a
level of the tree is odd; a clock 29.5 s ahead so that the fraction of the second
decides; four saves so that a timer can be reset while its function starts, and
the stray then overtaken by a third timer; two versions of peers so that a
trigger comes while a Pull is running. In `node_any` assemblies are not slow and
the daemon does not restart, and in `rep_sole` no node restarts, because with all
of these together they would not finish in minutes; the proofs of `IndexBacked`
and `SaveIsUnderWay` cover both, and those of the safety properties of `rep_sole`
restarts of the nodes that do not edit, any number of goroutines and any number
of versions. `rep_any` leaves
gossip out (`GossipLost`): anti-entropy and /sync start the same Pulls. Only `rep_any`
uses symmetry (of the roots), and it has no temporal property.

Deadlock is checked in `rep_sole` and `rep_any`. The other passing runs stop by
design: when user and peer have used up their bounds, the Pull has returned, the
object is stored or the process has ended, nothing is left to do.

### Fairness

`rep_sole`: goroutines run on, the ticker ticks, and what was decided is done
(weak fairness). The member list is shuffled, whatever the peers hold and
whatever else is under way, so the editor, if it could be asked first again and
again, is asked first some day: by a node with another content, and by one that
is level and has some number of triggers still to come (strong fairness; the
second kind is what ends the fetching of a node that is level). From some time on
peers answer and transfers succeed. Nothing is assumed of users, and no
announcement has to arrive. `node_recv`, `node_any`: timers fire, goroutines run,
anti-entropy triggers as long as the node is behind, and transfers succeed from
some time on; reading and indexing may fail for ever. That a Pull goes on includes in all three
that Diff returns, with an answer or an error: it is called with the Background
context and has no deadline, and a peer that accepts the call and never answers
holds the Pull, and every later trigger of the file, for good. The other requests
of a Pull are bounded (3 s for the availability, 10 s for metadata and chunks).
`fetch` begins after Diff: goroutines run on, which these timeouts and the
bounded backoff justify; no request has to succeed, and no permit has to come
back. `watch`: the walk goes on,
the goroutine receives, time passes, timers expire and their functions run;
nothing is assumed of users and of faults. `life`: the signal handler runs, and
requests that were accepted are answered, which for handlers that only read
holds; nothing is assumed of the arrival of requests or of anybody else.

### Where the code differs from its documentation

Each run `v_*` checks one sentence of the documentation, and TLC finds a
behaviour of the code that contradicts it; `findings` quotes both sides.

| Run | Behaviour |
|---|---|
| `v_regress` | Pull installs the first peer's version without comparing: a node that has compared, and is brought up to date before it triggers, goes back to an older timestamp |
| `v_conflict` | ties are broken by the names of the nodes that compare, not of those that wrote: of two nodes with the same version one wants another version and one does not |
| `v_quiet` | a save after the last write of an assembly, within the 5 s of its mark, is dropped: it is on disk, no Pull is left to overwrite it, and nothing indexes it |

### Conditions of the properties

The properties hold under conditions, most of them values of the constants. For
each row TLC finds the counterexample of the last column when the condition is
dropped.

| Property | Condition | Without it |
|---|---|---|
| `SameTimestampSameRoot`, `NextWriteIsNewest`, `SoleEditorKeepsCopy`, `SettledCopySticks`, `LaggardsWant`, `SharesFiles` | the editor does not restart (in `SoleEditor`) | the clock restarts at zero, so a write after a restart has a lower timestamp than the editor's own earlier one, which comes back from a peer |
| `SettledCopySticks` | the node has no Pull and no decision under way | `v_regress`: a node that becomes level before it triggers fetches once more, and may find an older version at another peer |
| `SettledCopySticks`, `SharesFiles` | `IndexErrors = FALSE` | a version is announced that the editor has not indexed; a level node sets out to fetch it, and may find an older one at another peer |
| `SoleEditorKeepsCopy`, `SettledCopySticks`, `LaggardsWant`, `SharesFiles` | the changes at the editor do not overlap (`Overlap`) | of two overlapping changes the older may be indexed last, and the newer comes back from a peer |
| `SoleEditorKeepsCopy`, `LaggardsWant` | nobody calls /sync at the editor | /sync starts a Pull whatever the timestamps, so the editor falls behind the others |
| `SettledCopySticks`, `SharesFiles` | `ManualSync = {}` | the Pull that /sync starts at a level node may find an older version at another peer |
| `WholeVersions`, `DamageIsSeen`, `SharesFile` | `SlowAssembly = FALSE`, `MaxUses = 0` | an assembly longer than the 5 s of the quiet mark is indexed half-way; the mark is checked before the file is read, so a handler that a user's save has started may read a file a Pull is assembling, and /ingest does not look at the mark at all |
| `DamageIsSeen`, `SharesFile`, `FollowsPeer` | `PeerReverts = FALSE`, `MaxUses = 0` | a file damaged by an interrupted Pull stays when the peer returns to the version in the index; with saves the peer need not have the last word |
| `IndexBacked` | that is its statement | HandleFileChange ignores a failing CAS.Put, and indexes and announces what was refused |
| `SaveIsUnderWay`, `DiskGetsIndexed` | one handler; not `disturbed` | of two overlapping HandleFileChange the older may win; a change that could not be read or indexed is not tried again, and one just before a stop not looked for at the next start; `v_quiet` |
| `SecuredMeansStored` | `PutErrors = FALSE` | Pull ignores a failing CAS.Put, until the file is truncated |
| `KeepsPromise` | one writer at a time | Puts of one hash share the temporary file: one may rename what another has just truncated, and the object is empty until that one has written |
| `IntegrityAtRest` | with several writers: the right data, no failing write, no crash | what a rejected, failed or interrupted Put leaves in the shared temporary file is renamed by another Put |
| `StoredAfterPut` | `BadData = FALSE` | a Put of wrong data removes the temporary file that another is about to rename |
| `VisibleTreeIsWalked`, `SavesGetReported` | the walk has not failed, the directory is watched, no event is lost | directories made after the start, or that could not be added, are not watched, and if one cannot be read none is; an overflow of the queue is only logged |
| `SentIsIndexed` | not `refused` | HandleFileChange ignores the error of PutFileMeta, and announces what an open index did not take |
| `SentIsIndexed`, `NoBlindPull` | Stop finds g.list set (`found # "nil"`) | a signal before g.list is assigned: gossip goes on while Stop closes the index |
| `PanicsAtTheEdgesOnly` | that is its statement | an announcement between memberlist.Create and the assignment, or a tick, an announcement or a NumNodes after Stop, finds g.list nil |
| `ClockWindow` | that is its statement | the window is not even: cutting the time to seconds costs a peer whose clock is ahead up to a second, and the delay |

Three more behaviours the models show and no property is about: Pull does not
merge the timestamp it installs into the clock; one 429 puts a peer on cooldown
for the goroutines of all Pulls, and those may give up without having asked it; chunks in the
store that no index entry lists are fetched again.

## Proofs

All for every value of the constants that satisfies the named ASSUME of the
module.

- **`ReplicationProofs`**. `TypeCorrect` needs that a Pull past its diff is at a
  peer that has the file (`PullWF`). `VersionsAreWritten`: each of index,
  indexing, announcements and fetched metadata holds stamped versions only
  (`StampInv`); restarts, overlaps and manual syncs included.
  `TimestampsNameContents` and `ClockLeadsCopies`, for each file whose only
  editor does not restart and whatever the other nodes do: a stamp is at most
  the clock of such a node, clocks are never set back by what they observe, and
  so it never stamps twice with one timestamp (`ClockInv`). `TieBreakDecides`,
  for any number of editors, from the types and the order of the names.
- **`SoleEditorProofs`**. All allow restarts of the nodes that do not edit.
  `EditorKeepsItsCopy` and `LaggardsFetch` assume `Calm` (no overlapping changes,
  no manual sync at an editor), `LevelCopiesStick` and `ReplicationSharesFiles`
  that there are no manual syncs at all and no index write fails
  (`Undisturbed`); the table of conditions says why. `EditorInv(w, f)` for the
  only editor `w`: what anybody else indexes, fetches or announces of `f` is at
  most as new as `w`'s entry, and `w` has neither a Pull of `f` nor a decision to
  start one, because nobody's version wins there. What `w` itself announces may
  be newer than its entry, if the index refused it; without such errors only
  nodes that lag set out to fetch (`LevelInv`, `OnlyLaggardsSetOut`). That a node
  may have become level by the time it triggers is why `SettledCopySticks` is
  about nodes that have not set out. A restart drops the Pulls and the clock of a node, and neither
  is in the way of these invariants: the clock of a node that does not edit
  stamps nothing.
  For `ReplicationSharesFiles`, with one editor for each file, every step of
  `Replication` is a Publish, a Fetch or a stutter of `SharedFiles`. A stamp
  publishes nothing, because its timestamp is new; what is indexed was not
  published before; only a node that lags sets out, and what a node that has set
  out installs is a version the editor has had.
- **`MerkleProofs`**. Nodes of the tree are pairs: hashes do not collide.
  `RootTellsPlaces`: lists of the same length with equal roots are equal, whatever
  their leaves are. Once one hash is left, further passes change nothing, so both
  lists reach their root in a common number of passes, which are then undone one
  by one (`PassesBack`): a pass loses nothing of a list whose length is known
  (`LevelTells`). `RootTellsLists` is for any two lists, and lists of 2n - 1 and 2n
  hashes both give n. It needs that no leaf is itself a pair (`PlainLeaves`), since
  ComputeRoot hashes nodes as chunks are hashed, without a mark that tells one
  from the other: a chunk that is the 64 bytes of two hashes has the hash of the
  node above them, and the list of the one and the list of the two have the same
  root. With it the depth of a hash, the number of times its first half is taken
  until a leaf is reached, tells them apart: after k passes all hashes but the
  last are at depth k, and the last, which may have moved up as it was, at no
  greater one (`PassDepths`), so the last of n hashes cannot be both one that
  moved up and a pair (`PassTells`). Induction is by the least counterexample
  (`LeastNumber`).
- **`NodeSyncProofs`**. `NodeTypeCorrect`. `PulledIsBacked` and `IndexIsBacked`,
  without assumption: an assembly has found in the store every chunk it has
  passed (`FromStore`), which is why the ignored errors of the fetches do no harm
  to the index, and a handler about to index has stored its chunks but those
  that were refused (`StoredFirst`). `ReceivedAreWhole` (no saves, no /ingest, no
  slow assembly): each event is one of the assembler and its timer fires while
  the path is marked, so that no handler gets to reading (`MarkedInv`).
  `DamageIsRepairable` (also, a peer that does not go back): the node is behind
  exactly if its index is not the peer's version, a Pull gets past its diff and
  metadata only while it is behind, and when it is not, the last Pull has written the whole file
  (`FollowInv`, `AssemblyInv`); that different versions have different roots is
  `RootTellsLists`. `ReceiverSharesFile`, under the same assumptions: every step
  is a Publish of the peer, a Fetch of the node or a stutter of `SharedFiles`,
  because only a Pull writes the index (`MarkedInv`), only while it is not the
  peer's version, and what it installs is a version the peer has had
  (`FollowInv`). `NoSaveIsLost` (one handler), with any saves, /ingest, Pulls,
  slow assemblies, errors and restarts: what the handler has read is what is on
  disk, or the timer is armed, unless the save is `disturbed`, and a Pull that has
  marked the path has disturbed it (`UnderWay`). `DamageIsRepairable`
  and `NoSaveIsLost` assume `PlainChunks`, which is `PlainLeaves` for the chunks of
  the files.
- **`ChunkFetchProofs`**. `FetchTypeCorrect`, `PullLeavesNothing`,
  `GivenUpAfterErrors`, `SecuredIsStored` (if `PutErrors = FALSE`) and
  `ClocksDecide`, for any peers, clocks and lists of chunks. The invariant says
  which goroutines run at each statement of Pull, that the list is sorted when
  they are started (`Shape`), and that a goroutine moves on from a peer only
  after a failure of it, in this Pull or another (`Skipped`). `PullTransfersChunks`: every step is one of
  `Transfer` or a stutter; a chunk is stored only by a goroutine that runs, and
  `Shape` says that none does after Pull has gone on. `GoroutinesRunOut`: each
  step of a goroutine raises `Rank`, its place in the list of peers, the
  attempts and the steps of an attempt, and its place is at most one past the
  end of the list (`InList`). This is the safety part of `TransferEnds`: what
  TLC adds is that goroutines do go on.
- **`CASPutProofs`**. `PutTypeCorrect` for any number of writers;
  `PutImplementsStore`: with one writer the specification implements
  `BlobStore`. `PutInv` says what the two names stand for at each statement.
  `OverlappingPutsStore` and `OverlappingPutsHeal`: for any number of writers
  that overlap, with the right data, the object is there after a Put, and whole
  when all are done; a writer that has still to write is the reason why an
  object may be empty meanwhile (`FilledInv`).
- **`WatcherProofs`**. `WatcherTypeCorrect`, `EventsAreTimed` and
  `NoSaveForgotten` for any tree. The invariant `WatchInv` adds that a file
  that is owed exists, and that a path is timed already during the walk.
  `WalkMissesNothing`: what was there from the beginning, is not hidden and is in
  a visited directory has been visited or is next (`WalkInv`).
- **`LifecycleProofs`**. `LifecycleTypes`, `IndexOpenForRequests`,
  `AnnouncedIsKept`, `PullsHaveCompared`, `OnlineStaysUp`. The invariant says
  what is still there at each statement of Stop and who can be running at each
  statement of Start.

Every invariant and action property of the runs that pass is proved, and so are
the types of `CASPut`, which no run checks. Only
model-checked: liveness (`SoleEditorConverges`, `FollowsPeer`,
`DiskGetsIndexed`, `TransferEnds`, `SavesGetReported`, `StopEnds`), which is out
of the prover's reach; `LaggardsWant`, `DamageIsSeen`, `AttemptsRunOut`,
`SaveIsUnderWay` and `OwedIsUnderWay` are the safety facts five of them rest on.

## Not modelled

- Where the chunker, a wrapper of the FastCDC library, cuts a file. Generated
  protocol code.
- Files named `*.db`: HandleFileChange returns for them and reconcileWithPeer
  passes over them. The models have files that are not named so.
- The durations of CalcJitteredBackoff: backoffs take any time.
- The syntax of headers, and the escaping of file IDs in requests (`/meta?id=`
  is put together without it, so names with `&` or `#` are cut): these are about
  strings and not about state.
- memberlist: a set of peers, some of which do not answer.
- The data plane's HTTP server during Stop (see `Lifecycle`).
- Deletions and renames: the code ignores these events.
- `Assemble`, `FetchSingle`, `ParseRateLimit`, `Ping`: not called.
