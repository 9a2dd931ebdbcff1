------------------------------ MODULE NodeSync ------------------------------
(***************************************************************************)
(* One file on one node: the file on disk, the content store, the index,   *)
(* the directory watcher with HandleFileChange behind it, and a Pull from  *)
(* a peer, all working on the same file at the same time.                  *)
(*                                                                         *)
(* A content is the sequence of its chunks, and stands for its own chunk   *)
(* list; contents are compared by the root of module Merkle.  Which of two *)
(* versions wins, and how peers learn of versions, is the matter of module *)
(* Replication: here it is the flag behind.                                *)
(***************************************************************************)
EXTENDS Merkle

CONSTANTS
  Chunk,         \* chunks of the contents that users write
  Hole,          \* a chunk of zeros, where the assembler has not written yet
  Content,       \* the contents users write, here or at the peer
  NoFile,        \* the file is not on disk, not in the index
  Handler,       \* goroutines available to HandleFileChange
  MaxUses,       \* bound: saves and calls of /ingest by the user of this node
  MaxChanges,    \* bound: changes of the peer's version
  MaxRestarts,   \* bound: restarts of the daemon
  PeerReverts,   \* may the peer return to a content it had before?
  SlowAssembly   \* may an assembly outlast the quiet mark (5 s)?

ASSUME NodeSyncAssumption ==
  /\ Content \subseteq Seq(Chunk)
  /\ Hole \notin Chunk
  /\ NoFile \notin Seq(Chunk \cup {Hole})
  /\ MaxUses \in Nat
  /\ MaxChanges \in Nat
  /\ MaxRestarts \in Nat
  /\ PeerReverts \in BOOLEAN
  /\ SlowAssembly \in BOOLEAN

VARIABLES
  disk,      \* the file in the synced directory
  cas,       \* chunks in the content store
  index,     \* the indexed content
  timer,     \* the debounce timer of the path is armed
  own,       \* ... and the last write it saw is the assembler's
  quiet,     \* the path is marked in quietSet, less than 5 s ago
  handler,   \* HandleFileChange, one record per goroutine
  pull,      \* Engine.Pull
  remote,    \* the content the peer has indexed
  had,       \* history: the contents the peer has had
  refused,   \* history: chunks that the store refused to HandleFileChange
  disturbed, \* history: a restart, the mark of a Pull or an error met the last
             \* save of the user before it was indexed
  behind,    \* the peer's version wins against ours
  uses, changes, restarts

local == <<disk, cas, index>>
memory == <<timer, own, quiet, handler, pull>>
bounds == <<uses, changes, restarts>>
peer == <<remote, had>>
history == <<refused, disturbed>>
vars == <<local, memory, peer, behind, history, bounds>>

-----------------------------------------------------------------------------
Block == Chunk \cup {Hole}
File == Seq(Block) \cup {NoFile}
ChunksOf(c) == IF c = NoFile THEN {} ELSE {c[i] : i \in 1..Len(c)}

HandlerState == [pc : {"idle", "read", "compare", "store", "put"}, content : File]

PullState == [pc : {"idle", "diff", "meta", "fetch", "create", "write"},
              local : File,            \* the content we had when the Pull began
              synced : BOOLEAN,        \* diff.IsSynced
              missing : SUBSET Block,  \* chunks still to be fetched
              failed : BOOLEAN,        \* an error is in errChan
              meta : File,             \* remoteMeta
              next : Nat \ {0}]        \* the next chunk to write

HandlerIdle == [pc |-> "idle", content |-> NoFile]
PullIdle == [pc |-> "idle", local |-> NoFile, synced |-> FALSE, missing |-> {},
             failed |-> FALSE, meta |-> NoFile, next |-> 1]

TypeOK ==
  /\ disk \in File
  /\ cas \subseteq Block
  /\ index \in File
  /\ timer \in BOOLEAN /\ own \in BOOLEAN /\ quiet \in BOOLEAN
  /\ handler \in [Handler -> HandlerState]
  /\ pull \in PullState
  /\ remote \in Content \cup {NoFile}
  /\ had \subseteq Content
  /\ refused \subseteq Block
  /\ disturbed \in BOOLEAN
  /\ behind \in BOOLEAN
  /\ uses \in Nat /\ changes \in Nat /\ restarts \in Nat

Init ==
  /\ disk = NoFile
  /\ cas = {}
  /\ index = NoFile
  /\ timer = FALSE /\ own = FALSE /\ quiet = FALSE
  /\ handler = [h \in Handler |-> HandlerIdle]
  /\ pull = PullIdle
  /\ remote = NoFile
  /\ had = {}
  /\ refused = {}
  /\ disturbed = FALSE
  /\ behind = FALSE
  /\ uses = 0 /\ changes = 0 /\ restarts = 0

-----------------------------------------------------------------------------
(***************************************************************************)
(* The surroundings.                                                       *)
(***************************************************************************)

\* The user saves the file in place; the watcher arms the timer or resets it.
UserSaves(c) ==
  /\ uses < MaxUses
  /\ uses' = uses + 1
  /\ disk' = c
  /\ timer' = TRUE
  /\ own' = FALSE
  /\ disturbed' = (quiet \/ pull.pc \in {"create", "write"})
  /\ UNCHANGED <<cas, index, quiet, handler, pull, peer, behind, refused, changes, restarts>>

\* The peer indexes another version, and it wins against ours.
PeerChanges(c) ==
  /\ changes < MaxChanges
  /\ c # remote
  /\ PeerReverts \/ c \notin had
  /\ changes' = changes + 1
  /\ remote' = c
  /\ had' = had \cup {c}
  /\ behind' = TRUE
  /\ UNCHANGED <<local, memory, history, uses, restarts>>

-----------------------------------------------------------------------------
(***************************************************************************)
(* The watcher and HandleFileChange.                                       *)
(***************************************************************************)

\* There is metadata, and it has the root of content c.
SameRoot(known, c) == known # NoFile /\ ComputeRoot(known) = ComputeRoot(c)

SetHandler(h, s) == handler' = [handler EXCEPT ![h] = s]

\* The timer's function: the path is dropped from the timers, then
\* HandleFileChange returns at once if the path is quiet.
Fire(h) ==
  /\ timer
  /\ handler[h].pc = "idle"
  /\ timer' = FALSE
  /\ own' = FALSE
  /\ SetHandler(h, IF quiet THEN HandlerIdle ELSE [HandlerIdle EXCEPT !.pc = "read"])
  /\ UNCHANGED <<local, quiet, pull, peer, behind, history, bounds>>

\* ChunkFile
ReadFile(h) ==
  /\ handler[h].pc = "read"
  /\ SetHandler(h, [pc |-> "compare", content |-> disk])
  /\ UNCHANGED <<local, timer, own, quiet, pull, peer, behind, history, bounds>>

\* The file cannot be read: HandleFileChange logs that and returns.
ReadFails(h) ==
  /\ handler[h].pc = "read"
  /\ SetHandler(h, HandlerIdle)
  /\ disturbed' = (disturbed \/ ~timer)
  /\ UNCHANGED <<local, timer, own, quiet, pull, peer, behind, refused, bounds>>

\* Mutant: the path leaves the timers only now, with the events since.
CompareForgetsEvents(h) ==
  /\ handler[h].pc = "compare"
  /\ SetHandler(h, IF SameRoot(index, handler[h].content)
                     THEN HandlerIdle
                     ELSE [handler[h] EXCEPT !.pc = "store"])
  /\ timer' = FALSE
  /\ own' = FALSE
  /\ UNCHANGED <<local, quiet, pull, peer, behind, history, bounds>>

CompareRoot(h) ==
  /\ handler[h].pc = "compare"
  /\ SetHandler(h, IF SameRoot(index, handler[h].content)
                     THEN HandlerIdle
                     ELSE [handler[h] EXCEPT !.pc = "store"])
  /\ UNCHANGED <<local, timer, own, quiet, pull, peer, behind, history, bounds>>

\* The loop of CAS.Put over the chunks, whose errors (a full disk) are ignored.
StoreChunks(h) ==
  /\ handler[h].pc = "store"
  /\ \E stored \in SUBSET ChunksOf(handler[h].content) : cas' = cas \cup stored
  /\ refused' = refused \cup (ChunksOf(handler[h].content) \ cas')
  /\ SetHandler(h, [handler[h] EXCEPT !.pc = "put"])
  /\ UNCHANGED <<disk, index, timer, own, quiet, pull, peer, behind, disturbed, bounds>>

\* /ingest reads the file whether or not it is quiet and whatever the index has.
Ingest(h) ==
  /\ uses < MaxUses
  /\ uses' = uses + 1
  /\ handler[h].pc = "idle"
  /\ disk # NoFile
  /\ SetHandler(h, [pc |-> "store", content |-> disk])
  /\ UNCHANGED <<local, timer, own, quiet, pull, peer, behind, history, changes, restarts>>

\* nextTS, PutFileMeta: the new version may or may not win against the peer's.
PutLocalMeta(h) ==
  /\ handler[h].pc = "put"
  /\ index' = handler[h].content
  /\ behind' \in {behind, FALSE}
  /\ SetHandler(h, HandlerIdle)
  /\ UNCHANGED <<disk, cas, timer, own, quiet, pull, peer, history, bounds>>

\* The error of PutFileMeta is ignored.
PutFails(h) ==
  /\ handler[h].pc = "put"
  /\ SetHandler(h, HandlerIdle)
  /\ disturbed' = (disturbed \/ handler[h].content = disk)
  /\ UNCHANGED <<local, timer, own, quiet, pull, peer, behind, refused, bounds>>

-----------------------------------------------------------------------------
(***************************************************************************)
(* Engine.Pull.                                                            *)
(***************************************************************************)

\* triggerSync, and the local metadata Pull reads first.  The comparison that led
\* here found the node behind, and may be out of date; POST /sync compares nothing.
PullStart ==
  /\ pull.pc = "idle"
  /\ pull' = [PullIdle EXCEPT !.pc = "diff", !.local = index]
  /\ UNCHANGED <<local, timer, own, quiet, handler, peer, behind, history, bounds>>

\* Mutant: the peer's root is among the hashes to fetch.
PullDiffWithRoot ==
  /\ pull.pc = "diff"
  /\ remote # NoFile
  /\ pull' = [pull EXCEPT !.pc = "meta",
                          !.synced = SameRoot(pull.local, remote),
                          !.missing = (ChunksOf(remote) \ ChunksOf(pull.local)) \cup {remote}]
  /\ UNCHANGED <<local, timer, own, quiet, handler, peer, behind, history, bounds>>

\* DiffMerkleTree: the peer's chunks that we did not list.  We are in sync if we
\* sent a root, which we do if we have metadata, and it is the peer's.
PullDiff ==
  /\ pull.pc = "diff"
  /\ remote # NoFile
  /\ pull' = [pull EXCEPT !.pc = "meta",
                          !.synced = SameRoot(pull.local, remote),
                          !.missing = ChunksOf(remote) \ ChunksOf(pull.local)]
  /\ UNCHANGED <<local, timer, own, quiet, handler, peer, behind, history, bounds>>

\* The peer does not have the file or does not answer Diff or FetchMeta, or the
\* file cannot be created, written or closed, or its metadata not saved.
PullFails ==
  /\ pull.pc \in {"diff", "meta", "create", "write"}
  /\ pull' = PullIdle
  /\ UNCHANGED <<local, timer, own, quiet, handler, peer, behind, history, bounds>>

\* FetchMeta is another request: the peer's version may be another one.
PullMeta ==
  /\ pull.pc = "meta"
  /\ pull' = IF pull.synced
               THEN PullIdle
               ELSE [pull EXCEPT !.pc = "fetch", !.meta = remote]
  /\ UNCHANGED <<local, timer, own, quiet, handler, peer, behind, history, bounds>>

\* One goroutine fetches one chunk.  The error of CAS.Put is ignored.
PullFetch(c) ==
  /\ pull.pc = "fetch"
  /\ c \in pull.missing
  /\ cas' \in {cas, cas \cup {c}}
  /\ pull' = [pull EXCEPT !.missing = @ \ {c}]
  /\ UNCHANGED <<disk, index, timer, own, quiet, handler, peer, behind, history, bounds>>

\* All peers are exhausted for the chunk.
PullFetchFails(c) ==
  /\ pull.pc = "fetch"
  /\ c \in pull.missing
  /\ pull' = [pull EXCEPT !.missing = @ \ {c}, !.failed = TRUE]
  /\ UNCHANGED <<local, timer, own, quiet, handler, peer, behind, history, bounds>>

\* Mutant: the path is not marked.
PullFetchedNotMarked ==
  /\ pull.pc = "fetch"
  /\ pull.missing = {}
  /\ pull' = IF pull.failed THEN PullIdle ELSE [pull EXCEPT !.pc = "create"]
  /\ UNCHANGED <<local, timer, own, quiet, handler, peer, behind, history, bounds>>

\* All goroutines are done: give up, or mark the path quiet.
PullFetched ==
  /\ pull.pc = "fetch"
  /\ pull.missing = {}
  /\ IF pull.failed
       THEN pull' = PullIdle /\ UNCHANGED <<quiet, disturbed>>
       ELSE /\ pull' = [pull EXCEPT !.pc = "create"]
            /\ quiet' = TRUE
            /\ disturbed' = TRUE
  /\ UNCHANGED <<local, timer, own, handler, peer, behind, refused, bounds>>

\* Mutant: the metadata is saved before the file is assembled.
PullCreateIndexFirst ==
  /\ pull.pc = "create"
  /\ index' = pull.meta
  /\ behind' = (remote # pull.meta)
  /\ disk' = [i \in 1..Len(pull.meta) |-> Hole]
  /\ timer' = TRUE
  /\ own' = TRUE
  /\ pull' = [pull EXCEPT !.pc = "write"]
  /\ UNCHANGED <<cas, quiet, handler, peer, history, bounds>>

\* NewSparseFile: the file on disk is replaced by zeros.
PullCreate ==
  /\ pull.pc = "create"
  /\ disk' = [i \in 1..Len(pull.meta) |-> Hole]
  /\ timer' = TRUE
  /\ own' = TRUE
  /\ pull' = [pull EXCEPT !.pc = "write"]
  /\ UNCHANGED <<cas, index, quiet, handler, peer, behind, history, bounds>>

\* c is written at position i of file d, whatever d has become.
WriteAt(d, i, c) ==
  [j \in 1..(IF Len(d) < i THEN i ELSE Len(d)) |->
     IF j = i THEN c ELSE IF j <= Len(d) THEN d[j] ELSE Hole]

\* Mutant: the error of CAS.Get is ignored too.
PullWriteSkipsMissing ==
  /\ pull.pc = "write"
  /\ pull.next <= Len(pull.meta)
  /\ IF pull.meta[pull.next] \in cas
       THEN /\ disk' = WriteAt(disk, pull.next, pull.meta[pull.next])
            /\ timer' = TRUE
            /\ own' = TRUE
       ELSE UNCHANGED <<disk, timer, own>>
  /\ pull' = [pull EXCEPT !.next = @ + 1]
  /\ UNCHANGED <<cas, index, quiet, handler, peer, behind, history, bounds>>

\* CAS.Get and WriteChunk for the next chunk of the fetched chunk list.  A
\* chunk that is not in the store ends the Pull, and the file stays as it is.
PullWrite ==
  /\ pull.pc = "write"
  /\ pull.next <= Len(pull.meta)
  /\ IF pull.meta[pull.next] \in cas
       THEN /\ disk' = WriteAt(disk, pull.next, pull.meta[pull.next])
            /\ timer' = TRUE
            /\ own' = TRUE
            /\ pull' = [pull EXCEPT !.next = @ + 1]
       ELSE pull' = PullIdle /\ UNCHANGED <<disk, timer, own>>
  /\ UNCHANGED <<cas, index, quiet, handler, peer, behind, history, bounds>>

\* Close and PutFileMeta.
PullInstall ==
  /\ pull.pc = "write"
  /\ pull.next > Len(pull.meta)
  /\ index' = pull.meta
  /\ behind' = (remote # pull.meta)
  /\ pull' = PullIdle
  /\ UNCHANGED <<disk, cas, timer, own, quiet, handler, peer, history, bounds>>

\* The mark is 5 s old.  A Pull marks the path right before it writes, and the
\* debounce is 0.3 s, so that unless an assembly is slow the assembler's events
\* have come and gone by then.
QuietExpires ==
  /\ quiet
  /\ SlowAssembly \/ (pull.pc \notin {"create", "write"} /\ ~own)
  /\ quiet' = FALSE
  /\ UNCHANGED <<local, timer, own, handler, pull, peer, behind, history, bounds>>

\* The daemon stops or crashes and starts again: the disk survives.  Start
\* watches the directory and does not look at the files in it.
Restart ==
  /\ restarts < MaxRestarts
  /\ restarts' = restarts + 1
  /\ timer' = FALSE /\ own' = FALSE /\ quiet' = FALSE
  /\ handler' = [h \in Handler |-> HandlerIdle]
  /\ pull' = PullIdle
  /\ disturbed' = TRUE
  /\ UNCHANGED <<local, peer, behind, refused, uses, changes>>

-----------------------------------------------------------------------------
HandlerStep(h) ==
  \/ Fire(h)
  \/ ReadFile(h) \/ ReadFails(h)
  \/ CompareRoot(h)
  \/ StoreChunks(h)
  \/ PutLocalMeta(h) \/ PutFails(h)

PullStep ==
  \/ PullStart
  \/ PullDiff
  \/ PullFails
  \/ PullMeta
  \/ \E c \in pull.missing : PullFetch(c)
  \/ \E c \in pull.missing : PullFetchFails(c)
  \/ PullFetched
  \/ PullCreate
  \/ PullWrite
  \/ PullInstall

Next ==
  \/ \E c \in Content : UserSaves(c)
  \/ \E c \in Content : PeerChanges(c)
  \/ \E h \in Handler : HandlerStep(h) \/ Ingest(h)
  \/ PullStep
  \/ QuietExpires
  \/ Restart

Spec == Init /\ [][Next]_vars

\* A Pull fails although the peer has the file and the store the chunks, or a
\* chunk is not fetched, or not stored.
TransferFails ==
  \/ PullFails /\ remote # NoFile /\ ~PullMeta /\ ~PullWrite
  \/ pull'.failed /\ ~pull.failed
  \/ pull'.missing # pull.missing /\ pull.pc = "fetch" /\ ~(pull.missing \ pull'.missing \subseteq cas')

\* Timers fire, goroutines run, anti-entropy triggers again as long as the node
\* is behind, requests return (Diff has no deadline, and is assumed to), and from
\* some time on transfers succeed.
FairSpec ==
  /\ Spec
  /\ WF_vars(\E h \in Handler : HandlerStep(h))
  /\ WF_vars((behind \/ pull.pc # "idle") /\ PullStep)
  /\ <>[][~TransferFails]_vars

-----------------------------------------------------------------------------
(***************************************************************************)
(* Properties.                                                             *)
(***************************************************************************)

\* What the index lists can be served: every chunk of the indexed version is
\* in the content store, although the chunks that Pull fetches were computed
\* from an older answer of the peer than the chunk list it installs, although
\* the error of CAS.Put is ignored there, and although changes, Pulls and
\* restarts interleave.  The one exception are chunks that the store refused to
\* HandleFileChange, which ignores the error and has no later check.
IndexBacked == ChunksOf(index) \subseteq cas \cup refused

\* The index never lists a file in the middle of its assembly, or one that an
\* interrupted Pull left behind.
WholeVersions == index \in Content \cup {NoFile}

\* Only the events of the assembler's own writes are dropped: the path is
\* marked "so the watcher can ignore the fsnotify events it triggers".  So a save
\* that comes after the last write of a Pull, which has installed its version, is
\* read, although the mark is still there.
IgnoresOnlyOwnEvents ==
  [][\A h \in Handler :
       Fire(h) /\ ~own /\ pull.pc = "idle" /\ index = remote /\ disk # index
         => handler'[h].pc = "read"]_vars

\* A file that is not what the index lists, half assembled or left behind by a
\* Pull that gave up or died, is one that the node is behind with and whose
\* root differs from the peer's: the next Pull does not stop at "in sync", and
\* writes it anew.  (For a peer that does not return to an earlier version.)
DamageIsSeen == disk # index => behind /\ ~SameRoot(index, remote)

\* What the user saved is not lost between the watcher and the index: as long as
\* it is not indexed, the timer is armed or a handler is still to read the file,
\* or has read just that and goes on to index it.  A restart and the mark of a
\* Pull lose what is under way at that moment, an error of reading the file or of
\* writing the index the save it meets, and nothing loses a later save.
SaveIsUnderWay ==
  disk # index /\ ~disturbed =>
    \/ timer
    \/ \E h \in Handler :
         \/ handler[h].pc = "read"
         \/ handler[h].pc # "idle" /\ handler[h].content = disk

Follows == INSTANCE SharedFiles WITH
  Node <- {"self", "peer"},
  File <- {"file"},
  Version <- Content,
  None <- NoFile,
  Writer <- [f \in {"file"} |-> "peer"],
  copy <- [n \in {"self", "peer"} |-> [f \in {"file"} |-> IF n = "self" THEN index ELSE remote]],
  published <- [f \in {"file"} |-> had],
  fetching <- [f \in {"file"} |-> IF index # remote THEN {"self"} ELSE {}]

\* A node whose users do not edit the file has a copy of it as SharedFiles
\* promises one, down to disk, store, timers and marks: its index goes from one
\* version of the peer to another, and never while it is up to date.
SharesFile == Follows!Spec

\* A node whose users do not edit the file ends up with the peer's version, in
\* the index and on disk, whatever Pulls and restarts went wrong on the way.
FollowsPeer == <>[](index = remote /\ disk = remote)

\* A node indexes what its user saved last, whenever the save comes while
\* HandleFileChange is at work on earlier ones and also after Pulls, restarts and
\* errors, unless one of these meets the save before it is indexed.
DiskGetsIndexed == <>[](index = disk \/ disturbed)

=============================================================================
