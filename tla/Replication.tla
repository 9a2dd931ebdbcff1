---------------------------- MODULE Replication ----------------------------
(***************************************************************************)
(* The cluster-level replication protocol of NuSync: local edits stamped   *)
(* with a Lamport clock, announcements gossiped to the peers, the          *)
(* last-writer-wins comparison, the periodic anti-entropy comparison, and  *)
(* the Pull that copies a version from a peer.                             *)
(*                                                                         *)
(* A version of a file is its Merkle root and its timestamp; the chunks    *)
(* behind a root, the content store and the files on disk are the matter   *)
(* of module NodeSync.  Nodes are numbers because the code compares their  *)
(* names.                                                                  *)
(***************************************************************************)
EXTENDS Naturals, FiniteSets

CONSTANTS
  Node,         \* the cluster; the order of the names is the order of numbers
  File,         \* file IDs; none ends in .db, files the daemon leaves alone
  Root,         \* Merkle roots of the contents the users write
  NoRoot,       \* stands for "file not found" in the index
  Editors,      \* Editors[f]: the nodes whose users edit f
  Goroutine,    \* of a node: those that compare its versions with others
  MaxTS,        \* bound: no node stamps a write beyond this timestamp
  Restarting,   \* the nodes whose daemons stop or crash and start again
  MaxRestarts,  \* bound: restarts in a behaviour
  Overlap,      \* the nodes where two changes of a file may be indexed at a time
  ManualSync,   \* the nodes whose users call POST /sync
  IndexErrors,  \* may writing to the index fail (a full disk)?
  GossipLost    \* TRUE: the network drops every announcement

ASSUME ConstantsAssumption ==
  /\ Node \subseteq Nat
  /\ NoRoot \notin Root
  /\ Editors \in [File -> SUBSET Node]
  /\ MaxTS \in Nat
  /\ Restarting \subseteq Node
  /\ MaxRestarts \in Nat
  /\ Overlap \subseteq Node
  /\ ManualSync \subseteq Node
  /\ IndexErrors \in BOOLEAN
  /\ GossipLost \in BOOLEAN

VARIABLES
  clock,      \* clock[n]: the Lamport clock, in memory only
  meta,       \* meta[n][f]: the bbolt index, which survives a restart
  indexing,   \* indexing[n][f]: changes stamped and not yet in the index
  decided,    \* goroutines that have compared, and are to call triggerSync
  pull,       \* pull[n][f]: the Pull goroutine of f; idle = not in d.syncing
  announced,  \* announcements in gossip; each may reach a node never,
              \* once or many times, in any order
  restarts,   \* number of restarts so far
  written     \* history: every version some node stamped

vars == <<clock, meta, indexing, decided, pull, announced, restarts, written>>

-----------------------------------------------------------------------------
Version == [root : Root, ts : Nat]
NoMeta == [root |-> NoRoot, ts |-> 0]
Meta == Version \cup {NoMeta}

Announcement == [file : File, root : Root, ts : Nat, source : Node]
Stamp == [file : File, root : Root, ts : Nat, node : Node]
Decision == [node : Node, by : Goroutine, file : File, ts : Nat]

PullState == [pc : {"idle", "begin", "ask", "meta", "install"},
              peers : SUBSET Node,         \* peers not asked yet
              local : Root \cup {NoRoot},  \* our root when the Pull began
              at : Nat,                    \* the peer that answered the diff
              synced : BOOLEAN,            \* diff.IsSynced
              remote : Meta]               \* the metadata fetched from it

Idle == [pc |-> "idle", peers |-> {}, local |-> NoRoot, at |-> 0,
         synced |-> FALSE, remote |-> NoMeta]

TypeOK ==
  /\ clock \in [Node -> Nat]
  /\ meta \in [Node -> [File -> Meta]]
  /\ indexing \in [Node -> [File -> SUBSET Version]]
  /\ decided \subseteq Decision
  /\ pull \in [Node -> [File -> PullState]]
  /\ announced \subseteq Announcement
  /\ restarts \in Nat
  /\ written \subseteq Stamp

Init ==
  /\ clock = [n \in Node |-> 0]
  /\ meta = [n \in Node |-> [f \in File |-> NoMeta]]
  /\ indexing = [n \in Node |-> [f \in File |-> {}]]
  /\ decided = {}
  /\ pull = [n \in Node |-> [f \in File |-> Idle]]
  /\ announced = {}
  /\ restarts = 0
  /\ written = {}

-----------------------------------------------------------------------------
\* One transaction each.
PutFileMeta(n, f, v) == meta' = [meta EXCEPT ![n][f] = v]

\* What a catalog of p says of f.  A catalog is a snapshot: it may say what p has
\* announced and replaced since.
ListCatalog(p, f) ==
  ({meta[p][f]} \ {NoMeta}) \cup
    {[root |-> a.root, ts |-> a.ts] : a \in {b \in announced : b.file = f /\ b.source = p}}

\* The other members.
GetActivePeers(n) == Node \ {n}

(***************************************************************************)
(* Local edits.                                                            *)
(***************************************************************************)

\* Mutant: the new timestamp is not stored back into the clock.
StampWriteClockKept(n, f, r) ==
  LET ts == clock[n] + 1 IN
  /\ n \in Editors[f]
  /\ n \in Overlap \/ indexing[n][f] = {}
  /\ ts <= MaxTS
  /\ indexing' = [indexing EXCEPT ![n][f] = @ \cup {[root |-> r, ts |-> ts]}]
  /\ written' = written \cup {[file |-> f, root |-> r, ts |-> ts, node |-> n]}
  /\ UNCHANGED <<clock, meta, decided, pull, announced, restarts>>

\* The clock is bumped and the change is on its way to the index.
StampWrite(n, f, r) ==
  LET ts == clock[n] + 1 IN
  /\ n \in Editors[f]
  /\ n \in Overlap \/ indexing[n][f] = {}
  /\ clock[n] < MaxTS
  /\ clock' = [clock EXCEPT ![n] = ts]
  /\ indexing' = [indexing EXCEPT ![n][f] = @ \cup {[root |-> r, ts |-> ts]}]
  /\ written' = written \cup {[file |-> f, root |-> r, ts |-> ts, node |-> n]}
  /\ UNCHANGED <<meta, decided, pull, announced, restarts>>

\* The watcher reported f and its content has root r: nothing happens when
\* the index already has that root.
HandleFileChange(n, f, r) ==
  /\ meta[n][f].root # r
  /\ StampWrite(n, f, r)

\* GET /ingest indexes the file whatever the index says.  A HandleFileChange
\* whose comparison was overtaken by an install of the same root is this
\* action too.
Ingest(n, f, r) == StampWrite(n, f, r)

\* announce and Broadcast: the announcement carries the announcing node's
\* name, not that of the node whose user wrote the version.
Announce(n, f, v) ==
  announced' =
    IF GossipLost
      THEN announced
      ELSE announced \cup
             {[file |-> f, root |-> v.root, ts |-> v.ts, source |-> n]}

\* PutFileMeta and the announcement that follows it, for a stamped change.
\* A crash in between is an announcement that is never delivered.
IndexChange(n, f, v) ==
  /\ v \in indexing[n][f]
  /\ PutFileMeta(n, f, v)
  /\ indexing' = [indexing EXCEPT ![n][f] = @ \ {v}]
  /\ Announce(n, f, v)
  /\ UNCHANGED <<clock, decided, pull, restarts, written>>

\* The error of PutFileMeta is ignored, and the version announced all the same.
IndexFails(n, f, v) ==
  /\ IndexErrors
  /\ v \in indexing[n][f]
  /\ indexing' = [indexing EXCEPT ![n][f] = @ \ {v}]
  /\ Announce(n, f, v)
  /\ UNCHANGED <<clock, meta, decided, pull, restarts, written>>

-----------------------------------------------------------------------------
(***************************************************************************)
(* Learning of remote versions.                                            *)
(***************************************************************************)

\* observeTS: clock = max(clock, remote)
ObserveTS(n, ts) ==
  clock' = [clock EXCEPT ![n] = IF ts > @ THEN ts ELSE @]

\* Mutant: a tie is won by the remote version.
RemoteWinsTies(localTS, localNode, remoteTS, remoteNode) == remoteTS >= localTS

RemoteWins(localTS, localNode, remoteTS, remoteNode) ==
  IF remoteTS # localTS THEN remoteTS > localTS ELSE remoteNode > localNode

\* Mutant: a different root is always fetched.
WantedIfDifferent(n, f, v, src) == meta[n][f].root # v.root

\* The comparison of handleAnnouncement and of reconcileWithPeer: is the
\* version v that src reports for f one that n should fetch?
Wanted(n, f, v, src) ==
  \/ meta[n][f].root = NoRoot
  \/ /\ meta[n][f].root # v.root
     /\ RemoteWins(meta[n][f].ts, n, v.ts, src)

\* A free goroutine g of n has found that n should fetch f.  It holds no lock, and
\* calls triggerSync later, whatever the index has become by then.
Decide(n, g, f, ts) ==
  /\ \A d \in decided : ~(d.node = n /\ d.by = g)
  /\ decided' = decided \cup {[node |-> n, by |-> g, file |-> f, ts |-> ts]}

\* handleAnnouncement observes the timestamp ...
HandleAnnouncement(n, a) ==
  /\ a \in announced
  /\ a.source # n
  /\ ObserveTS(n, a.ts)
  /\ UNCHANGED <<meta, indexing, decided, pull, announced, restarts, written>>

\* ... and goes on to compare.
CompareAnnouncement(n, a, g) ==
  /\ a \in announced
  /\ a.source # n
  /\ a.ts <= clock[n]
  /\ Wanted(n, a.file, a, a.source)
  /\ Decide(n, g, a.file, a.ts)
  /\ UNCHANGED <<clock, meta, indexing, pull, announced, restarts, written>>

\* Mutant: anti-entropy fetches only the files the node lacks.
ReconcileMissingOnly(n, p, f, v, g) ==
  /\ p \in GetActivePeers(n)
  /\ v \in ListCatalog(p, f)
  /\ meta[n][f].root = NoRoot
  /\ Decide(n, g, f, v.ts)
  /\ UNCHANGED <<clock, meta, indexing, pull, announced, restarts, written>>

\* reconcileWithPeer compares an entry of p's catalog ...
ReconcileWithPeer(n, p, f, v, g) ==
  /\ p \in GetActivePeers(n)
  /\ v \in ListCatalog(p, f)
  /\ Wanted(n, f, v, p)
  /\ Decide(n, g, f, v.ts)
  /\ UNCHANGED <<clock, meta, indexing, pull, announced, restarts, written>>

\* ... and observes the timestamp if the entry wins.
ObserveEntry(d) ==
  /\ d \in decided
  /\ ObserveTS(d.node, d.ts)
  /\ UNCHANGED <<meta, indexing, decided, pull, announced, restarts, written>>

\* triggerSync: at most one Pull per file, later triggers are dropped.  The
\* Pull asks the peers one by one in the order of the member list, which
\* memberlist shuffles; a peer missing from the list is one that fails to
\* answer.
TriggerSync(n, f) ==
  pull' = IF pull[n][f].pc = "idle"
            THEN [pull EXCEPT ![n][f] =
                    [Idle EXCEPT !.pc = "begin", !.peers = GetActivePeers(n)]]
            ELSE pull

\* What was decided is done: nothing is compared again.
ActOn(d) ==
  /\ d \in decided
  /\ d.ts <= clock[d.node]
  /\ decided' = decided \ {d}
  /\ TriggerSync(d.node, d.file)
  /\ UNCHANGED <<clock, meta, indexing, announced, restarts, written>>

\* POST /sync goes straight to triggerSync.
SyncRequest(n, f) ==
  /\ n \in ManualSync
  /\ TriggerSync(n, f)
  /\ UNCHANGED <<clock, meta, indexing, decided, announced, restarts, written>>

-----------------------------------------------------------------------------
(***************************************************************************)
(* Engine.Pull.                                                            *)
(***************************************************************************)

SetPull(n, f, s) ==
  /\ pull' = [pull EXCEPT ![n][f] = s]
  /\ UNCHANGED <<clock, indexing, decided, restarts, written>>

\* Pull reads our own metadata, once.
PullBegin(n, f) ==
  /\ pull[n][f].pc = "begin"
  /\ SetPull(n, f, [pull[n][f] EXCEPT !.pc = "ask", !.local = meta[n][f].root])
  /\ UNCHANGED <<meta, announced>>

\* Mutant: the peer answers for a file it does not have.
PullDiffAnyPeer(n, f, p) ==
  /\ pull[n][f].pc = "ask"
  /\ p \in pull[n][f].peers
  /\ SetPull(n, f, [pull[n][f] EXCEPT
                      !.pc = "meta",
                      !.peers = @ \ {p},
                      !.at = p,
                      !.synced = (meta[p][f].root = pull[n][f].local)])
  /\ UNCHANGED <<meta, announced>>

\* DiffMerkleTree at a peer that has the file.
PullDiff(n, f, p) ==
  /\ pull[n][f].pc = "ask"
  /\ p \in pull[n][f].peers
  /\ meta[p][f].root # NoRoot
  /\ SetPull(n, f, [pull[n][f] EXCEPT
                      !.pc = "meta",
                      !.peers = @ \ {p},
                      !.at = p,
                      !.synced = (meta[p][f].root = pull[n][f].local)])
  /\ UNCHANGED <<meta, announced>>

\* The peer is unreachable, refuses, times out or does not have the file.
PullSkip(n, f, p) ==
  /\ pull[n][f].pc = "ask"
  /\ p \in pull[n][f].peers
  /\ SetPull(n, f, [pull[n][f] EXCEPT !.peers = @ \ {p}])
  /\ UNCHANGED <<meta, announced>>

\* FetchMeta at the peer that answered the diff, whose index may have changed
\* since.  The answer of the diff decides whether there is anything to do.
\* What the rest of Pull does not read again is reset.
PullFetchMeta(n, f) ==
  /\ pull[n][f].pc = "meta"
  /\ SetPull(n, f, IF pull[n][f].synced
                     THEN Idle
                     ELSE [Idle EXCEPT !.pc = "install",
                                       !.remote = meta[pull[n][f].at][f]])
  /\ UNCHANGED <<meta, announced>>

PullFetchMetaFails(n, f) ==
  /\ pull[n][f].pc = "meta"
  /\ SetPull(n, f, [pull[n][f] EXCEPT !.pc = "ask", !.at = 0, !.synced = FALSE])
  /\ UNCHANGED <<meta, announced>>

\* Mutant: the fetched content is stamped with our own clock.
PullInstallRestamped(n, f) ==
  LET v == [pull[n][f].remote EXCEPT !.ts = clock[n]] IN
  /\ pull[n][f].pc = "install"
  /\ PutFileMeta(n, f, v)
  /\ Announce(n, f, v)
  /\ SetPull(n, f, Idle)

\* The chunks are in the content store and the file is assembled: the fetched
\* metadata replaces ours, and is announced under our name.
PullInstall(n, f) ==
  /\ pull[n][f].pc = "install"
  /\ PutFileMeta(n, f, pull[n][f].remote)
  /\ Announce(n, f, pull[n][f].remote)
  /\ SetPull(n, f, Idle)

\* No peer had the file, a chunk is unavailable, or the assembly failed.
PullFails(n, f) ==
  /\ \/ pull[n][f].pc = "ask" /\ pull[n][f].peers = {}
     \/ pull[n][f].pc = "install"
  /\ SetPull(n, f, Idle)
  /\ UNCHANGED <<meta, announced>>

-----------------------------------------------------------------------------
\* The daemon stops, or crashes, and is started again: only the index is on
\* disk, and NewDaemon starts the clock at zero.
Restart(n) ==
  /\ n \in Restarting
  /\ restarts < MaxRestarts
  /\ restarts' = restarts + 1
  /\ clock' = [clock EXCEPT ![n] = 0]
  /\ indexing' = [indexing EXCEPT ![n] = [f \in File |-> {}]]
  /\ decided' = {d \in decided : d.node # n}
  /\ pull' = [pull EXCEPT ![n] = [f \in File |-> Idle]]
  /\ UNCHANGED <<meta, announced, written>>

PullStep(n, f) ==
  \/ PullBegin(n, f)
  \/ \E p \in Node : PullDiff(n, f, p)
  \/ \E p \in Node : PullSkip(n, f, p)
  \/ PullFetchMeta(n, f)
  \/ PullFetchMetaFails(n, f)
  \/ PullInstall(n, f)
  \/ PullFails(n, f)

AntiEntropy(n, f) ==
  \E p \in Node, g \in Goroutine : \E v \in ListCatalog(p, f) : ReconcileWithPeer(n, p, f, v, g)

FileStep(n, f) ==
  \/ \E r \in Root : HandleFileChange(n, f, r)
  \/ \E r \in Root : Ingest(n, f, r)
  \/ \E v \in indexing[n][f] : IndexChange(n, f, v)
  \/ \E v \in indexing[n][f] : IndexFails(n, f, v)
  \/ AntiEntropy(n, f)
  \/ SyncRequest(n, f)
  \/ PullStep(n, f)

Next ==
  \/ \E n \in Node, f \in File : FileStep(n, f)
  \/ \E n \in Node, a \in announced : HandleAnnouncement(n, a)
  \/ \E n \in Node, a \in announced, g \in Goroutine : CompareAnnouncement(n, a, g)
  \/ \E d \in decided : ObserveEntry(d)
  \/ \E d \in decided : ActOn(d)
  \/ \E n \in Node : Restart(n)

Spec == Init /\ [][Next]_vars

(***************************************************************************)
(* Fairness.  The watcher's goroutines run; the anti-entropy ticker, the   *)
(* goroutines that have decided and the Pull of a node keep going (weak    *)
(* fairness); that includes that a peer's Diff returns, which has no       *)
(* deadline.  The order in which a Pull asks the peers is that of          *)
(* memberlist's shuffled list, whatever they hold and whatever else is     *)
(* under way, so an editor that could be asked first again and again is    *)
(* asked first some day: by a node that has another content, and by one    *)
(* that is level and has k more triggers to come (strong fairness).  From  *)
(* some time on the peers answer and transfers succeed.  Nothing is        *)
(* assumed of gossip or of the users.                                      *)
(***************************************************************************)
Undone(n, f) == {d \in decided : d.node = n /\ d.file = f}

SyncWork(n, f) ==
  AntiEntropy(n, f) \/ \E d \in Undone(n, f) : ObserveEntry(d) \/ ActOn(d)

TransferFails(n, f) ==
  \/ \E p \in Node : meta[p][f].root # NoRoot /\ PullSkip(n, f, p)
  \/ PullFetchMetaFails(n, f)
  \/ pull[n][f].pc = "install" /\ PullFails(n, f)

Fairness ==
  /\ WF_vars(\E n \in Node, f \in File : \E v \in indexing[n][f] : IndexChange(n, f, v))
  /\ \A n \in Node, f \in File : WF_vars(SyncWork(n, f)) /\ WF_vars(PullStep(n, f))
  /\ \A n \in Node, f \in File : \A p \in Editors[f] \ {n} :
       /\ SF_vars(PullDiff(n, f, p) /\ meta[p][f].root # pull[n][f].local)
       /\ \A k \in 0..Cardinality(Goroutine) :
            SF_vars(PullDiff(n, f, p) /\ meta[p][f] = meta[n][f] /\ Cardinality(Undone(n, f)) = k)
  /\ <>[][\A n \in Node, f \in File : ~TransferFails(n, f)]_vars

FairSpec == Spec /\ Fairness

-----------------------------------------------------------------------------
(***************************************************************************)
(* Properties.                                                             *)
(***************************************************************************)

Stamped(f, v) == \E s \in written : s.file = f /\ s.root = v.root /\ s.ts = v.ts

\* Every version a node has indexed is one that some node's user wrote, with
\* the timestamp it was stamped with there: Pull re-indexes and re-announces
\* what it fetched unchanged, although the diff and the metadata come from
\* two requests between which the peer may have moved on.
NoInventedVersion ==
  \A n \in Node, f \in File :
    meta[n][f] # NoMeta => Stamped(f, meta[n][f])

\* Of two nodes with different contents of a file, exactly one fetches the
\* other's when they compare, whatever clocks restarts have set back: they never
\* just swap, and never both keep what they have.
OneOfTwoFetches ==
  \A f \in File : \A n, m \in {k \in Node : meta[k][f].root # NoRoot} :
    meta[n][f].root # meta[m][f].root =>
      (Wanted(n, f, meta[m][f], m) <=> ~Wanted(m, f, meta[n][f], n))

\* w alone edits f, and its daemon, and so its clock, keeps running.
SoleEditor(w, f) == Editors[f] = {w} /\ w \notin Restarting

\* For a file that one node edits, a timestamp names one content: two nodes
\* that index the file with equal timestamps index equal roots, so that the
\* tie-break of remoteWins by node name never decides between two contents.
SameTimestampSameRoot ==
  \A f \in File : (\E w \in Node : SoleEditor(w, f)) =>
    \A n, m \in Node : meta[n][f].ts = meta[m][f].ts => meta[n][f] = meta[m][f]

\* What the sole editor of a file writes next gets a timestamp above that of
\* every copy and of every announcement of the file in the cluster.
NextWriteIsNewest ==
  \A f \in File, w \in Node : SoleEditor(w, f) =>
    /\ \A n \in Node : meta[n][f].ts <= clock[w]
    /\ \A a \in announced : a.file = f => a.ts <= clock[w]

\* The node that alone edits a file never has its copy replaced by a Pull:
\* remoteWins lets no peer's version of the file win there.
SoleEditorKeepsCopy ==
  [][\A f \in File, w \in Node :
       SoleEditor(w, f) /\ meta'[w][f] # meta[w][f]
         => meta'[w][f] \in indexing[w][f]]_vars

\* n has the version of f that w has, and has not set out to fetch another.
SetOut(n, f) == pull[n][f].pc # "idle" \/ Undone(n, f) # {}
Settled(n, w, f) == meta[n][f] = meta[w][f] /\ ~SetOut(n, f)

\* A node that is level with the sole editor of a file and is not fetching it
\* leaves it alone until the editor indexes another version, whatever old
\* announcements and catalogs reach it.  (A node that becomes level while one of
\* its goroutines has compared and not yet called triggerSync fetches once more,
\* and may be given an older version by a third node.)
SettledCopySticks ==
  [][\A f \in File, n, w \in Node :
       SoleEditor(w, f) /\ Settled(n, w, f) /\ meta'[w][f] = meta[w][f]
         => Settled(n, w, f)']_vars

\* A node whose content of a file is not that of its sole editor would fetch
\* the editor's: whatever gossip lost and whichever Pull failed before, the
\* next comparison with the editor's catalog sees that the node is behind.
LaggardsWant ==
  \A f \in File, n, w \in Node :
    SoleEditor(w, f) /\ meta[n][f].root # meta[w][f].root
      => Wanted(n, f, meta[w][f], w)

\* The versions of f that its sole editor has indexed.
Published(f) ==
  {[root |-> s.root, ts |-> s.ts] : s \in {t \in written : t.file = f}}
    \ UNION {indexing[n][f] : n \in Node}

\* What a user's change can be stamped as, and the node whose changes count.
StampedVersion == [root : Root, ts : 1..MaxTS]

WriterOf == [f \in File |-> CHOOSE w \in Node : SoleEditor(w, f)]

Shared == INSTANCE SharedFiles WITH
  Version <- StampedVersion,
  None <- NoMeta,
  Writer <- WriterOf,
  copy <- meta,
  published <- [f \in File |-> Published(f)],
  fetching <- [f \in File |-> {n \in Node : SetOut(n, f)}]

\* If one node edits each file, the cluster implements the files of
\* SharedFiles: clocks, gossip, anti-entropy and Pulls only ever move copies
\* of published versions, and no node sets out to fetch when it is up to date.
SharesFiles == Shared!Spec

\* Once the sole editor of a file stops editing, all nodes come to index its
\* content and keep it, whatever gossip loses: anti-entropy is enough.
SoleEditorConverges ==
  \A f \in File, w \in Node :
    SoleEditor(w, f) => <>[](\A n \in Node : meta[n][f].root = meta[w][f].root)

-----------------------------------------------------------------------------
(***************************************************************************)
(* What the documentation says and the code does not do; each of these is  *)
(* the property of a run that exhibits the difference.                     *)
(***************************************************************************)

\* "the higher timestamp wins": what a node indexes for a file never gets a
\* lower timestamp.
HigherTimestampWins ==
  [][\A n \in Node, f \in File : meta'[n][f].ts >= meta[n][f].ts]_vars

\* "ties are broken deterministically by node name, so every node in the
\* cluster converges on the same result independently": of two nodes that have
\* the same version of a file, neither wants another version when the other
\* does not, whoever offers it.
TiesBrokenAlike ==
  \A f \in File, n, k \in Node : meta[n][f] = meta[k][f] =>
    \A m, l \in Node : meta[m][f] = meta[l][f] =>
      (Wanted(n, f, meta[m][f], m) <=> Wanted(k, f, meta[l][f], l))

=============================================================================
