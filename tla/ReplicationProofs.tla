------------------------- MODULE ReplicationProofs -------------------------
(***************************************************************************)
(* Proofs about Replication, for every cluster, every set of files and     *)
(* every bound.                                                            *)
(***************************************************************************)
EXTENDS Replication, TLAPS

USE DEF PutFileMeta, GetActivePeers

(***************************************************************************)
(* Types.  TypeOK is not inductive: that an announcement carries a real    *)
(* root rests on what Pull knows of its peer at each stage.                *)
(***************************************************************************)
PullWF ==
  \A n \in Node, f \in File :
    /\ pull[n][f].pc = "meta" =>
         pull[n][f].at \in Node /\ meta[pull[n][f].at][f] \in Version
    /\ pull[n][f].pc = "install" => pull[n][f].remote \in Version

TypeInv == TypeOK /\ PullWF

\* A Pull that has not begun is a well-typed Pull state.
LEMMA IdleType == Idle \in PullState /\ Idle.pc = "idle"
BY ConstantsAssumption DEF Idle, PullState, Meta, NoMeta

\* What the index holds is a version unless the file is absent from it.
LEMMA MetaType ==
  ASSUME NEW m \in Meta
  PROVE  /\ m.root \in Root \cup {NoRoot}
         /\ m.ts \in Nat
         /\ m.root # NoRoot <=> m \in Version
         /\ m.root = NoRoot <=> m = NoMeta
BY ConstantsAssumption DEF Meta, NoMeta, Version

\* Announcing a version keeps the announcements well-typed.
LEMMA AnnounceType ==
  ASSUME announced \subseteq Announcement, NEW n \in Node, NEW f \in File,
         NEW v \in Version, Announce(n, f, v)
  PROVE  announced' \subseteq Announcement
BY DEF Announce, Announcement, Version

\* Replacing one node's Pull state for one file by a well-formed one, while no
\* index entry disappears, keeps all Pull states well-formed.
LEMMA SetPullWF ==
  ASSUME TypeInv, NEW n \in Node, NEW f \in File, NEW s \in PullState,
         pull' = [pull EXCEPT ![n][f] = s],
         s.pc = "meta" => s.at \in Node /\ meta'[s.at][f] \in Version,
         s.pc = "install" => s.remote \in Version,
         \A m \in Node, g \in File : meta[m][g] \in Version => meta'[m][g] \in Version
  PROVE  pull' \in [Node -> [File -> PullState]] /\ PullWF'
<1>1. pull \in [Node -> [File -> PullState]]
  BY DEF TypeInv, TypeOK
<1>2. pull' \in [Node -> [File -> PullState]]
  BY <1>1
<1>3. ASSUME NEW m \in Node, NEW g \in File
      PROVE  pull'[m][g] = IF m = n /\ g = f THEN s ELSE pull[m][g]
  BY <1>1
<1>4. PullWF'
  BY <1>3 DEF TypeInv, PullWF
<1> QED
  BY <1>2, <1>4

\* No change to Pull states, and no index entry disappears.
LEMMA SamePullWF ==
  ASSUME TypeInv, pull' = pull,
         \A m \in Node, g \in File : meta[m][g] \in Version => meta'[m][g] \in Version
  PROVE  pull' \in [Node -> [File -> PullState]] /\ PullWF'
BY DEF TypeInv, TypeOK, PullWF

\* One index entry is replaced by a version.
LEMMA SetMeta ==
  ASSUME TypeOK, NEW n \in Node, NEW f \in File, NEW v \in Version,
         meta' = [meta EXCEPT ![n][f] = v]
  PROVE  /\ meta' \in [Node -> [File -> Meta]]
         /\ \A m \in Node, g \in File : meta[m][g] \in Version => meta'[m][g] \in Version
         /\ \A m \in Node, g \in File :
              meta'[m][g] = IF m = n /\ g = f THEN v ELSE meta[m][g]
<1>1. meta \in [Node -> [File -> Meta]] /\ v \in Meta
  BY DEF TypeOK, Meta
<1> QED
  BY <1>1

\* triggerSync keeps the Pull states well-formed.
LEMMA TriggerSyncWF ==
  ASSUME TypeInv, NEW n \in Node, NEW f \in File, TriggerSync(n, f), meta' = meta
  PROVE  pull' \in [Node -> [File -> PullState]] /\ PullWF'
<1> DEFINE s == [Idle EXCEPT !.pc = "begin", !.peers = Node \ {n}]
<1>1. CASE pull[n][f].pc = "idle"
  <2>1. s \in PullState /\ s.pc = "begin"
    BY IdleType, Zenon DEF PullState
  <2>2. pull' = [pull EXCEPT ![n][f] = s]
    BY <1>1 DEF TriggerSync
  <2> HIDE DEF s
  <2> QED
    BY <2>1, <2>2, SetPullWF, Zenon
<1>2. CASE pull[n][f].pc # "idle"
  <2>1. pull' = pull
    BY <1>2 DEF TriggerSync
  <2> QED
    BY <2>1, SamePullWF
<1> QED
  BY <1>1, <1>2

\* Observing a timestamp keeps the clocks well-typed.
LEMMA ObserveTSType ==
  ASSUME clock \in [Node -> Nat], NEW n \in Node, NEW ts \in Nat, ObserveTS(n, ts)
  PROVE  clock' \in [Node -> Nat]
BY DEF ObserveTS

\* What a comparison does, whether of an announcement or of a catalog: src holds
\* v or has announced it, and if it wins, that is remembered.
Compares(n, f, v, src, g) ==
  /\ src \in Node \ {n}
  /\ \/ v = meta[src][f] /\ v # NoMeta
     \/ \E a \in announced : a.file = f /\ a.source = src /\ a.root = v.root /\ a.ts = v.ts
  /\ Wanted(n, f, v, src)
  /\ Decide(n, g, f, v.ts)
  /\ UNCHANGED <<clock, meta, indexing, pull, announced, restarts, written>>

\* Both comparisons are such a step.
LEMMA CompareEffect ==
  ASSUME TypeOK, NEW n \in Node, NEW g \in Goroutine
  PROVE  /\ \A a \in announced :
              CompareAnnouncement(n, a, g) => Compares(n, a.file, a, a.source, g)
         /\ \A p \in Node, f \in File : \A v \in ListCatalog(p, f) :
              ReconcileWithPeer(n, p, f, v, g) => Compares(n, f, v, p, g)
<1>1. ASSUME NEW a \in announced, CompareAnnouncement(n, a, g)
      PROVE  Compares(n, a.file, a, a.source, g)
  <2>1. a.source \in Node
    BY DEF TypeOK, Announcement
  <2> QED
    BY <1>1, <2>1 DEF CompareAnnouncement, Compares
<1>2. ASSUME NEW p \in Node, NEW f \in File, NEW v \in ListCatalog(p, f),
             ReconcileWithPeer(n, p, f, v, g)
      PROVE  Compares(n, f, v, p, g)
  <2>1. \/ v = meta[p][f] /\ v # NoMeta
        \/ \E a \in announced : a.file = f /\ a.source = p /\ v = [root |-> a.root, ts |-> a.ts]
    BY DEF ListCatalog
  <2>2. \/ v = meta[p][f] /\ v # NoMeta
        \/ \E a \in announced : a.file = f /\ a.source = p /\ a.root = v.root /\ a.ts = v.ts
    BY <2>1
  <2>3. /\ p # n /\ Wanted(n, f, v, p) /\ Decide(n, g, f, v.ts)
        /\ UNCHANGED <<clock, meta, indexing, pull, announced, restarts, written>>
    BY <1>2 DEF ReconcileWithPeer
  <2> QED
    BY <2>2, <2>3 DEF Compares
<1> QED
  BY <1>1, <1>2

\* A comparison remembers a well-typed decision.
LEMMA DecisionType ==
  ASSUME TypeOK, NEW n \in Node, NEW f \in File, NEW v, NEW src, NEW g \in Goroutine,
         Compares(n, f, v, src, g)
  PROVE  v.ts \in Nat /\ decided' \subseteq Decision
<1>1. v.ts \in Nat
  <2>1. CASE v = meta[src][f]
    BY <2>1, MetaType DEF Compares, TypeOK
  <2>2. CASE \E a \in announced : a.ts = v.ts
    BY <2>2 DEF TypeOK, Announcement
  <2> QED
    BY <2>1, <2>2 DEF Compares
<1>2. [node |-> n, by |-> g, file |-> f, ts |-> v.ts] \in Decision
  BY <1>1 DEF Decision
<1> QED
  BY <1>1, <1>2 DEF Compares, Decide, TypeOK

\* What a step of Pull does, seen from outside: either it installs the version
\* it fetched, or it leaves the index alone and knows no more than what a
\* peer's index holds now.
PullInstalls(n, f, s) ==
  /\ pull[n][f].pc = "install"
  /\ s = Idle
  /\ meta' = [meta EXCEPT ![n][f] = pull[n][f].remote]
  /\ Announce(n, f, pull[n][f].remote)

PullMove(n, f, s) ==
  /\ UNCHANGED <<clock, indexing, decided, restarts, written>>
  /\ pull[n][f].pc # "idle"
  /\ pull' = [pull EXCEPT ![n][f] = s]
  /\ s.pc = "meta" => s.at \in Node /\ meta[s.at][f] \in Version
  /\ s.pc = "install" =>
       \E p \in Node : meta[p][f] \in Version /\ s.remote = meta[p][f]
  /\ UNCHANGED <<meta, announced>> \/ PullInstalls(n, f, s)

\* Every statement of Pull is such a move.
LEMMA PullEffect ==
  ASSUME TypeInv, NEW n \in Node, NEW f \in File, PullStep(n, f)
  PROVE  \E s \in PullState : PullMove(n, f, s)
<1> DEFINE q == pull[n][f]
<1>0. q \in PullState /\ \A m \in Node : meta[m][f] \in Meta
  BY DEF TypeInv, TypeOK
<1>1. CASE PullBegin(n, f)
  <2> DEFINE s == [q EXCEPT !.pc = "ask", !.local = meta[n][f].root]
  <2>1. s \in PullState /\ s.pc = "ask"
    BY <1>0, MetaType, Zenon DEF PullState
  <2>2. SetPull(n, f, s) /\ UNCHANGED <<meta, announced>> /\ q.pc = "begin"
    BY <1>1 DEF PullBegin
  <2> HIDE DEF s
  <2> QED
    BY <2>1, <2>2, Zenon DEF PullMove, SetPull
<1>2. ASSUME NEW p \in Node, PullDiff(n, f, p)
      PROVE  \E s \in PullState : PullMove(n, f, s)
  <2> DEFINE s == [q EXCEPT !.pc = "meta", !.peers = @ \ {p}, !.at = p,
                            !.synced = (meta[p][f].root = q.local)]
  <2>1. s \in PullState /\ s.at = p
    BY <1>0, ConstantsAssumption, Zenon DEF PullState
  <2>2. SetPull(n, f, s) /\ UNCHANGED <<meta, announced>> /\ q.pc = "ask"
    BY <1>2 DEF PullDiff
  <2>3. meta[p][f] \in Version
    BY <1>2, <1>0, MetaType DEF PullDiff
  <2>4. s.pc = "meta"
    BY <1>0 DEF PullState
  <2> HIDE DEF s
  <2> QED
    BY <2>1, <2>2, <2>3, <2>4, Zenon DEF PullMove, SetPull
<1>3. ASSUME NEW p \in Node, PullSkip(n, f, p)
      PROVE  \E s \in PullState : PullMove(n, f, s)
  <2> DEFINE s == [q EXCEPT !.peers = @ \ {p}]
  <2>1. s \in PullState /\ s.pc = q.pc
    BY <1>0 DEF PullState
  <2>2. SetPull(n, f, s) /\ UNCHANGED <<meta, announced>> /\ q.pc = "ask"
    BY <1>3 DEF PullSkip
  <2> HIDE DEF s
  <2> QED
    BY <2>1, <2>2, Zenon DEF PullMove, SetPull
<1>4. CASE PullFetchMeta(n, f)
  <2> DEFINE s == [Idle EXCEPT !.pc = "install", !.remote = meta[q.at][f]]
  <2>1. UNCHANGED <<meta, announced>> /\ q.pc = "meta"
    BY <1>4 DEF PullFetchMeta
  <2>2. SetPull(n, f, Idle) \/ SetPull(n, f, s)
    BY <1>4 DEF PullFetchMeta
  <2>3. q.at \in Node /\ meta[q.at][f] \in Version
    BY <2>1 DEF TypeInv, PullWF
  <2>4. s \in PullState /\ s.pc = "install" /\ s.remote = meta[q.at][f]
    BY <2>3, IdleType, Zenon DEF PullState, Meta
  <2> HIDE DEF s
  <2>5. CASE SetPull(n, f, Idle)
    BY <2>1, <2>5, IdleType, Zenon DEF PullMove, SetPull
  <2>6. CASE SetPull(n, f, s)
    BY <2>1, <2>3, <2>4, <2>6, Zenon DEF PullMove, SetPull
  <2> QED
    BY <2>2, <2>5, <2>6
<1>5. CASE PullFetchMetaFails(n, f)
  <2> DEFINE s == [q EXCEPT !.pc = "ask", !.at = 0, !.synced = FALSE]
  <2>1. s \in PullState /\ s.pc = "ask"
    BY <1>0, Zenon DEF PullState
  <2>2. SetPull(n, f, s) /\ UNCHANGED <<meta, announced>> /\ q.pc = "meta"
    BY <1>5 DEF PullFetchMetaFails
  <2> HIDE DEF s
  <2> QED
    BY <2>1, <2>2, Zenon DEF PullMove, SetPull
<1>6. CASE PullInstall(n, f)
  BY <1>6, IdleType, Zenon DEF PullInstall, PullInstalls, PullMove, SetPull
<1>7. CASE PullFails(n, f)
  BY <1>7, IdleType, Zenon DEF PullFails, PullMove, SetPull
<1> QED
  BY <1>1, <1>2, <1>3, <1>4, <1>5, <1>6, <1>7 DEF PullStep

\* Each operation of the code keeps the types.
LEMMA TypeStep == TypeInv /\ [Next]_vars => TypeInv'
<1> SUFFICES ASSUME TypeInv, [Next]_vars
             PROVE  TypeInv'
  OBVIOUS
<1> USE DEF TypeInv
<1>t. TypeOK /\ PullWF
  OBVIOUS
<1>m. \A n \in Node, f \in File : meta[n][f] \in Meta /\ pull[n][f] \in PullState
  BY DEF TypeOK
<1>1. ASSUME NEW n \in Node, NEW f \in File, NEW r \in Root, StampWrite(n, f, r)
      PROVE  TypeInv'
  <2> DEFINE v == [root |-> r, ts |-> clock[n] + 1]
  <2>1. clock[n] + 1 \in Nat /\ v \in Version
    BY DEF TypeOK, Version
  <2>2. /\ pull' = pull /\ meta' = meta /\ announced' = announced /\ restarts' = restarts
        /\ decided' = decided
    BY <1>1 DEF StampWrite
  <2>3. clock' \in [Node -> Nat]
    BY <1>1, <2>1 DEF StampWrite, TypeOK
  <2>4. indexing' \in [Node -> [File -> SUBSET Version]]
    <3>1. indexing' = [indexing EXCEPT ![n][f] = @ \cup {v}]
      BY <1>1 DEF StampWrite
    <3> HIDE DEF v
    <3> QED
      BY <2>1, <3>1 DEF TypeOK
  <2>5. written' \subseteq Stamp
    BY <1>1, <2>1 DEF StampWrite, TypeOK, Stamp
  <2>6. PullWF'
    BY <2>2, SamePullWF
  <2> QED
    BY <2>2, <2>3, <2>4, <2>5, <2>6 DEF TypeOK
<1>2. ASSUME NEW n \in Node, NEW f \in File, NEW v \in indexing[n][f], IndexChange(n, f, v)
      PROVE  TypeInv'
  <2>1. v \in Version
    BY DEF TypeOK
  <2>2. meta' = [meta EXCEPT ![n][f] = v]
    BY <1>2 DEF IndexChange
  <2>3. /\ meta' \in [Node -> [File -> Meta]]
        /\ \A m \in Node, g \in File : meta[m][g] \in Version => meta'[m][g] \in Version
    BY <2>1, <2>2, SetMeta, Zenon
  <2>4. announced' \subseteq Announcement
    BY <1>2, <2>1, AnnounceType DEF IndexChange, TypeOK
  <2>5. /\ pull' = pull /\ clock' = clock /\ restarts' = restarts /\ written' = written
        /\ decided' = decided
    BY <1>2 DEF IndexChange
  <2>6. PullWF'
    BY <2>3, <2>5, SamePullWF
  <2>7. indexing' \in [Node -> [File -> SUBSET Version]]
    BY <1>2 DEF IndexChange, TypeOK
  <2> QED
    BY <2>3, <2>4, <2>5, <2>6, <2>7 DEF TypeOK
<1>3. ASSUME NEW n \in Node, NEW a \in announced, HandleAnnouncement(n, a)
      PROVE  TypeInv'
  <2>1. a.ts \in Nat
    BY DEF TypeOK, Announcement
  <2>2. clock' \in [Node -> Nat]
    BY <1>3, <2>1, ObserveTSType DEF HandleAnnouncement, TypeOK
  <2>3. /\ meta' = meta /\ indexing' = indexing /\ announced' = announced /\ pull' = pull
        /\ decided' = decided /\ restarts' = restarts /\ written' = written
    BY <1>3 DEF HandleAnnouncement
  <2> QED
    BY <2>2, <2>3, SamePullWF DEF TypeOK
<1>4. ASSUME NEW n \in Node, NEW f \in File, NEW v, NEW src, NEW g \in Goroutine,
             Compares(n, f, v, src, g)
      PROVE  TypeInv'
  <2>1. decided' \subseteq Decision
    BY <1>4, DecisionType
  <2>2. /\ meta' = meta /\ indexing' = indexing /\ announced' = announced /\ pull' = pull
        /\ clock' = clock /\ restarts' = restarts /\ written' = written
    BY <1>4 DEF Compares
  <2> QED
    BY <2>1, <2>2, SamePullWF DEF TypeOK
<1>c. ASSUME NEW n \in Node, NEW a \in announced, NEW g \in Goroutine, CompareAnnouncement(n, a, g)
      PROVE  TypeInv'
  <2>1. a.file \in File
    BY DEF TypeOK, Announcement
  <2> QED
    BY <1>4, <1>c, <2>1, CompareEffect
<1>r. ASSUME NEW n \in Node, NEW f \in File, AntiEntropy(n, f)
      PROVE  TypeInv'
  BY <1>4, <1>r, CompareEffect DEF AntiEntropy
<1>o. ASSUME NEW d \in decided, ObserveEntry(d)
      PROVE  TypeInv'
  <2>1. d.node \in Node /\ d.ts \in Nat
    BY DEF TypeOK, Decision
  <2>2. clock' \in [Node -> Nat]
    BY <1>o, <2>1, ObserveTSType DEF ObserveEntry, TypeOK
  <2>3. /\ meta' = meta /\ indexing' = indexing /\ announced' = announced /\ pull' = pull
        /\ decided' = decided /\ restarts' = restarts /\ written' = written
    BY <1>o DEF ObserveEntry
  <2> QED
    BY <2>2, <2>3, SamePullWF DEF TypeOK
<1>d. ASSUME NEW d \in decided, ActOn(d)
      PROVE  TypeInv'
  <2>1. d.node \in Node /\ d.file \in File
    BY DEF TypeOK, Decision
  <2>2. /\ meta' = meta /\ indexing' = indexing /\ announced' = announced /\ clock' = clock
        /\ decided' \subseteq decided /\ restarts' = restarts /\ written' = written
        /\ TriggerSync(d.node, d.file)
    BY <1>d DEF ActOn
  <2> QED
    BY <2>1, <2>2, TriggerSyncWF DEF TypeOK
<1>5. ASSUME NEW n \in Node, NEW f \in File, SyncRequest(n, f)
      PROVE  TypeInv'
  <2>1. /\ meta' = meta /\ indexing' = indexing /\ announced' = announced /\ clock' = clock
        /\ decided' = decided /\ restarts' = restarts /\ written' = written
        /\ TriggerSync(n, f)
    BY <1>5 DEF SyncRequest
  <2> QED
    BY <2>1, TriggerSyncWF DEF TypeOK
<1>6. ASSUME NEW n \in Node, NEW f \in File, PullStep(n, f)
      PROVE  TypeInv'
  <2>1. PICK s \in PullState : PullMove(n, f, s)
    BY <1>6, PullEffect
  <2>2. CASE UNCHANGED <<meta, announced>>
    <3>1. pull' \in [Node -> [File -> PullState]] /\ PullWF'
      BY <2>1, <2>2, SetPullWF, IdleType, Zenon DEF PullMove
    <3> QED
      BY <2>1, <2>2, <3>1 DEF PullMove, TypeOK
  <2>3. CASE PullInstalls(n, f, s)
    <3>1. pull[n][f].remote \in Version
      BY <2>3 DEF PullInstalls, PullWF
    <3>2. /\ meta' \in [Node -> [File -> Meta]]
          /\ \A m \in Node, g \in File : meta[m][g] \in Version => meta'[m][g] \in Version
      BY <2>3, <3>1, SetMeta, Zenon DEF PullInstalls
    <3>3. announced' \subseteq Announcement
      BY <2>3, <3>1, AnnounceType DEF PullInstalls, TypeOK
    <3>4. pull' \in [Node -> [File -> PullState]] /\ PullWF'
      BY <2>1, <2>3, <3>2, IdleType, SetPullWF, Zenon DEF PullMove, PullInstalls
    <3> QED
      BY <2>1, <3>2, <3>3, <3>4 DEF PullMove, TypeOK
  <2> QED
    BY <2>1, <2>2, <2>3 DEF PullMove
<1>7. ASSUME NEW n \in Node, Restart(n)
      PROVE  TypeInv'
  <2>1. pull' = [pull EXCEPT ![n] = [f \in File |-> Idle]] /\ meta' = meta
    BY <1>7 DEF Restart
  <2>2. pull' \in [Node -> [File -> PullState]]
    BY <2>1, IdleType DEF TypeOK
  <2>3. \A m \in Node, f \in File :
          pull'[m][f] = IF m = n THEN Idle ELSE pull[m][f]
    BY <2>1 DEF TypeOK
  <2>4. PullWF'
    BY <2>1, <2>3, IdleType DEF PullWF
  <2>5. clock' \in [Node -> Nat] /\ restarts' \in Nat
    BY <1>7 DEF Restart, TypeOK
  <2>6. indexing' \in [Node -> [File -> SUBSET Version]]
    BY <1>7 DEF Restart, TypeOK
  <2>7. announced' = announced /\ written' = written /\ decided' \subseteq decided
    BY <1>7 DEF Restart
  <2> QED
    BY <2>1, <2>2, <2>4, <2>5, <2>6, <2>7 DEF TypeOK
<1>8. CASE UNCHANGED vars
  BY <1>8 DEF vars, TypeOK, PullWF
<1>9. ASSUME NEW n \in Node, NEW f \in File, NEW v \in indexing[n][f], IndexFails(n, f, v)
      PROVE  TypeInv'
  <2>1. v \in Version
    BY DEF TypeOK
  <2>2. /\ pull' = pull /\ meta' = meta /\ clock' = clock /\ decided' = decided
        /\ restarts' = restarts /\ written' = written
    BY <1>9 DEF IndexFails
  <2>3. announced' \subseteq Announcement
    BY <1>9, <2>1, AnnounceType DEF IndexFails, TypeOK
  <2>4. indexing' \in [Node -> [File -> SUBSET Version]]
    BY <1>9 DEF IndexFails, TypeOK
  <2> QED
    BY <2>2, <2>3, <2>4, SamePullWF DEF TypeOK
<1> QED
  BY <1>1, <1>2, <1>3, <1>c, <1>r, <1>o, <1>d, <1>5, <1>6, <1>7, <1>8, <1>9
     DEF Next, FileStep, HandleFileChange, Ingest

\* The type invariant of the model, for every value of the constants: the
\* index holds only what Pull fetched from a peer that had the file, and what
\* is announced always carries a root.
THEOREM TypeCorrect == Spec => []TypeOK
<1>1. Init => TypeInv
  <2> SUFFICES ASSUME Init PROVE TypeInv
    OBVIOUS
  <2>1. TypeOK
    BY IdleType DEF Init, TypeOK, Meta
  <2>2. PullWF
    BY IdleType DEF Init, PullWF
  <2> QED
    BY <2>1, <2>2 DEF TypeInv
<1>2. TypeInv => TypeOK
  BY DEF TypeInv
<1> QED
  BY <1>1, <1>2, TypeStep, PTL DEF Spec

-----------------------------------------------------------------------------
(***************************************************************************)
(* No version is invented.  The invariant follows a version through every  *)
(* place it can be: the change being indexed, the index, the metadata a    *)
(* Pull has fetched, the announcements.                                    *)
(***************************************************************************)
StampInv ==
  /\ \A n \in Node, f \in File :
       /\ meta[n][f] \in Version => Stamped(f, meta[n][f])
       /\ \A v \in indexing[n][f] : Stamped(f, v)
       /\ pull[n][f].pc = "install" => Stamped(f, pull[n][f].remote)
  /\ \A a \in announced : Stamped(a.file, a)

\* A version stays stamped: stamps are only added.
LEMMA StampedGrows ==
  ASSUME written \subseteq written', NEW f, NEW v, Stamped(f, v)
  PROVE  Stamped(f, v)'
BY DEF Stamped

\* Announcing a stamped version.
LEMMA AnnounceStamped ==
  ASSUME NEW n, NEW f, NEW v, Announce(n, f, v), Stamped(f, v),
         \A a \in announced : Stamped(a.file, a)
  PROVE  \A a \in announced' : Stamped(a.file, a)
<1> SUFFICES ASSUME NEW a \in announced', a \notin announced
             PROVE  Stamped(a.file, a)
  OBVIOUS
<1>1. a.file = f /\ a.root = v.root /\ a.ts = v.ts
  BY DEF Announce
<1> QED
  BY <1>1 DEF Stamped

\* triggerSync leaves no Pull about to install that was not so before.
LEMMA TriggerSyncInstalls ==
  ASSUME TypeInv, NEW n \in Node, NEW f \in File, TriggerSync(n, f)
  PROVE  \A m \in Node, g \in File :
           /\ pull'[m][g].pc = "install" => pull'[m][g] = pull[m][g]
           /\ <<m, g>> # <<n, f>> => pull'[m][g] = pull[m][g]
<1> DEFINE s == [Idle EXCEPT !.pc = "begin", !.peers = Node \ {n}]
<1>1. s.pc = "begin"
  BY IdleType DEF PullState
<1>2. pull' = pull \/ pull' = [pull EXCEPT ![n][f] = s]
  BY DEF TriggerSync
<1> HIDE DEF s
<1> QED
  BY <1>1, <1>2 DEF TypeInv, TypeOK

\* Each operation of the code only moves stamped versions about.
LEMMA StampStep == TypeInv /\ StampInv /\ [Next]_vars => StampInv'
<1> SUFFICES ASSUME TypeInv, StampInv, [Next]_vars
             PROVE  StampInv'
  OBVIOUS
<1>1. ASSUME NEW n \in Node, NEW f \in File, NEW r \in Root, StampWrite(n, f, r)
      PROVE  StampInv'
  <2> DEFINE v == [root |-> r, ts |-> clock[n] + 1]
             t == [file |-> f, root |-> r, ts |-> clock[n] + 1, node |-> n]
  <2>1. /\ meta' = meta /\ pull' = pull /\ announced' = announced
        /\ written' = written \cup {t}
        /\ indexing' = [indexing EXCEPT ![n][f] = @ \cup {v}]
    BY <1>1 DEF StampWrite
  <2>2. \E x \in written' : x.file = f /\ x.root = v.root /\ x.ts = v.ts
    <3>1. t \in written' /\ t.file = f /\ t.root = v.root /\ t.ts = v.ts
      BY <2>1
    <3> HIDE DEF t, v
    <3> QED
      BY <3>1
  <2> HIDE DEF v, t
  <2>3. \A m \in Node, g \in File :
          indexing'[m][g] = IF m = n /\ g = f THEN indexing[m][g] \cup {v} ELSE indexing[m][g]
    BY <2>1, Zenon DEF TypeInv, TypeOK
  <2>4. \A m \in Node, g \in File : \A u \in indexing'[m][g] : Stamped(g, u)'
    BY <2>1, <2>2, <2>3 DEF StampInv, Stamped
  <2> QED
    BY <2>1, <2>4, StampedGrows DEF StampInv
<1>2. ASSUME NEW n \in Node, NEW f \in File, NEW v \in indexing[n][f], IndexChange(n, f, v)
      PROVE  StampInv'
  <2>1. /\ meta' = [meta EXCEPT ![n][f] = v] /\ Announce(n, f, v)
        /\ pull' = pull /\ written' = written
        /\ indexing' = [indexing EXCEPT ![n][f] = @ \ {v}]
    BY <1>2 DEF IndexChange
  <2>2. Stamped(f, v)
    BY DEF StampInv
  <2>3. v \in Version
    BY DEF TypeInv, TypeOK
  <2>4. \A m \in Node, g \in File :
          meta'[m][g] = IF m = n /\ g = f THEN v ELSE meta[m][g]
    BY <2>1, <2>3, SetMeta, ZenonT(30) DEF TypeInv
  <2>5. \A m \in Node, g \in File : indexing'[m][g] \subseteq indexing[m][g]
    BY <2>1 DEF TypeInv, TypeOK
  <2>6. \A a \in announced' : Stamped(a.file, a)
    BY <2>1, <2>2, AnnounceStamped DEF StampInv
  <2> QED
    BY <2>1, <2>2, <2>4, <2>5, <2>6 DEF StampInv, Stamped
<1>3. ASSUME NEW n \in Node, NEW f \in File, TriggerSync(n, f) \/ pull' = pull,
             UNCHANGED <<meta, indexing, announced, written>>
      PROVE  StampInv'
  <2>1. \A m \in Node, g \in File :
          pull'[m][g].pc = "install" => pull'[m][g] = pull[m][g]
    BY <1>3, TriggerSyncInstalls
  <2> QED
    BY <1>3, <2>1 DEF StampInv, Stamped
<1>4. ASSUME NEW n \in Node, NEW f \in File, PullStep(n, f)
      PROVE  StampInv'
  <2>1. PICK s \in PullState : PullMove(n, f, s)
    BY <1>4, PullEffect
  <2>2. /\ \A m \in Node, g \in File :
             pull'[m][g] = IF m = n /\ g = f THEN s ELSE pull[m][g]
        /\ indexing' = indexing /\ written' = written
    BY <2>1 DEF PullMove, TypeInv, TypeOK
  <2>3. s.pc = "install" => Stamped(f, s.remote)
    BY <2>1 DEF PullMove, StampInv
  <2>4. CASE UNCHANGED <<meta, announced>>
    BY <2>2, <2>3, <2>4 DEF StampInv, Stamped
  <2>5. CASE PullInstalls(n, f, s)
    <3> DEFINE v == pull[n][f].remote
    <3>1. v \in Version /\ Stamped(f, v)
      BY <2>5 DEF PullInstalls, TypeInv, PullWF, StampInv
    <3>2. \A m \in Node, g \in File :
            meta'[m][g] = IF m = n /\ g = f THEN v ELSE meta[m][g]
      BY <2>5, <3>1, SetMeta, ZenonT(30) DEF PullInstalls, TypeInv
    <3>3. \A a \in announced' : Stamped(a.file, a)
      BY <2>5, <3>1, AnnounceStamped DEF PullInstalls, StampInv
    <3> HIDE DEF v
    <3>4. \A m \in Node, g \in File : meta'[m][g] \in Version => Stamped(g, meta'[m][g])
      BY <3>1, <3>2 DEF StampInv
    <3>5. \A m \in Node, g \in File :
            pull'[m][g].pc = "install" => Stamped(g, pull'[m][g].remote)
      BY <2>2, <2>3 DEF StampInv
    <3>6. \A m \in Node, g \in File : \A x \in indexing'[m][g] : Stamped(g, x)
      BY <2>2 DEF StampInv
    <3> QED
      BY <2>2, <3>3, <3>4, <3>5, <3>6 DEF StampInv, Stamped
  <2> QED
    BY <2>1, <2>4, <2>5 DEF PullMove
<1>5. ASSUME NEW n \in Node, Restart(n)
      PROVE  StampInv'
  <2>1. meta' = meta /\ announced' = announced /\ written' = written
    BY <1>5 DEF Restart
  <2>2. \A m \in Node, g \in File :
          /\ pull'[m][g] = IF m = n THEN Idle ELSE pull[m][g]
          /\ indexing'[m][g] = IF m = n THEN {} ELSE indexing[m][g]
    BY <1>5 DEF Restart, TypeInv, TypeOK
  <2> QED
    BY <2>1, <2>2, IdleType DEF StampInv, Stamped
<1>6. CASE UNCHANGED vars
  BY <1>6 DEF vars, StampInv, Stamped
<1>7. ASSUME NEW n \in Node, NEW a \in announced, HandleAnnouncement(n, a)
      PROVE  StampInv'
  BY <1>7 DEF HandleAnnouncement, StampInv, Stamped
<1>8. ASSUME NEW n \in Node, NEW f \in File, NEW v \in indexing[n][f], IndexFails(n, f, v)
      PROVE  StampInv'
  <2>1. /\ meta' = meta /\ Announce(n, f, v) /\ pull' = pull /\ written' = written
        /\ indexing' = [indexing EXCEPT ![n][f] = @ \ {v}]
    BY <1>8 DEF IndexFails
  <2>2. \A m \in Node, g \in File : indexing'[m][g] \subseteq indexing[m][g]
    BY <2>1 DEF TypeInv, TypeOK
  <2>3. \A a \in announced' : Stamped(a.file, a)
    BY <2>1, AnnounceStamped DEF StampInv
  <2> QED
    BY <2>1, <2>2, <2>3 DEF StampInv, Stamped
<1>9. ASSUME NEW n \in Node, NEW a \in announced, NEW g \in Goroutine, CompareAnnouncement(n, a, g)
      PROVE  StampInv'
  BY <1>9 DEF CompareAnnouncement, StampInv, Stamped
<1>10. ASSUME NEW n \in Node, NEW f \in File, AntiEntropy(n, f)
       PROVE  StampInv'
  BY <1>10 DEF AntiEntropy, ReconcileWithPeer, StampInv, Stamped
<1>11. ASSUME NEW d \in decided, ObserveEntry(d)
       PROVE  StampInv'
  BY <1>11 DEF ObserveEntry, StampInv, Stamped
<1>12. ASSUME NEW d \in decided, ActOn(d)
       PROVE  StampInv'
  <2>1. d.node \in Node /\ d.file \in File
    BY DEF TypeInv, TypeOK, Decision
  <2> QED
    BY <1>3, <1>12, <2>1 DEF ActOn
<1>13. ASSUME NEW n \in Node, NEW f \in File, SyncRequest(n, f)
       PROVE  StampInv'
  BY <1>3, <1>13 DEF SyncRequest
<1> QED
  BY <1>1, <1>2, <1>4, <1>5, <1>6, <1>7, <1>8, <1>9, <1>10, <1>11, <1>12, <1>13
     DEF Next, FileStep, HandleFileChange, Ingest

\* Both invariants hold initially.
LEMMA InitInv == Init => TypeInv /\ StampInv
<1> SUFFICES ASSUME Init PROVE TypeInv /\ StampInv
  OBVIOUS
<1>1. TypeOK
  BY IdleType DEF Init, TypeOK, Meta
<1>2. PullWF
  BY IdleType DEF Init, PullWF
<1>3. NoMeta \notin Version
  BY ConstantsAssumption DEF NoMeta, Version
<1>4. StampInv
  BY <1>3, IdleType DEF Init, StampInv
<1> QED
  BY <1>1, <1>2, <1>4 DEF TypeInv

\* Every index entry of every node is a version some user wrote there, with
\* the timestamp it got there, whatever the cluster, however many restarts,
\* overlapping changes and manual syncs: Pull's two requests to the peer
\* never combine the root of one version with the timestamp of another.
THEOREM VersionsAreWritten == Spec => []NoInventedVersion
<1>1. TypeInv /\ StampInv => NoInventedVersion
  BY MetaType DEF NoInventedVersion, StampInv, TypeInv, TypeOK
<1> QED
  BY <1>1, InitInv, TypeStep, StampStep, PTL DEF Spec

-----------------------------------------------------------------------------
(***************************************************************************)
(* Stamps of a node whose clock is not set back: it stamps with the next   *)
(* tick of its clock, so no two of its versions of any files share a       *)
(* timestamp, whatever it observes from others in between.                 *)
(***************************************************************************)
ClockInv ==
  \A s \in written :
    /\ 0 < s.ts /\ s.node \in Editors[s.file]
    /\ s.node \notin Restarting =>
         /\ s.ts <= clock[s.node]
         /\ \A t \in written : s.node = t.node /\ s.ts = t.ts => s = t

\* Observing a timestamp never takes a clock back.
LEMMA ObserveTSGrows ==
  ASSUME TypeInv, NEW n \in Node, NEW m \in Node, NEW ts \in Nat, ObserveTS(n, ts)
  PROVE  clock[m] \in Nat /\ clock'[m] \in Nat /\ clock[m] <= clock'[m]
BY DEF TypeInv, TypeOK, ObserveTS

\* Each operation keeps the stamps of such a node apart.
LEMMA ClockStep ==
  ASSUME TypeInv, ClockInv, [Next]_vars
  PROVE  ClockInv'
<1>0. /\ \A s \in written : s.ts \in Nat /\ s.node \in Node
      /\ \A n \in Node : clock[n] \in Nat
  BY DEF TypeInv, TypeOK, Stamp
<1>1. ASSUME written' = written,
             \A n \in Node \ Restarting : clock'[n] \in Nat /\ clock[n] <= clock'[n]
      PROVE  ClockInv'
  <2>1. \A s \in written : s.node \notin Restarting => s.ts <= clock'[s.node]
    BY <1>0, <1>1 DEF ClockInv
  <2> QED
    BY <1>1, <2>1 DEF ClockInv
<1>2. ASSUME NEW n \in Node, NEW f \in File, NEW r \in Root, StampWrite(n, f, r)
      PROVE  ClockInv'
  <2> DEFINE t == [file |-> f, root |-> r, ts |-> clock[n] + 1, node |-> n]
  <2>1. /\ written' = written \cup {t} /\ n \in Editors[f]
        /\ clock' = [clock EXCEPT ![n] = clock[n] + 1]
    BY <1>2 DEF StampWrite
  <2>2. t.file = f /\ t.ts = clock[n] + 1 /\ t.node = n
    OBVIOUS
  <2> HIDE DEF t
  <2>3. \A m \in Node : clock'[m] = IF m = n THEN clock[n] + 1 ELSE clock[m]
    BY <2>1 DEF TypeInv, TypeOK
  <2>4. n \notin Restarting => \A s \in written : s.node = n => s.ts < t.ts
    BY <1>0, <2>2 DEF ClockInv
  <2>5. \A s \in written : s.node \notin Restarting => s.ts <= clock'[s.node]
    BY <1>0, <2>3 DEF ClockInv
  <2>6. 0 < t.ts /\ t.ts <= clock'[t.node]
    BY <1>0, <2>2, <2>3
  <2>7. \A s, u \in written' :
          s.node \notin Restarting /\ s.node = u.node /\ s.ts = u.ts => s = u
    BY <1>0, <2>1, <2>2, <2>4 DEF ClockInv
  <2> QED
    BY <2>1, <2>2, <2>5, <2>6, <2>7 DEF ClockInv
<1>3. ASSUME NEW n \in Node, NEW f \in File, FileStep(n, f)
      PROVE  ClockInv'
  <2>1. CASE \E r \in Root : StampWrite(n, f, r)
    BY <1>2, <2>1
  <2>2. CASE \E v \in indexing[n][f] : IndexChange(n, f, v) \/ IndexFails(n, f, v)
    BY <1>0, <1>1, <2>2 DEF IndexChange, IndexFails
  <2>3. CASE AntiEntropy(n, f)
    BY <1>0, <1>1, <2>3 DEF AntiEntropy, ReconcileWithPeer
  <2>4. CASE SyncRequest(n, f)
    BY <1>0, <1>1, <2>4 DEF SyncRequest
  <2>5. CASE PullStep(n, f)
    BY <1>0, <1>1, <2>5, PullEffect DEF PullMove
  <2> QED
    BY <1>3, <2>1, <2>2, <2>3, <2>4, <2>5 DEF FileStep, HandleFileChange, Ingest
<1>4. ASSUME NEW n \in Node, NEW a \in announced, HandleAnnouncement(n, a)
      PROVE  ClockInv'
  <2>1. a.ts \in Nat
    BY DEF TypeInv, TypeOK, Announcement
  <2> QED
    BY <1>1, <1>4, <2>1, ObserveTSGrows DEF HandleAnnouncement
<1>5. ASSUME NEW n \in Node, Restart(n)
      PROVE  ClockInv'
  <2>1. written' = written /\ \A m \in Node \ Restarting : clock'[m] = clock[m]
    BY <1>5 DEF Restart, TypeInv, TypeOK
  <2> QED
    BY <1>0, <1>1, <2>1
<1>6. CASE UNCHANGED vars
  BY <1>0, <1>1, <1>6 DEF vars
<1>7. ASSUME NEW n \in Node, NEW a \in announced, NEW g \in Goroutine, CompareAnnouncement(n, a, g)
      PROVE  ClockInv'
  BY <1>0, <1>1, <1>7 DEF CompareAnnouncement
<1>8. ASSUME NEW d \in decided, ObserveEntry(d) \/ ActOn(d)
      PROVE  ClockInv'
  <2>1. d.node \in Node /\ d.ts \in Nat
    BY DEF TypeInv, TypeOK, Decision
  <2>2. CASE ObserveEntry(d)
    BY <1>1, <2>1, <2>2, ObserveTSGrows DEF ObserveEntry
  <2>3. CASE ActOn(d)
    BY <1>0, <1>1, <2>3 DEF ActOn
  <2> QED
    BY <1>8, <2>2, <2>3
<1> QED
  BY <1>3, <1>4, <1>5, <1>6, <1>7, <1>8 DEF Next

StampsInv == TypeInv /\ StampInv /\ ClockInv

\* Versions and stamps, in every state.
LEMMA StampsInvariant == Spec => []StampsInv
<1>1. Init => StampsInv
  BY InitInv DEF StampsInv, Init, ClockInv
<1>2. StampsInv /\ [Next]_vars => StampsInv'
  BY TypeStep, StampStep, ClockStep DEF StampsInv
<1> QED
  BY <1>1, <1>2, PTL DEF Spec

\* An index entry that is a version has a timestamp above that of an absent
\* file, and for a sole editor's file the timestamp determines the content.
LEMMA SoleVersions ==
  ASSUME StampsInv, NEW w \in Node, NEW f \in File, SoleEditor(w, f),
         NEW u, NEW v, Stamped(f, u), Stamped(f, v)
  PROVE  /\ u.ts \in Nat /\ 0 < u.ts /\ u.ts <= clock[w]
         /\ u.ts = v.ts => u.root = v.root
<1>1. PICK s \in written : s.file = f /\ s.root = u.root /\ s.ts = u.ts
  BY DEF Stamped
<1>2. PICK t \in written : t.file = f /\ t.root = v.root /\ t.ts = v.ts
  BY DEF Stamped
<1>3. s.node = w /\ t.node = w /\ w \notin Restarting
  BY <1>1, <1>2 DEF StampsInv, ClockInv, SoleEditor
<1>4. s.ts \in Nat
  BY DEF StampsInv, TypeInv, TypeOK, Stamp
<1>5. 0 < s.ts /\ s.ts <= clock[w]
  BY <1>3 DEF StampsInv, ClockInv
<1>6. s.ts = t.ts => s = t
  BY <1>3 DEF StampsInv, ClockInv
<1> QED
  BY <1>1, <1>2, <1>4, <1>5, <1>6

\* For a file that one node edits, two nodes whose index entries have equal
\* timestamps have equal entries: the tie-break by node name in remoteWins
\* never has to choose between two contents of such a file, whatever overlaps,
\* fails or is synced by hand, and whichever other daemons restart.
THEOREM TimestampsNameContents == Spec => []SameTimestampSameRoot
<1>1. StampsInv => SameTimestampSameRoot
  <2> SUFFICES ASSUME StampsInv, NEW f \in File, NEW w \in Node, SoleEditor(w, f),
                      NEW n \in Node, NEW m \in Node, meta[n][f].ts = meta[m][f].ts
               PROVE  meta[n][f] = meta[m][f]
    BY DEF SameTimestampSameRoot
  <2>1. meta[n][f] \in Meta /\ meta[m][f] \in Meta
    BY DEF StampsInv, TypeInv, TypeOK
  <2>2. \A k \in Node : meta[k][f] \in Version => Stamped(f, meta[k][f])
    BY DEF StampsInv, StampInv
  <2>3. \A k \in Node : meta[k][f] \in Version => meta[k][f].ts # 0
    BY <2>2, SoleVersions
  <2>4. CASE meta[n][f] \in Version /\ meta[m][f] \in Version
    BY <2>2, <2>4, SoleVersions DEF Version
  <2>5. CASE meta[n][f] = NoMeta \/ meta[m][f] = NoMeta
    <3>1. NoMeta.ts = 0
      BY DEF NoMeta
    <3> QED
      BY <2>1, <2>3, <2>5, <3>1 DEF Meta
  <2> QED
    BY <2>1, <2>4, <2>5 DEF Meta
<1> QED
  BY <1>1, StampsInvariant, PTL

\* The next version of a file that one node edits is newer than all there is of
\* it, in the index of any node and in gossip: the editor's clock has stamped it
\* all, whatever overlaps, fails or is synced by hand, and whichever other
\* daemons restart.
THEOREM ClockLeadsCopies == Spec => []NextWriteIsNewest
<1>1. StampsInv => NextWriteIsNewest
  <2> SUFFICES ASSUME StampsInv, NEW f \in File, NEW w \in Node, SoleEditor(w, f)
               PROVE  /\ \A n \in Node : meta[n][f].ts <= clock[w]
                      /\ \A a \in announced : a.file = f => a.ts <= clock[w]
    BY DEF NextWriteIsNewest
  <2>1. ASSUME NEW n \in Node
        PROVE  meta[n][f].ts <= clock[w]
    <3>1. meta[n][f] \in Meta /\ clock[w] \in Nat
      BY DEF StampsInv, TypeInv, TypeOK
    <3>2. CASE meta[n][f] = NoMeta
      BY <3>1, <3>2 DEF NoMeta
    <3>3. CASE meta[n][f] \in Version
      <4>1. Stamped(f, meta[n][f])
        BY <3>3 DEF StampsInv, StampInv
      <4> QED
        BY <4>1, SoleVersions
    <3> QED
      BY <3>1, <3>2, <3>3 DEF Meta
  <2>2. ASSUME NEW a \in announced, a.file = f
        PROVE  a.ts <= clock[w]
    <3>1. Stamped(f, a)
      BY <2>2 DEF StampsInv, StampInv
    <3> QED
      BY <3>1, SoleVersions
  <2> QED
    BY <2>1, <2>2
<1> QED
  BY <1>1, StampsInvariant, PTL

\* remoteWins decides between any two copies of a file, and only one way: two
\* nodes that hold different contents neither swap them nor both keep theirs.
THEOREM TieBreakDecides == Spec => []OneOfTwoFetches
<1>1. TypeOK => OneOfTwoFetches
  <2> SUFFICES ASSUME TypeOK, NEW f \in File, NEW n \in Node, NEW m \in Node,
                      meta[n][f].root # NoRoot, meta[m][f].root # NoRoot,
                      meta[n][f].root # meta[m][f].root
               PROVE  Wanted(n, f, meta[m][f], m) <=> ~Wanted(m, f, meta[n][f], n)
    BY DEF OneOfTwoFetches
  <2>1. meta[n][f].ts \in Nat /\ meta[m][f].ts \in Nat
    BY MetaType DEF TypeOK
  <2>2. n \in Nat /\ m \in Nat /\ n # m
    BY ConstantsAssumption
  <2> QED
    BY <2>1, <2>2 DEF Wanted, RemoteWins
<1> QED
  BY <1>1, TypeCorrect, PTL

=============================================================================
