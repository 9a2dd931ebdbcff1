-------------------------- MODULE SoleEditorProofs --------------------------
(***************************************************************************)
(* Proofs about the files of Replication that one node edits, and that     *)
(* Replication implements SharedFiles when every file is one of these.     *)
(***************************************************************************)
EXTENDS ReplicationProofs

USE DEF PutFileMeta, GetActivePeers

\* At the editor of a file one change is indexed at a time, and nobody calls
\* POST /sync.
Calm ==
  \A f \in File, w \in Node : SoleEditor(w, f) => w \notin Overlap /\ w \notin ManualSync

\* ... nor at any other node, and the index takes every write.
Undisturbed == Calm /\ ManualSync = {} /\ IndexErrors = FALSE

(***************************************************************************)
(* The sole editor of a file is always ahead: what the rest of the cluster *)
(* holds, fetches or announces of the file is at most as new as the        *)
(* editor's index entry, so the editor itself never pulls the file.  What  *)
(* the editor announces may be newer than its entry, if the index refused  *)
(* it.                                                                     *)
(***************************************************************************)
EditorInv(w, f) ==
  /\ \A n \in Node :
       /\ meta[n][f].ts <= meta[w][f].ts
       /\ pull[n][f].pc = "install" => pull[n][f].remote.ts <= meta[w][f].ts
       /\ n # w => indexing[n][f] = {}
  /\ ~SetOut(w, f)
  /\ \A a \in announced : a.file = f /\ a.source # w => a.ts <= meta[w][f].ts
  /\ \A v \in indexing[w][f] : v.ts > meta[w][f].ts
  /\ \A u, v \in indexing[w][f] : u = v

(***************************************************************************)
(* If the index takes every write, what the editor announces is indexed    *)
(* too.                                                                    *)
(***************************************************************************)
LevelInv(w, f) == \A a \in announced : a.file = f => a.ts <= meta[w][f].ts

\* remoteWins lets nothing win against a copy that is level with the editor's.
LEMMA OnlyLaggardsFetch ==
  ASSUME NEW w \in Node, NEW f \in File, StampsInv, SoleEditor(w, f),
         NEW n \in Node, NEW v, NEW src, Stamped(f, v),
         v.ts <= meta[w][f].ts, Wanted(n, f, v, src)
  PROVE  meta[n][f].ts < meta[w][f].ts
<1>0. meta[n][f] \in Meta /\ meta[w][f] \in Meta
  BY DEF StampsInv, TypeInv, TypeOK
<1>1. meta[n][f].ts \in Nat /\ meta[w][f].ts \in Nat
  BY <1>0, MetaType
<1>2. v.ts \in Nat /\ v.ts > 0
  BY SoleVersions
<1>3. CASE meta[n][f].root = NoRoot
  BY <1>0, <1>1, <1>2, <1>3, MetaType DEF NoMeta
<1>4. CASE meta[n][f].root # NoRoot
  <2>1. Stamped(f, meta[n][f])
    BY <1>0, <1>4, MetaType DEF StampsInv, StampInv
  <2>2. meta[n][f].root # v.root /\ RemoteWins(meta[n][f].ts, n, v.ts, src)
    BY <1>4 DEF Wanted
  <2>3. v.ts # meta[n][f].ts
    BY <2>1, <2>2, SoleVersions
  <2> QED
    BY <1>1, <1>2, <2>2, <2>3 DEF RemoteWins
<1> QED
  BY <1>3, <1>4

\* The editor's index entry was stamped with the editor's clock.
LEMMA EditorClock ==
  ASSUME NEW w \in Node, NEW f \in File, StampsInv, SoleEditor(w, f)
  PROVE  clock[w] \in Nat /\ meta[w][f].ts \in Nat /\ meta[w][f].ts <= clock[w]
<1>0. meta[w][f] \in Meta /\ clock[w] \in Nat
  BY DEF StampsInv, TypeInv, TypeOK
<1>1. CASE meta[w][f] = NoMeta
  BY <1>0, <1>1 DEF NoMeta
<1>2. CASE meta[w][f] # NoMeta
  <2>1. Stamped(f, meta[w][f])
    BY <1>0, <1>2 DEF Meta, StampsInv, StampInv
  <2> QED
    BY <1>0, <2>1, SoleVersions
<1> QED
  BY <1>1, <1>2

\* A comparison that wins is made by a node that is behind the editor.
LEMMA OnlyLaggardsDecide ==
  ASSUME NEW w \in Node, NEW f \in File, StampsInv, SoleEditor(w, f), EditorInv(w, f),
         NEW n \in Node, NEW v, NEW src, NEW g \in Goroutine, Compares(n, f, v, src, g),
         n = w \/ LevelInv(w, f)
  PROVE  meta[n][f].ts < meta[w][f].ts
<1>0. src \in Node /\ src # n /\ Wanted(n, f, v, src)
  BY DEF Compares
<1>1. CASE v = meta[src][f] /\ v # NoMeta
  <2>1. v \in Version /\ Stamped(f, v)
    BY <1>0, <1>1 DEF StampsInv, TypeInv, TypeOK, Meta, StampInv
  <2>2. v.ts <= meta[w][f].ts
    BY <1>0, <1>1 DEF EditorInv
  <2> QED
    BY <1>0, <2>1, <2>2, OnlyLaggardsFetch
<1>2. CASE \E a \in announced : a.file = f /\ a.source = src /\ a.root = v.root /\ a.ts = v.ts
  <2>1. PICK a \in announced : a.file = f /\ a.source = src /\ a.root = v.root /\ a.ts = v.ts
    BY <1>2
  <2>2. Stamped(f, v)
    <3>1. Stamped(f, a)
      BY <2>1 DEF StampsInv, StampInv
    <3> QED
      BY <2>1, <3>1 DEF Stamped
  <2>3. v.ts <= meta[w][f].ts
    BY <1>0, <2>1 DEF EditorInv, LevelInv
  <2> QED
    BY <1>0, <2>2, <2>3, OnlyLaggardsFetch
<1> QED
  BY <1>1, <1>2 DEF Compares

\* A goroutine decides, not at the editor.
LEMMA SoleDecide ==
  ASSUME NEW w \in Node, NEW f \in File, StampsInv, SoleEditor(w, f), EditorInv(w, f),
         NEW n \in Node, NEW h \in File, NEW v, NEW src, NEW g \in Goroutine,
         Compares(n, h, v, src, g)
  PROVE  EditorInv(w, f)' /\ (LevelInv(w, f) => LevelInv(w, f)')
<1> DEFINE x == [node |-> n, by |-> g, file |-> h, ts |-> v.ts]
<1>1. /\ meta' = meta /\ pull' = pull /\ indexing' = indexing /\ announced' = announced
      /\ decided' = decided \cup {x}
  BY DEF Compares, Decide
<1>2. x.node = n /\ x.file = h
  OBVIOUS
<1> HIDE DEF x
<1>3. h = f => n # w
  BY EditorClock, OnlyLaggardsDecide
<1>4. Undone(w, f)' = Undone(w, f)
  BY <1>1, <1>2, <1>3 DEF Undone
<1>5. ~SetOut(w, f)'
  BY <1>1, <1>4 DEF EditorInv, SetOut
<1> QED
  BY <1>1, <1>5 DEF EditorInv, LevelInv

\* A step that changes nothing of f but a trigger, not at the editor.
LEMMA SoleTrigger ==
  ASSUME NEW w \in Node, NEW f \in File, TypeInv, EditorInv(w, f),
         NEW n \in Node, NEW g \in File, TriggerSync(n, g), g = f => n # w,
         decided' \subseteq decided, UNCHANGED <<meta, indexing, announced>>
  PROVE  EditorInv(w, f)' /\ (LevelInv(w, f) => LevelInv(w, f)')
<1>1. \A m \in Node, h \in File :
        /\ pull'[m][h].pc = "install" => pull'[m][h] = pull[m][h]
        /\ <<m, h>> # <<n, g>> => pull'[m][h] = pull[m][h]
  BY TriggerSyncInstalls
<1>2. pull'[w][f] = pull[w][f]
  BY <1>1
<1>3. \A m \in Node : pull'[m][f].pc = "install" => pull'[m][f].remote.ts <= meta[w][f].ts
  BY <1>1 DEF EditorInv
<1>4. ~SetOut(w, f)'
  BY <1>2 DEF EditorInv, SetOut, Undone
<1> QED
  BY <1>3, <1>4 DEF EditorInv, LevelInv

\* A change is stamped.
LEMMA SoleStamp ==
  ASSUME Calm, NEW w \in Node, NEW f \in File, SoleEditor(w, f), StampsInv, EditorInv(w, f),
         NEW n \in Node, NEW g \in File, NEW r \in Root, StampWrite(n, g, r)
  PROVE  EditorInv(w, f)' /\ (LevelInv(w, f) => LevelInv(w, f)')
<1> DEFINE v == [root |-> r, ts |-> clock[n] + 1]
<1>1. /\ meta' = meta /\ pull' = pull /\ announced' = announced /\ decided' = decided
      /\ indexing' = [indexing EXCEPT ![n][g] = @ \cup {v}]
      /\ n \in Editors[g]
      /\ n \in Overlap \/ indexing[n][g] = {}
  BY DEF StampWrite
<1>2. v.ts = clock[n] + 1
  OBVIOUS
<1> HIDE DEF v
<1>3. \A m \in Node, h \in File :
        indexing'[m][h] = IF m = n /\ h = g THEN indexing[m][h] \cup {v} ELSE indexing[m][h]
  BY <1>1, Zenon DEF StampsInv, TypeInv, TypeOK
<1>4. (LevelInv(w, f) => LevelInv(w, f)') /\ ~SetOut(w, f)'
  BY <1>1 DEF LevelInv, EditorInv, SetOut, Undone
<1>5. CASE g # f
  <2>1. \A m \in Node : indexing'[m][f] = indexing[m][f]
    BY <1>3, <1>5
  <2> QED
    BY <1>1, <1>4, <2>1 DEF EditorInv
<1>6. CASE g = f
  <2>1. n = w
    BY <1>1, <1>6 DEF SoleEditor
  <2>2. v.ts > meta[w][f].ts
    BY <1>2, <2>1, EditorClock
  <2>3. indexing'[w][f] = {v} /\ \A m \in Node : m # w => indexing'[m][f] = indexing[m][f]
    <3>1. indexing[w][f] = {}
      BY <1>1, <1>6, <2>1 DEF Calm
    <3> QED
      BY <1>3, <1>6, <2>1, <3>1
  <2> QED
    BY <1>1, <1>4, <2>2, <2>3 DEF EditorInv
<1> QED
  BY <1>5, <1>6

\* What is announced of f.
LEMMA SoleAnnounce ==
  ASSUME NEW f \in File, NEW n, NEW g, NEW v, Announce(n, g, v)
  PROVE  \A a \in announced' :
           a \in announced \/ (a.file = g /\ a.ts = v.ts /\ a.source = n)
<1> DEFINE x == [file |-> g, root |-> v.root, ts |-> v.ts, source |-> n]
<1>1. x.file = g /\ x.ts = v.ts /\ x.source = n
  OBVIOUS
<1>2. \A a \in announced' : a \in announced \/ a = x
  BY DEF Announce
<1> HIDE DEF x
<1> QED
  BY <1>1, <1>2

\* A stamped change is indexed.
LEMMA SoleIndex ==
  ASSUME NEW w \in Node, NEW f \in File, TypeInv, EditorInv(w, f),
         NEW n \in Node, NEW g \in File, NEW v \in indexing[n][g], IndexChange(n, g, v)
  PROVE  EditorInv(w, f)' /\ (LevelInv(w, f) => LevelInv(w, f)')
<1>1. /\ meta' = [meta EXCEPT ![n][g] = v] /\ Announce(n, g, v)
      /\ indexing' = [indexing EXCEPT ![n][g] = @ \ {v}]
      /\ pull' = pull /\ ~SetOut(w, f)'
  BY DEF IndexChange, EditorInv, SetOut, Undone
<1>2. v \in Version /\ v.ts \in Nat
  BY DEF TypeInv, TypeOK, Version
<1>3. \A m \in Node, h \in File : meta'[m][h] = IF m = n /\ h = g THEN v ELSE meta[m][h]
  BY <1>1, <1>2, SetMeta, ZenonT(30) DEF TypeInv
<1>4. \A m \in Node, h \in File :
        indexing'[m][h] = IF m = n /\ h = g THEN indexing[m][h] \ {v} ELSE indexing[m][h]
  BY <1>1, Zenon DEF TypeInv, TypeOK
<1>5. \A a \in announced' :
        a \in announced \/ (a.file = g /\ a.ts = v.ts /\ a.source = n)
  BY <1>1, SoleAnnounce
<1>6. CASE g # f
  <2>1. \A m \in Node : meta'[m][f] = meta[m][f] /\ indexing'[m][f] = indexing[m][f]
    BY <1>3, <1>4, <1>6
  <2>2. \A a \in announced' : a.file = f => a \in announced
    BY <1>5, <1>6
  <2>3. EditorInv(w, f)'
    BY <1>1, <2>1, <2>2 DEF EditorInv
  <2>4. LevelInv(w, f) => LevelInv(w, f)'
    BY <1>1, <2>1, <2>2 DEF LevelInv
  <2> QED
    BY <2>3, <2>4
<1>7. CASE g = f
  <2>1. n = w /\ v.ts > meta[w][f].ts
    BY <1>7 DEF EditorInv
  <2>2. indexing'[w][f] = {} /\ meta'[w][f] = v
    BY <1>3, <1>4, <1>7, <2>1, Zenon DEF EditorInv
  <2>3. \A m \in Node : meta[m][f].ts \in Nat
    BY MetaType DEF TypeInv, TypeOK
  <2>4. \A m \in Node : pull[m][f].pc = "install" => pull[m][f].remote.ts \in Nat
    BY DEF TypeInv, PullWF, Version
  <2>5. \A a \in announced : a.ts \in Nat
    BY DEF TypeInv, TypeOK, Announcement
  <2>6. \A a \in announced' : a.file = f /\ a.source # w => a.ts <= v.ts
    BY <1>2, <1>5, <2>1, <2>3, <2>5 DEF EditorInv
  <2>7. \A m \in Node :
          /\ meta'[m][f].ts <= v.ts
          /\ pull[m][f].pc = "install" => pull[m][f].remote.ts <= v.ts
    BY <1>2, <1>3, <1>7, <2>1, <2>3, <2>4 DEF EditorInv
  <2>8. EditorInv(w, f)'
    BY <1>1, <1>4, <1>7, <2>1, <2>2, <2>6, <2>7 DEF EditorInv
  <2>9. ASSUME LevelInv(w, f) PROVE LevelInv(w, f)'
    <3>1. \A a \in announced' : a.file = f => a.ts <= v.ts
      BY <1>2, <1>5, <2>1, <2>3, <2>5, <2>9 DEF LevelInv
    <3> QED
      BY <2>2, <3>1 DEF LevelInv
  <2> QED
    BY <2>8, <2>9
<1> QED
  BY <1>6, <1>7

\* The index refuses a stamped change.
LEMMA SoleIndexFails ==
  ASSUME NEW w \in Node, NEW f \in File, TypeInv, EditorInv(w, f),
         NEW n \in Node, NEW g \in File, NEW v \in indexing[n][g], IndexFails(n, g, v)
  PROVE  EditorInv(w, f)'
<1>1. /\ meta' = meta /\ Announce(n, g, v) /\ pull' = pull /\ ~SetOut(w, f)'
      /\ indexing' = [indexing EXCEPT ![n][g] = @ \ {v}]
  BY DEF IndexFails, EditorInv, SetOut, Undone
<1>2. \A m \in Node, h \in File : indexing'[m][h] \subseteq indexing[m][h]
  BY <1>1 DEF TypeInv, TypeOK
<1>3. g = f => n = w
  BY DEF EditorInv
<1>4. \A a \in announced' : a.file = f /\ a.source # w => a \in announced
  BY <1>1, <1>3, SoleAnnounce
<1> QED
  BY <1>1, <1>2, <1>4 DEF EditorInv

\* A Pull takes a step.
LEMMA SolePull ==
  ASSUME NEW w \in Node, NEW f \in File, TypeInv, EditorInv(w, f),
         NEW n \in Node, NEW g \in File, PullStep(n, g)
  PROVE  EditorInv(w, f)' /\ (LevelInv(w, f) => LevelInv(w, f)')
<1>1. PICK s \in PullState : PullMove(n, g, s)
  BY PullEffect
<1>2. /\ \A m \in Node, h \in File :
           pull'[m][h] = IF m = n /\ h = g THEN s ELSE pull[m][h]
      /\ indexing' = indexing
      /\ decided' = decided
      /\ pull[n][g].pc # "idle"
  BY <1>1 DEF PullMove, TypeInv, TypeOK
<1>3. g = f => n # w
  BY <1>2 DEF EditorInv, SetOut
<1>4. g = f /\ s.pc = "install" => s.remote.ts <= meta[w][f].ts
  BY <1>1 DEF PullMove, EditorInv
<1>5. ~SetOut(w, f)'
  <2>1. pull'[w][f] = pull[w][f]
    BY <1>2, <1>3
  <2> QED
    BY <1>2, <2>1 DEF EditorInv, SetOut, Undone
<1>7. CASE UNCHANGED <<meta, announced>>
  BY <1>2, <1>4, <1>5, <1>7 DEF EditorInv, LevelInv
<1>8. CASE PullInstalls(n, g, s)
  <2> DEFINE v == pull[n][g].remote
  <2>1. v \in Version /\ s.pc = "idle" /\ Announce(n, g, v)
    BY <1>8, IdleType DEF PullInstalls, TypeInv, PullWF
  <2>2. \A m \in Node, h \in File : meta'[m][h] = IF m = n /\ h = g THEN v ELSE meta[m][h]
    BY <1>8, <2>1, SetMeta, ZenonT(30) DEF PullInstalls, TypeInv
  <2>3. g = f => v.ts <= meta[w][f].ts
    BY <1>8 DEF PullInstalls, EditorInv
  <2>4. meta'[w][f] = meta[w][f]
    BY <1>3, <2>2
  <2> HIDE DEF v
  <2>5. \A a \in announced' :
          a \in announced \/ (a.file = g /\ a.ts = v.ts /\ a.source = n)
    BY <2>1, SoleAnnounce
  <2>6. EditorInv(w, f)'
    BY <1>2, <1>5, <2>1, <2>2, <2>3, <2>4, <2>5 DEF EditorInv
  <2>7. LevelInv(w, f) => LevelInv(w, f)'
    BY <2>3, <2>4, <2>5 DEF LevelInv
  <2> QED
    BY <2>6, <2>7
<1> QED
  BY <1>1, <1>7, <1>8 DEF PullMove

\* Each operation keeps the sole editor ahead, and the others level with it or
\* behind.
LEMMA SoleStep ==
  ASSUME Calm, NEW w \in Node, NEW f \in File, SoleEditor(w, f),
         StampsInv, EditorInv(w, f), [Next]_vars
  PROVE  EditorInv(w, f)' /\ (Undisturbed /\ LevelInv(w, f) => LevelInv(w, f)')
<1> DEFINE Kept == EditorInv(w, f)' /\ (LevelInv(w, f) => LevelInv(w, f)')
<1>0. TypeInv
  BY DEF StampsInv
<1>1. ASSUME NEW n \in Node, NEW a \in announced, HandleAnnouncement(n, a)
      PROVE  Kept
  BY <1>1 DEF HandleAnnouncement, EditorInv, LevelInv, SetOut, Undone
<1>2. ASSUME NEW n \in Node, NEW a \in announced, NEW g \in Goroutine, CompareAnnouncement(n, a, g)
      PROVE  Kept
  <2>1. a.file \in File
    BY <1>0 DEF TypeInv, TypeOK, Announcement
  <2>2. Compares(n, a.file, a, a.source, g)
    BY <1>0, <1>2, CompareEffect DEF TypeInv
  <2> QED
    BY <2>1, <2>2, SoleDecide
<1>6. ASSUME NEW d \in decided, ObserveEntry(d)
      PROVE  Kept
  BY <1>6 DEF ObserveEntry, EditorInv, LevelInv, SetOut, Undone
<1>7. ASSUME NEW d \in decided, ActOn(d)
      PROVE  Kept
  <2>1. d.node \in Node /\ d.file \in File
    BY <1>0 DEF TypeInv, TypeOK, Decision
  <2>2. /\ TriggerSync(d.node, d.file) /\ decided' \subseteq decided
        /\ UNCHANGED <<meta, indexing, announced>>
    BY <1>7 DEF ActOn
  <2>3. d.file = f => d.node # w
    BY DEF EditorInv, SetOut, Undone
  <2> QED
    BY <1>0, <2>1, <2>2, <2>3, SoleTrigger
<1>3. ASSUME NEW n \in Node, Restart(n)
      PROVE  EditorInv(w, f)' /\ (LevelInv(w, f) => LevelInv(w, f)')
  <2>1. n # w /\ meta' = meta /\ announced' = announced
    BY <1>3 DEF Restart, SoleEditor
  <2>2. \A m \in Node : /\ pull'[m][f] = IF m = n THEN Idle ELSE pull[m][f]
                        /\ indexing'[m][f] = IF m = n THEN {} ELSE indexing[m][f]
    BY <1>3 DEF Restart, StampsInv, TypeInv, TypeOK
  <2>5. decided' \subseteq decided /\ pull'[w][f] = pull[w][f]
    BY <1>3, <2>1, <2>2 DEF Restart
  <2>6. ~SetOut(w, f)'
    BY <2>5 DEF EditorInv, SetOut, Undone
  <2>3. EditorInv(w, f)'
    BY <2>1, <2>2, <2>6, IdleType DEF EditorInv
  <2>4. LevelInv(w, f) => LevelInv(w, f)'
    BY <2>1 DEF LevelInv
  <2> QED
    BY <2>3, <2>4
<1>4. CASE UNCHANGED vars
  BY <1>4 DEF vars, EditorInv, LevelInv, SetOut, Undone
<1>5. ASSUME NEW n \in Node, NEW g \in File, FileStep(n, g)
      PROVE  EditorInv(w, f)' /\ (Undisturbed /\ LevelInv(w, f) => LevelInv(w, f)')
  <2>1. CASE \E r \in Root : StampWrite(n, g, r)
    BY <2>1, SoleStamp
  <2>2. CASE \E v \in indexing[n][g] : IndexChange(n, g, v)
    BY <1>0, <2>2, SoleIndex
  <2>3. CASE \E v \in indexing[n][g] : IndexFails(n, g, v)
    BY <1>0, <2>3, SoleIndexFails DEF IndexFails, Undisturbed
  <2>4. CASE PullStep(n, g)
    BY <1>0, <2>4, SolePull
  <2>5. CASE SyncRequest(n, g)
    <3>1. /\ n \in ManualSync /\ TriggerSync(n, g) /\ decided' \subseteq decided
          /\ UNCHANGED <<meta, indexing, announced>>
      BY <2>5 DEF SyncRequest
    <3>2. n # w
      BY <3>1 DEF Calm
    <3> QED
      BY <1>0, <3>1, <3>2, SoleTrigger
  <2>6. CASE AntiEntropy(n, g)
    BY <1>0, <2>6, CompareEffect, SoleDecide DEF AntiEntropy, TypeInv
  <2> HIDE DEF Kept
  <2> QED
    BY <1>5, <2>1, <2>2, <2>3, <2>4, <2>5, <2>6 DEF FileStep, HandleFileChange, Ingest
<1> QED
  BY <1>1, <1>2, <1>3, <1>4, <1>5, <1>6, <1>7 DEF Next

AllEditorInv == \A w \in Node, f \in File : SoleEditor(w, f) => EditorInv(w, f)
AllLevelInv == \A w \in Node, f \in File : SoleEditor(w, f) => LevelInv(w, f)

Ahead == StampsInv /\ AllEditorInv
Inv == Ahead /\ AllLevelInv

\* The invariants hold initially.
LEMMA InitSole == Init => AllEditorInv /\ AllLevelInv
BY IdleType DEF Init, AllEditorInv, EditorInv, AllLevelInv, LevelInv, NoMeta, SetOut, Undone

\* The invariant of the theorems about the editor's own copy.
LEMMA AheadInvariant ==
  ASSUME Calm
  PROVE  Spec => []Ahead
<1>1. Init => AllEditorInv
  BY InitSole
<1>2. StampsInv /\ AllEditorInv /\ [Next]_vars => AllEditorInv'
  BY SoleStep DEF AllEditorInv, SoleEditor
<1> QED
  BY <1>1, <1>2, StampsInvariant, PTL DEF Spec, Ahead

\* The invariant of the theorems about the other nodes' copies.
LEMMA SoleInvariant ==
  ASSUME Undisturbed
  PROVE  Spec => []Inv
<1>0. Calm
  BY DEF Undisturbed
<1>1. Init => AllLevelInv
  BY InitSole
<1>2. Ahead /\ AllLevelInv /\ [Next]_vars => AllLevelInv'
  BY <1>0, SoleStep DEF Ahead, AllEditorInv, AllLevelInv, SoleEditor
<1> QED
  BY <1>0, <1>1, <1>2, AheadInvariant, PTL DEF Spec, Inv

\* Only indexing and installs change an index entry: the editor's changes by
\* its own indexing, that of another node by a Pull.
LEMMA IndexChanges ==
  ASSUME NEW w \in Node, NEW f \in File, Ahead, SoleEditor(w, f), [Next]_vars,
         NEW n \in Node, meta'[n][f] # meta[n][f]
  PROVE  \/ n = w /\ meta'[n][f] \in indexing[w][f]
         \/ n # w /\ pull[n][f].pc # "idle"
<1>0. TypeInv /\ EditorInv(w, f)
  BY DEF Ahead, StampsInv, AllEditorInv
<1>1. ASSUME NEW m \in Node, NEW g \in File, NEW v \in indexing[m][g], IndexChange(m, g, v)
      PROVE  n = w /\ meta'[n][f] \in indexing[w][f]
  <2>1. v \in Version /\ meta' = [meta EXCEPT ![m][g] = v]
    BY <1>0, <1>1 DEF IndexChange, TypeInv, TypeOK
  <2>2. m = n /\ g = f /\ meta'[n][f] = v
    BY <1>0, <2>1, SetMeta DEF TypeInv
  <2> QED
    BY <1>0, <2>2 DEF EditorInv
<1>2. ASSUME NEW m \in Node, NEW g \in File, PullStep(m, g)
      PROVE  n # w /\ pull[n][f].pc # "idle"
  <2>1. PICK s \in PullState : PullMove(m, g, s)
    BY <1>0, <1>2, PullEffect, Zenon
  <2>2. PullInstalls(m, g, s)
    BY <2>1 DEF PullMove
  <2>3. pull[m][g].remote \in Version /\ pull[m][g].pc = "install"
    BY <1>0, <2>2 DEF PullInstalls, TypeInv, PullWF
  <2>4. m = n /\ g = f
    BY <1>0, <2>2, <2>3, SetMeta DEF PullInstalls, TypeInv
  <2> QED
    BY <1>0, <2>3, <2>4 DEF EditorInv, SetOut
<1>3. ASSUME NEW m \in Node, NEW g \in File, FileStep(m, g)
      PROVE  (\E v \in indexing[m][g] : IndexChange(m, g, v)) \/ PullStep(m, g)
  <2>1. \A r \in Root : ~StampWrite(m, g, r)
    BY DEF StampWrite
  <2>2. ~AntiEntropy(m, g)
    BY DEF AntiEntropy, ReconcileWithPeer
  <2>3. ~SyncRequest(m, g)
    BY DEF SyncRequest
  <2>4. \A v \in indexing[m][g] : ~IndexFails(m, g, v)
    BY DEF IndexFails
  <2> QED
    BY <1>3, <2>1, <2>2, <2>3, <2>4 DEF FileStep, HandleFileChange, Ingest
<1>4. /\ \A m \in Node, a \in announced : ~HandleAnnouncement(m, a)
      /\ \A m \in Node, a \in announced, k \in Goroutine : ~CompareAnnouncement(m, a, k)
      /\ \A d \in decided : ~ObserveEntry(d) /\ ~ActOn(d)
  BY DEF HandleAnnouncement, CompareAnnouncement, ObserveEntry, ActOn
<1>5. \A m \in Node : ~Restart(m)
  BY DEF Restart
<1>6. vars' # vars
  BY DEF vars
<1>7. PICK m \in Node, g \in File : FileStep(m, g)
  BY <1>4, <1>5, <1>6 DEF Next
<1>8. CASE \E v \in indexing[m][g] : IndexChange(m, g, v)
  BY <1>1, <1>8, Zenon
<1>9. CASE PullStep(m, g)
  BY <1>2, <1>9, Zenon
<1> QED
  BY <1>3, <1>7, <1>8, <1>9, Zenon

\* The node that alone edits a file never loses its own edit to a Pull: every
\* change of its index entry is one of its own changes being indexed, also
\* when the index refuses some of them, and when users of other nodes sync by
\* hand.
THEOREM EditorKeepsItsCopy ==
  ASSUME Calm
  PROVE  Spec => SoleEditorKeepsCopy
<1>1. Ahead /\ [Next]_vars =>
        [\A f \in File, w \in Node :
           SoleEditor(w, f) /\ meta'[w][f] # meta[w][f]
             => meta'[w][f] \in indexing[w][f]]_vars
  BY IndexChanges
<1> QED
  BY <1>1, AheadInvariant, PTL DEF Spec, SoleEditorKeepsCopy

\* A node that differs from the sole editor of a file fetches the editor's
\* version when it next compares the catalogs: nothing that was lost, delayed
\* or refused by the index, and no sync by hand at another node, leaves a copy
\* that remoteWins prefers.
THEOREM LaggardsFetch ==
  ASSUME Calm
  PROVE  Spec => []LaggardsWant
<1>1. Ahead => LaggardsWant
  <2> SUFFICES ASSUME Ahead, NEW f \in File, NEW n \in Node, NEW w \in Node,
                      SoleEditor(w, f), meta[n][f].root # meta[w][f].root,
                      meta[n][f].root # NoRoot
               PROVE  RemoteWins(meta[n][f].ts, n, meta[w][f].ts, w)
    BY DEF LaggardsWant, Wanted
  <2>0. StampsInv /\ EditorInv(w, f)
    BY DEF Ahead, AllEditorInv
  <2>1. meta[n][f] \in Meta /\ meta[w][f] \in Meta
    BY <2>0 DEF StampsInv, TypeInv, TypeOK
  <2>2. meta[n][f] \in Version
    BY <2>1, MetaType
  <2>3. Stamped(f, meta[n][f])
    BY <2>0, <2>2 DEF StampsInv, StampInv
  <2>4. meta[n][f].ts > 0 /\ meta[n][f].ts <= meta[w][f].ts
    BY <2>0, <2>3, SoleVersions DEF EditorInv
  <2>5. meta[n][f].ts \in Nat /\ meta[w][f].ts \in Nat
    BY <2>1, MetaType
  <2>6. meta[w][f] \in Version
    BY <2>1, <2>4, <2>5 DEF Meta, NoMeta
  <2>7. meta[n][f].ts # meta[w][f].ts
    <3>1. Stamped(f, meta[w][f])
      BY <2>0, <2>6 DEF StampsInv, StampInv
    <3> QED
      BY <2>0, <2>3, <3>1, SoleVersions
  <2> QED
    BY <2>4, <2>5, <2>7 DEF RemoteWins
<1> QED
  BY <1>1, AheadInvariant, PTL

\* A node sets out to fetch a file only by a comparison, and only when it is
\* behind the sole editor.
LEMMA OnlyLaggardsSetOut ==
  ASSUME Undisturbed, NEW w \in Node, NEW f \in File, Inv, SoleEditor(w, f), [Next]_vars,
         NEW n \in Node, ~SetOut(n, f), SetOut(n, f)'
  PROVE  meta[n][f] # meta[w][f]
<1>0. TypeInv /\ StampsInv /\ EditorInv(w, f) /\ LevelInv(w, f)
  BY DEF Inv, Ahead, StampsInv, AllEditorInv, AllLevelInv
<1>1. ASSUME NEW m \in Node, NEW h \in File, NEW v, NEW src, NEW g \in Goroutine,
             Compares(m, h, v, src, g)
      PROVE  meta[n][f] # meta[w][f]
  <2> DEFINE x == [node |-> m, by |-> g, file |-> h, ts |-> v.ts]
  <2>1. pull' = pull /\ decided' = decided \cup {x}
    BY <1>1 DEF Compares, Decide
  <2>2. x.node = m /\ x.file = h
    OBVIOUS
  <2> HIDE DEF x
  <2>3. m = n /\ h = f
    BY <2>1, <2>2 DEF SetOut, Undone
  <2>4. meta[n][f].ts < meta[w][f].ts
    BY <1>0, <1>1, <2>3, OnlyLaggardsDecide
  <2>5. meta[w][f].ts \in Nat
    BY <1>0, EditorClock, Zenon
  <2>6. meta[n][f].ts # meta[w][f].ts
    BY <2>4, <2>5
  <2> QED
    BY <2>6, Zenon
<1>2. ~(decided' \subseteq decided /\ pull'[n][f] = pull[n][f])
  BY DEF SetOut, Undone
<1>3. ASSUME NEW m \in Node, NEW g \in File, PullStep(m, g) PROVE FALSE
  <2>1. PICK s \in PullState : PullMove(m, g, s)
    BY <1>0, <1>3, PullEffect, Zenon
  <2>2. <<m, g>> # <<n, f>>
    BY <2>1 DEF PullMove, SetOut
  <2>3. decided' = decided /\ pull'[n][f] = pull[n][f]
    BY <1>0, <2>1, <2>2 DEF PullMove, TypeInv, TypeOK
  <2> QED
    BY <1>2, <2>3
<1>4. ASSUME NEW d \in decided, ActOn(d) PROVE FALSE
  <2>1. d.node \in Node /\ d.file \in File
    BY <1>0 DEF TypeInv, TypeOK, Decision
  <2>2. <<n, f>> # <<d.node, d.file>>
    BY DEF SetOut, Undone
  <2>3. decided' \subseteq decided /\ pull'[n][f] = pull[n][f]
    BY <1>0, <1>4, <2>1, <2>2, TriggerSyncInstalls DEF ActOn
  <2> QED
    BY <1>2, <2>3
<1>5. ASSUME NEW m \in Node, Restart(m) PROVE FALSE
  <2>1. pull'[n][f] = IF n = m THEN Idle ELSE pull[n][f]
    BY <1>0, <1>5 DEF Restart, TypeInv, TypeOK
  <2>2. decided' \subseteq decided
    BY <1>5 DEF Restart
  <2> QED
    BY <2>1, <2>2, IdleType DEF SetOut, Undone
<1>6. ASSUME NEW m \in Node, NEW g \in File, FileStep(m, g)
      PROVE  meta[n][f] # meta[w][f]
  <2>1. \A r \in Root : ~StampWrite(m, g, r)
    BY <1>2 DEF StampWrite
  <2>2. \A v \in indexing[m][g] : ~IndexChange(m, g, v) /\ ~IndexFails(m, g, v)
    BY <1>2 DEF IndexChange, IndexFails
  <2>3. ~SyncRequest(m, g)
    BY DEF SyncRequest, Undisturbed
  <2>4. CASE AntiEntropy(m, g)
    <3>0. PICK p \in Node, k \in Goroutine :
            \E v \in ListCatalog(p, g) : ReconcileWithPeer(m, p, g, v, k)
      BY <2>4, Zenon DEF AntiEntropy
    <3>1. PICK v \in ListCatalog(p, g) : ReconcileWithPeer(m, p, g, v, k)
      BY <3>0, Zenon
    <3>2. Compares(m, g, v, p, k)
      BY <1>0, <3>1, CompareEffect, Zenon DEF TypeInv
    <3> QED
      BY <1>1, <3>2, Zenon
  <2> QED
    BY <1>3, <1>6, <2>1, <2>2, <2>3, <2>4 DEF FileStep, HandleFileChange, Ingest
<1>7. \A m \in Node, a \in announced : ~HandleAnnouncement(m, a)
  BY <1>2 DEF HandleAnnouncement
<1>8. \A d \in decided : ~ObserveEntry(d)
  BY <1>2 DEF ObserveEntry
<1>9. ASSUME NEW m \in Node, NEW a \in announced, NEW g \in Goroutine, CompareAnnouncement(m, a, g)
      PROVE  meta[n][f] # meta[w][f]
  <2>1. a.file \in File
    BY <1>0 DEF TypeInv, TypeOK, Announcement
  <2>2. Compares(m, a.file, a, a.source, g)
    BY <1>0, <1>9, CompareEffect, Zenon DEF TypeInv
  <2> QED
    BY <1>1, <2>1, <2>2, Zenon
<1>10. vars' # vars
  BY <1>2 DEF vars
<1> QED
  BY <1>4, <1>5, <1>6, <1>7, <1>8, <1>9, <1>10 DEF Next

\* A node that is level with the sole editor of a file, with no Pull of the file
\* and no decision to fetch it under way, stays so until the editor indexes
\* another version: no late announcement or catalog sets it going.
THEOREM LevelCopiesStick ==
  ASSUME Undisturbed
  PROVE  Spec => SettledCopySticks
<1>1. Inv /\ [Next]_vars =>
        [\A f \in File, n, w \in Node :
           SoleEditor(w, f) /\ Settled(n, w, f) /\ meta'[w][f] = meta[w][f]
             => Settled(n, w, f)']_vars
  <2> SUFFICES ASSUME Inv, [Next]_vars, NEW f \in File, NEW n \in Node, NEW w \in Node,
                      SoleEditor(w, f), Settled(n, w, f), meta'[w][f] = meta[w][f]
               PROVE  Settled(n, w, f)'
    OBVIOUS
  <2>1. meta'[n][f] = meta[n][f]
    BY IndexChanges DEF Inv, Settled, SetOut
  <2>2. ~SetOut(n, f)'
    BY OnlyLaggardsSetOut DEF Settled
  <2> QED
    BY <2>1, <2>2 DEF Settled
<1> QED
  BY <1>1, SoleInvariant, PTL DEF Spec, SettledCopySticks

-----------------------------------------------------------------------------
(***************************************************************************)
(* Replication implements SharedFiles when one node edits each file.       *)
(***************************************************************************)
OneEditor == \A f \in File : \E w \in Node : SoleEditor(w, f)

PublishedOf == [f \in File |-> Published(f)]
FetchingOf == [f \in File |-> {n \in Node : SetOut(n, f)}]

StampBound == \A s \in written : s.ts <= MaxTS

\* The writer of a file is its sole editor.
LEMMA WriterEdits ==
  ASSUME OneEditor, NEW f \in File
  PROVE  WriterOf[f] \in Node /\ SoleEditor(WriterOf[f], f)
BY DEF OneEditor, WriterOf

\* Timestamps stay below the bound.
LEMMA BoundStep ==
  ASSUME TypeInv, StampBound, [Next]_vars
  PROVE  StampBound'
<1>1. ASSUME NEW n \in Node, NEW f \in File, NEW r \in Root, StampWrite(n, f, r)
      PROVE  StampBound'
  BY <1>1, ConstantsAssumption DEF StampWrite, StampBound, TypeInv, TypeOK
<1>2. ASSUME NEW n \in Node, NEW f \in File, PullStep(n, f)
      PROVE  written' = written
  BY <1>2, PullEffect DEF PullMove
<1>3. CASE written' = written
  BY <1>3 DEF StampBound
<1>4. ASSUME NEW n \in Node, NEW f \in File, FileStep(n, f)
      PROVE  StampBound'
  <2>1. CASE \E v \in indexing[n][f] : IndexChange(n, f, v) \/ IndexFails(n, f, v)
    BY <1>3, <2>1 DEF IndexChange, IndexFails
  <2>2. CASE AntiEntropy(n, f)
    BY <1>3, <2>2 DEF AntiEntropy, ReconcileWithPeer
  <2>3. CASE SyncRequest(n, f)
    BY <1>3, <2>3 DEF SyncRequest
  <2> QED
    BY <1>1, <1>2, <1>3, <1>4, <2>1, <2>2, <2>3, Zenon DEF FileStep, HandleFileChange, Ingest
<1>5. ASSUME \/ \E n \in Node, a \in announced : HandleAnnouncement(n, a)
             \/ \E n \in Node, a \in announced, g \in Goroutine : CompareAnnouncement(n, a, g)
             \/ \E d \in decided : ObserveEntry(d) \/ ActOn(d)
             \/ \E n \in Node : Restart(n)
             \/ UNCHANGED vars
      PROVE  written' = written
  BY <1>5 DEF HandleAnnouncement, CompareAnnouncement, ObserveEntry, ActOn, Restart, vars
<1> QED
  BY <1>3, <1>4, <1>5, Zenon DEF Next

\* A stamp changes what is on its way to the index, and nothing that is
\* published: its timestamp is new.
LEMMA StampPublishesNothing ==
  ASSUME Undisturbed, OneEditor, Inv,
         NEW n \in Node, NEW g \in File, NEW r \in Root, StampWrite(n, g, r)
  PROVE  meta' = meta /\ PublishedOf' = PublishedOf
<1> DEFINE v == [root |-> r, ts |-> clock[n] + 1]
           t == [file |-> g, root |-> r, ts |-> clock[n] + 1, node |-> n]
<1>1. /\ meta' = meta /\ written' = written \cup {t} /\ n \in Editors[g]
      /\ indexing' = [indexing EXCEPT ![n][g] = @ \cup {v}]
  BY DEF StampWrite
<1>2. v.ts = clock[n] + 1 /\ t.file = g /\ v = [root |-> t.root, ts |-> t.ts]
  OBVIOUS
<1>3. clock[n] \in Nat /\ \A s \in written : s.ts \in Nat
  BY DEF Inv, Ahead, StampsInv, TypeInv, TypeOK, Stamp
<1>4. \A s \in written : s.file = g => s.ts <= clock[n]
  BY <1>1, WriterEdits DEF SoleEditor, Inv, Ahead, StampsInv, ClockInv
<1>5. \A s \in written : s.file = g => [root |-> s.root, ts |-> s.ts] # v
  <2>1. \A s \in written : s.file = g => s.ts # v.ts
    BY <1>2, <1>3, <1>4
  <2> QED BY <2>1
<1> HIDE DEF v, t
<1>6. \A m \in Node, f \in File :
        indexing'[m][f] = IF m = n /\ f = g THEN indexing[m][f] \cup {v} ELSE indexing[m][f]
  BY <1>1, Zenon DEF Inv, Ahead, StampsInv, TypeInv, TypeOK
<1>7. ASSUME NEW f \in File, f # g PROVE Published(f)' = Published(f)
  BY <1>1, <1>2, <1>6, <1>7 DEF Published
<1>8. Published(g)' = Published(g)
  BY <1>1, <1>2, <1>5, <1>6 DEF Published
<1> QED BY <1>1, <1>7, <1>8 DEF PublishedOf

\* Indexing a change publishes it.
LEMMA IndexPublishes ==
  ASSUME OneEditor, Inv, StampBound, NEW n \in Node, NEW g \in File,
         NEW v \in indexing[n][g], IndexChange(n, g, v)
  PROVE  Shared!Publish(g)
<1>1. /\ meta' = [meta EXCEPT ![n][g] = v] /\ written' = written
      /\ indexing' = [indexing EXCEPT ![n][g] = @ \ {v}]
  BY DEF IndexChange
<1>2. v \in Version /\ Stamped(g, v)
  BY DEF Inv, Ahead, StampsInv, TypeInv, TypeOK, StampInv
<1>3. n = WriterOf[g]
  BY WriterEdits DEF Inv, Ahead, AllEditorInv, EditorInv
<1>4. v \in StampedVersion
  <2>1. PICK s \in written : s.file = g /\ s.root = v.root /\ s.ts = v.ts
    BY <1>2 DEF Stamped
  <2>2. 0 < v.ts
    BY <1>2, <1>3, WriterEdits, SoleVersions DEF Inv, Ahead
  <2>3. 0 < s.ts /\ s.ts <= MaxTS
    BY <2>1, <2>2 DEF StampBound
  <2>4. v.ts \in 1..MaxTS
    BY <1>2, <2>1, <2>3, ConstantsAssumption DEF Version
  <2> QED BY <1>2, <2>4 DEF Version, StampedVersion
<1>5. \A m \in Node, f \in File :
        indexing'[m][f] = IF m = n /\ f = g THEN indexing[m][f] \ {v} ELSE indexing[m][f]
  BY <1>1, Zenon DEF Inv, Ahead, StampsInv, TypeInv, TypeOK
<1>6. \A m \in Node : v \in indexing[m][g] => m = n
  BY <1>3, WriterEdits DEF Inv, Ahead, AllEditorInv, EditorInv
<1>7. \E s \in written : s.file = g /\ v = [root |-> s.root, ts |-> s.ts]
  BY <1>2 DEF Stamped, Version
<1>8. ASSUME NEW f \in File, f # g PROVE Published(f)' = Published(f)
  BY <1>1, <1>5, <1>8 DEF Published
<1>9. Published(g)' = Published(g) \cup {v}
  <2> DEFINE Stamps == {[root |-> s.root, ts |-> s.ts] : s \in {t \in written : t.file = g}}
  <2>1. v \in Stamps
    BY <1>7
  <2>2. UNION {indexing'[m][g] : m \in Node} = (UNION {indexing[m][g] : m \in Node}) \ {v}
    <3>1. \A m \in Node : indexing'[m][g] = indexing[m][g] \ {v}
      BY <1>5, <1>6, Zenon
    <3>2. \A x : x \in UNION {indexing'[m][g] : m \in Node}
                 <=> \E m \in Node : x \in indexing'[m][g]
      BY Zenon
    <3>3. \A x : x \in UNION {indexing[m][g] : m \in Node}
                 <=> \E m \in Node : x \in indexing[m][g]
      BY Zenon
    <3>4. \A x : (\E m \in Node : x \in indexing'[m][g])
                 <=> x # v /\ \E m \in Node : x \in indexing[m][g]
      BY <3>1, Zenon
    <3>5. \A x : x \in UNION {indexing'[m][g] : m \in Node}
                 <=> x \in (UNION {indexing[m][g] : m \in Node}) \ {v}
      BY <3>2, <3>3, <3>4, Zenon
    <3> QED BY <3>5, Zenon
  <2>3. Published(g) = Stamps \ UNION {indexing[m][g] : m \in Node}
    BY DEF Published
  <2>4. Published(g)' = Stamps \ UNION {indexing'[m][g] : m \in Node}
    BY <1>1 DEF Published
  <2> HIDE DEF Stamps
  <2> QED BY <2>1, <2>2, <2>3, <2>4
<1>10. v \notin Published(g)
  BY DEF Published
<1>11. PublishedOf' = [PublishedOf EXCEPT ![g] = @ \cup {v}]
  BY <1>8, <1>9, Zenon DEF PublishedOf
<1> QED
  BY <1>1, <1>3, <1>4, <1>10, <1>11 DEF Shared!Publish, PublishedOf

\* A Pull that installs a version fetches a published one.
LEMMA InstallFetches ==
  ASSUME OneEditor, Inv, NEW n \in Node, NEW g \in File, PullStep(n, g)
  PROVE  Shared!Fetch(n, g) \/ UNCHANGED <<meta, PublishedOf>>
<1>1. PICK s \in PullState : PullMove(n, g, s)
  BY PullEffect DEF Inv, Ahead, StampsInv
<1>2. indexing' = indexing /\ written' = written
  BY <1>1 DEF PullMove
<1>3. PublishedOf' = PublishedOf
  BY <1>2 DEF PublishedOf, Published
<1>4. CASE meta' = meta
  BY <1>3, <1>4
<1>5. CASE PullInstalls(n, g, s)
  <2> DEFINE v == pull[n][g].remote
             w == WriterOf[g]
  <2>1. /\ v \in Version /\ Stamped(g, v) /\ pull[n][g].pc = "install"
        /\ meta' = [meta EXCEPT ![n][g] = v]
    BY <1>5 DEF PullInstalls, Inv, Ahead, StampsInv, TypeInv, PullWF, StampInv
  <2>2. w \in Node /\ SoleEditor(w, g) /\ EditorInv(w, g)
    BY WriterEdits DEF Inv, Ahead, AllEditorInv
  <2> HIDE DEF w
  <2>3. v.ts <= meta[w][g].ts
    BY <2>1, <2>2 DEF EditorInv
  <2> HIDE DEF v
  <2>4. /\ meta[w][g].ts \in Nat /\ v.ts \in Nat
        /\ \A m \in Node : \A x \in indexing[m][g] : x.ts \in Nat
    BY <2>1, <2>2, MetaType DEF Inv, Ahead, StampsInv, TypeInv, TypeOK, Version
  <2>5. n # w /\ n \in FetchingOf[g]
    BY <2>1, <2>2 DEF EditorInv, FetchingOf, SetOut
  <2>6. ASSUME NEW m \in Node, v \in indexing[m][g] PROVE FALSE
    <3>1. m = w
      BY <2>2, <2>6, Zenon DEF EditorInv
    <3>2. v.ts > meta[w][g].ts
      BY <2>2, <2>6, <3>1, Zenon DEF EditorInv
    <3> QED BY <2>3, <2>4, <3>2
  <2>7. v \in Published(g)
    <3>1. \E x \in written : x.file = g /\ v = [root |-> x.root, ts |-> x.ts]
      BY <2>1 DEF Stamped, Version
    <3> QED BY <2>6, <3>1 DEF Published
  <2> QED BY <1>3, <2>1, <2>5, <2>7 DEF w, Shared!Fetch, PublishedOf, FetchingOf
<1> QED BY <1>1, <1>4, <1>5 DEF PullMove

\* Every step of the cluster is a step of the shared files, or changes nothing
\* of them.
LEMMA SharedStep ==
  ASSUME Undisturbed, OneEditor, Inv, StampBound, [Next]_vars
  PROVE  Shared!Next
<1> DEFINE Moves == \/ \E f \in File : Shared!Publish(f) \/ \E n \in Node : Shared!Fetch(n, f)
                    \/ UNCHANGED <<meta, PublishedOf>>
<1>1. ASSUME UNCHANGED <<meta, indexing, written>>
      PROVE  UNCHANGED <<meta, PublishedOf>>
  BY <1>1 DEF PublishedOf, Published
<1>2. ASSUME NEW n \in Node, NEW f \in File, FileStep(n, f)
      PROVE  Moves
  <2>1. CASE \E r \in Root : StampWrite(n, f, r)
    BY <2>1, StampPublishesNothing
  <2>2. CASE \E v \in indexing[n][f] : IndexChange(n, f, v)
    BY <2>2, IndexPublishes
  <2>3. CASE PullStep(n, f)
    BY <2>3, InstallFetches
  <2>4. CASE SyncRequest(n, f) \/ AntiEntropy(n, f)
    BY <1>1, <2>4 DEF SyncRequest, AntiEntropy, ReconcileWithPeer
  <2>5. ~ \E v \in indexing[n][f] : IndexFails(n, f, v)
    BY DEF IndexFails, Undisturbed
  <2> QED
    BY <1>2, <2>1, <2>2, <2>3, <2>4, <2>5, Zenon DEF FileStep, HandleFileChange, Ingest
<1>3. ASSUME NEW n \in Node, NEW a \in announced, HandleAnnouncement(n, a)
      PROVE  UNCHANGED <<meta, indexing, written>>
  BY <1>3 DEF HandleAnnouncement
<1>6. ASSUME NEW n \in Node, NEW a \in announced, NEW g \in Goroutine, CompareAnnouncement(n, a, g)
      PROVE  UNCHANGED <<meta, indexing, written>>
  BY <1>6 DEF CompareAnnouncement
<1>7. ASSUME NEW d \in decided, ObserveEntry(d) \/ ActOn(d)
      PROVE  UNCHANGED <<meta, indexing, written>>
  BY <1>7 DEF ObserveEntry, ActOn
<1>4. ASSUME NEW n \in Node, Restart(n) PROVE UNCHANGED <<meta, indexing, written>>
  <2>1. meta' = meta /\ written' = written /\ n \in Restarting
    BY <1>4 DEF Restart
  <2>2. indexing \in [Node -> [File -> SUBSET Version]]
    BY DEF Inv, Ahead, StampsInv, TypeInv, TypeOK
  <2>3. \A f \in File : indexing[n][f] = {}
    BY <2>1, WriterEdits DEF SoleEditor, Inv, Ahead, AllEditorInv, EditorInv
  <2>4. indexing' = [indexing EXCEPT ![n] = [f \in File |-> {}]]
    BY <1>4 DEF Restart
  <2>5. indexing[n] = [f \in File |-> {}]
    BY <2>2, <2>3
  <2>6. indexing' = indexing
    BY <2>2, <2>4, <2>5
  <2> QED
    BY <2>1, <2>6
<1>5. ASSUME UNCHANGED vars PROVE UNCHANGED <<meta, indexing, written>>
  BY <1>5 DEF vars
<1>8. Moves
  <2>1. CASE UNCHANGED <<meta, indexing, written>>
    BY <1>1, <2>1
  <2> HIDE DEF Moves
  <2> QED
    BY <1>2, <1>3, <1>4, <1>5, <1>6, <1>7, <2>1 DEF Next
<1>9. Shared!SetsOut
  <2> SUFFICES ASSUME NEW f \in File, NEW n \in Node, SetOut(n, f)', ~SetOut(n, f)
               PROVE  n \in Shared!Behind(f)
    BY DEF Shared!SetsOut
  <2>1. WriterOf[f] \in Node /\ SoleEditor(WriterOf[f], f)
    BY WriterEdits
  <2>2. meta[n][f] # meta[WriterOf[f]][f]
    BY <2>1, OnlyLaggardsSetOut
  <2> QED
    BY <2>2 DEF Shared!Behind, Shared!Current
<1> QED
  BY <1>8, <1>9 DEF Shared!Next, PublishedOf

\* If one node edits each file and keeps running, and without overlapping
\* changes, manual syncs and index errors, the replication protocol implements
\* the shared files: every copy is a published version, and a node sets out to
\* replace its copy only when it is not the current one, in any cluster and
\* through any loss of messages and any restarts of the nodes that edit nothing.
THEOREM ReplicationSharesFiles ==
  ASSUME Undisturbed, OneEditor
  PROVE  Spec => SharesFiles
<1>1. Init => Shared!Init
  <2> SUFFICES ASSUME Init PROVE Shared!Init
    OBVIOUS
  <2>1. \A f \in File : Published(f) = {}
    BY DEF Init, Published
  <2>2. \A f \in File, n \in Node : ~SetOut(n, f)
    BY IdleType DEF Init, SetOut, Undone
  <2>3. \A f \in File : {n \in Node : SetOut(n, f)} = {}
    BY <2>2
  <2>4. meta = [n \in Node |-> [f \in File |-> NoMeta]]
    BY DEF Init
  <2>5. [f \in File |-> Published(f)] = [f \in File |-> {}]
    BY <2>1
  <2>6. [f \in File |-> {n \in Node : SetOut(n, f)}] = [f \in File |-> {}]
    BY <2>3
  <2> QED
    BY <2>4, <2>5, <2>6 DEF Shared!Init
<1>2. Init => StampBound
  BY DEF Init, StampBound
<1>3. Inv /\ StampBound /\ [Next]_vars => StampBound'
  BY BoundStep DEF Inv, Ahead, StampsInv
<1>4. Spec => []StampBound
  BY <1>2, <1>3, SoleInvariant, PTL DEF Spec
<1>5. Inv /\ StampBound /\ [Next]_vars => [Shared!Next]_(Shared!vars)
  BY SharedStep
<1> QED
  BY <1>1, <1>4, <1>5, SoleInvariant, PTL DEF Spec, SharesFiles, Shared!Spec

=============================================================================
