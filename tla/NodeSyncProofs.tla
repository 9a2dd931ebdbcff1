--------------------------- MODULE NodeSyncProofs ---------------------------
(***************************************************************************)
(* Proof that what a node's index lists is in its content store, for every *)
(* set of contents, any number of HandleFileChange goroutines and any      *)
(* number of edits, syncs and restarts.  That a node which only receives   *)
(* the file indexes whole versions only, sees what a failed Pull has left  *)
(* damaged, and implements a copy of SharedFiles.  And that a save stays   *)
(* on its way until it is indexed.                                         *)
(***************************************************************************)
EXTENDS NodeSync, MerkleProofs

\* A Pull gets past Diff only if the peer has the file, so the metadata it fetches
\* is a content, which has chunks to write into the file it created.
RemoteKnown ==
  /\ behind \/ pull.pc \notin {"idle", "diff"} => remote # NoFile
  /\ pull.pc \in {"fetch", "create", "write"} => pull.meta \in Seq(Block)
  /\ pull.pc = "write" => disk # NoFile

\* What a Pull has assembled so far was in the store: CAS.Get has found it.
FromStore ==
  /\ pull.pc # "write" => pull.next = 1
  /\ pull.pc = "write" =>
       \A i \in 1..Len(pull.meta) : i < pull.next => pull.meta[i] \in cas

\* The chunks of a local change are stored before the version is indexed, by the
\* loop of CAS.Put, or refused.
StoredFirst ==
  \A h \in Handler : handler[h].pc = "put" => ChunksOf(handler[h].content) \subseteq cas \cup refused

TypeInv == TypeOK /\ RemoteKnown
Inv == TypeInv /\ FromStore /\ StoredFirst /\ IndexBacked

\* Contents are files, and no content is the absent file.
LEMMA ContentFile ==
  /\ Content \subseteq Seq(Block)
  /\ Content \subseteq File
  /\ NoFile \in File
  /\ NoFile \notin Content
<1>1. Seq(Chunk) \subseteq Seq(Block)
  BY DEF Block
<1> QED
  BY <1>1, NodeSyncAssumption DEF Block, File

\* The chunks of a file are blocks.
LEMMA ChunksOfType ==
  ASSUME NEW c \in File
  PROVE  ChunksOf(c) \subseteq Block
BY DEF File, ChunksOf

\* The idle states are well-typed.
LEMMA IdleTypes ==
  /\ HandlerIdle \in HandlerState /\ HandlerIdle.pc = "idle"
  /\ PullIdle \in PullState /\ PullIdle.pc = "idle"
BY ContentFile DEF HandlerIdle, HandlerState, PullIdle, PullState

\* A Pull starts writing at the first chunk.
LEMMA IdleNext == PullIdle.next = 1
BY DEF PullIdle

\* Writing a block into a file gives a file.
LEMMA WriteAtType ==
  ASSUME NEW d \in Seq(Block), NEW i \in Nat \ {0}, NEW c \in Block
  PROVE  WriteAt(d, i, c) \in Seq(Block)
<1> DEFINE n == IF Len(d) < i THEN i ELSE Len(d)
<1>1. n \in Nat
  OBVIOUS
<1>2. \A j \in 1..n : (IF j = i THEN c ELSE IF j <= Len(d) THEN d[j] ELSE Hole) \in Block
  BY DEF Block
<1> QED
  BY <1>1, <1>2 DEF WriteAt

\* Each operation keeps the types.
LEMMA TypeStep == TypeInv /\ [Next]_vars => TypeInv'
<1> SUFFICES ASSUME TypeInv, [Next]_vars PROVE TypeInv'
  OBVIOUS
<1> USE DEF TypeInv, local, memory, history, bounds, peer
<1>t. TypeOK /\ RemoteKnown
  OBVIOUS
<1>p. pull \in PullState /\ handler \in [Handler -> HandlerState]
  BY DEF TypeOK
<1>h. ASSUME NEW h \in Handler, NEW s \in HandlerState, SetHandler(h, s)
      PROVE  handler' \in [Handler -> HandlerState]
  BY <1>p, <1>h DEF SetHandler
<1>1. ASSUME NEW c \in Content, UserSaves(c)
      PROVE  TypeInv'
  <2>0. uses' \in Nat /\ disk' \in File /\ disturbed' \in BOOLEAN
    BY <1>1, ContentFile DEF UserSaves, TypeOK
  <2>1. TypeOK'
    BY <1>1, <2>0, Zenon DEF UserSaves, TypeOK
  <2>2. RemoteKnown'
    BY <1>1, ContentFile DEF UserSaves, RemoteKnown
  <2> QED
    BY <2>1, <2>2
<1>2. ASSUME NEW c \in Content, PeerChanges(c)
      PROVE  TypeInv'
  BY <1>2, ContentFile DEF PeerChanges, TypeOK, RemoteKnown
<1>3. ASSUME NEW h \in Handler, Fire(h)
      PROVE  TypeInv'
  <2>1. [HandlerIdle EXCEPT !.pc = "read"] \in HandlerState
    BY IdleTypes DEF HandlerState
  <2>2. handler' \in [Handler -> HandlerState]
    BY <1>3, <1>h, <2>1, IdleTypes DEF Fire
  <2> QED
    BY <1>3, <2>2, Zenon DEF Fire, TypeOK, RemoteKnown
<1>4. ASSUME NEW h \in Handler, ReadFile(h)
      PROVE  TypeInv'
  <2>1. [pc |-> "compare", content |-> disk] \in HandlerState
    BY DEF HandlerState, TypeOK
  <2>2. handler' \in [Handler -> HandlerState]
    BY <1>4, <1>h, <2>1 DEF ReadFile
  <2> QED
    BY <1>4, <2>2 DEF ReadFile, TypeOK, RemoteKnown
<1>5. ASSUME NEW h \in Handler, CompareRoot(h)
      PROVE  TypeInv'
  <2>1. [handler[h] EXCEPT !.pc = "store"] \in HandlerState
    BY <1>p DEF HandlerState
  <2>2. handler' \in [Handler -> HandlerState]
    BY <1>5, <1>h, <2>1, IdleTypes DEF CompareRoot
  <2> QED
    BY <1>5, <2>2 DEF CompareRoot, TypeOK, RemoteKnown
<1>6. ASSUME NEW h \in Handler, StoreChunks(h)
      PROVE  TypeInv'
  <2>1. [handler[h] EXCEPT !.pc = "put"] \in HandlerState /\ handler[h].content \in File
    BY <1>p DEF HandlerState
  <2>2. handler' \in [Handler -> HandlerState]
    BY <1>6, <1>h, <2>1 DEF StoreChunks
  <2>3. cas' \subseteq Block /\ refused' \subseteq Block
    BY <1>6, <2>1, ChunksOfType DEF StoreChunks, TypeOK
  <2> QED
    BY <1>6, <2>2, <2>3 DEF StoreChunks, TypeOK, RemoteKnown
<1>7. ASSUME NEW h \in Handler, PutLocalMeta(h)
      PROVE  TypeInv'
  <2>1. handler' \in [Handler -> HandlerState]
    BY <1>7, <1>h, IdleTypes DEF PutLocalMeta
  <2>2. index' \in File
    BY <1>7, <1>p DEF PutLocalMeta, HandlerState
  <2>3. behind' = behind \/ behind' = FALSE
    BY <1>7, Zenon DEF PutLocalMeta
  <2>4. TypeOK'
    BY <1>7, <2>1, <2>2, <2>3, Zenon DEF PutLocalMeta, TypeOK
  <2>5. RemoteKnown'
    BY <1>7, <2>3 DEF PutLocalMeta, RemoteKnown
  <2> QED
    BY <2>4, <2>5
<1>8. CASE PullStart
  <2>1. [PullIdle EXCEPT !.pc = "diff", !.local = index] \in PullState
    BY IdleTypes, Zenon DEF PullState, TypeOK
  <2>2. pull' \in PullState /\ pull'.pc = "diff"
    BY <1>8, <2>1, IdleTypes DEF PullStart, PullState
  <2> QED
    BY <1>8, <2>2 DEF PullStart, TypeOK, RemoteKnown
<1>9. CASE PullDiff
  <2>1. ChunksOf(remote) \subseteq Block
    BY ContentFile, ChunksOfType DEF TypeOK
  <2>0. SameRoot(pull.local, remote) \in BOOLEAN
    BY Zenon DEF SameRoot
  <2>2. pull' \in PullState /\ pull'.pc = "meta"
    BY <1>9, <1>p, <2>0, <2>1, Zenon DEF PullDiff, PullState
  <2> QED
    BY <1>9, <2>2 DEF PullDiff, TypeOK, RemoteKnown
<1>10. CASE PullMeta
  <2>1. remote \in Seq(Block) /\ remote \in File
    BY <1>10, ContentFile DEF PullMeta, TypeOK, RemoteKnown
  <2>2. pull' \in PullState
    BY <1>10, <1>p, <2>1, IdleTypes, Zenon DEF PullMeta, PullState
  <2>3. pull' = PullIdle \/ (pull'.pc = "fetch" /\ pull'.meta = remote)
    BY <1>10, <1>p DEF PullMeta, PullState
  <2> QED
    BY <1>10, <2>1, <2>2, <2>3, IdleTypes DEF PullMeta, TypeOK, RemoteKnown
<1>11. ASSUME NEW c \in pull.missing, PullFetch(c)
       PROVE  TypeInv'
  <2>1. pull' \in PullState /\ pull'.pc = "fetch" /\ pull'.meta = pull.meta
    BY <1>11, <1>p DEF PullFetch, PullState
  <2>2. cas' \subseteq Block
    BY <1>11, <1>p DEF PullFetch, PullState, TypeOK
  <2> QED
    BY <1>11, <2>1, <2>2 DEF PullFetch, TypeOK, RemoteKnown
<1>12. ASSUME NEW c \in pull.missing, PullFetchFails(c)
       PROVE  TypeInv'
  <2>1. pull' \in PullState /\ pull'.pc = "fetch" /\ pull'.meta = pull.meta
    BY <1>12, <1>p, Zenon DEF PullFetchFails, PullState
  <2> QED
    BY <1>12, <2>1 DEF PullFetchFails, TypeOK, RemoteKnown
<1>13. CASE PullFetched
  <2>1. pull' \in PullState
    BY <1>13, <1>p, IdleTypes DEF PullFetched, PullState
  <2>2. pull' = PullIdle \/ (pull'.pc = "create" /\ pull'.meta = pull.meta)
    BY <1>13, <1>p DEF PullFetched, PullState
  <2>3. quiet' \in BOOLEAN /\ disturbed' \in BOOLEAN
    BY <1>13, Zenon DEF PullFetched, TypeOK
  <2> QED
    BY <1>13, <2>1, <2>2, <2>3, IdleTypes DEF PullFetched, TypeOK, RemoteKnown
<1>14. CASE PullCreate
  <2>1. pull' \in PullState /\ pull'.pc = "write" /\ pull'.meta = pull.meta
    BY <1>14, <1>p DEF PullCreate, PullState
  <2>2. pull.meta \in Seq(Block)
    BY <1>14 DEF PullCreate, RemoteKnown
  <2>3. disk' \in File /\ disk' # NoFile
    <3>1. disk' \in Seq(Block)
      BY <1>14, <2>2 DEF PullCreate, Block
    <3> QED
      BY <3>1, NodeSyncAssumption DEF File, Block
  <2> QED
    BY <1>14, <2>1, <2>2, <2>3 DEF PullCreate, TypeOK, RemoteKnown
<1>15. CASE PullInstall
  <2>1. index' \in File
    BY <1>15, <1>p DEF PullInstall, PullState
  <2>2. behind' \in BOOLEAN /\ remote # NoFile
    BY <1>15 DEF PullInstall, RemoteKnown
  <2> QED
    BY <1>15, <2>1, <2>2, IdleTypes DEF PullInstall, TypeOK, RemoteKnown
<1>16. CASE PullWrite
  <2>1. pull.meta \in Seq(Block) /\ disk \in Seq(Block) /\ pull.next \in Nat \ {0}
    BY <1>16, <1>p DEF PullWrite, RemoteKnown, TypeOK, File, PullState
  <2>2. CASE pull.meta[pull.next] \in cas
    <3>1. disk' = WriteAt(disk, pull.next, pull.meta[pull.next])
      BY <1>16, <2>2 DEF PullWrite
    <3>2. pull.meta[pull.next] \in Block
      BY <1>16, <2>1 DEF PullWrite
    <3>3. disk' \in Seq(Block)
      BY <2>1, <3>1, <3>2, WriteAtType, Zenon
    <3>4. disk' \in File /\ disk' # NoFile
      BY <3>3, NodeSyncAssumption DEF File, Block
    <3>5. pull' \in PullState /\ pull'.pc = "write" /\ pull'.meta = pull.meta
      <4>1. PICK k \in Nat \ {0} : k = pull.next + 1
        BY <2>1
      <4>2. pull' = [pull EXCEPT !.next = k] /\ pull.pc = "write"
        BY <1>16, <2>2, <4>1 DEF PullWrite
      <4> QED
        BY <1>p, <4>2 DEF PullState
    <3>6. timer' = TRUE /\ own' = TRUE
      BY <1>16, <2>2 DEF PullWrite
    <3> QED
      BY <1>16, <2>1, <3>4, <3>5, <3>6 DEF PullWrite, TypeOK, RemoteKnown
  <2>3. CASE pull.meta[pull.next] \notin cas
    <3>1. pull' = PullIdle /\ UNCHANGED <<disk, timer, own>>
      BY <1>16, <2>3 DEF PullWrite
    <3> QED
      BY <1>16, <3>1, IdleTypes DEF PullWrite, TypeOK, RemoteKnown
  <2> QED
    BY <2>2, <2>3
<1>17. CASE QuietExpires
  BY <1>17, Zenon DEF QuietExpires, TypeOK, RemoteKnown
<1>18. CASE Restart
  <2>1. handler' \in [Handler -> HandlerState] /\ pull' \in PullState /\ pull'.pc = "idle"
    BY <1>18, IdleTypes DEF Restart
  <2>0. restarts' \in Nat
    BY <1>18 DEF Restart, TypeOK
  <2>2. TypeOK'
    BY <1>18, <2>0, <2>1, Zenon DEF Restart, TypeOK
  <2>3. RemoteKnown'
    BY <1>18, <2>1 DEF Restart, RemoteKnown
  <2> QED
    BY <2>2, <2>3
<1>19. CASE UNCHANGED vars
  BY <1>19 DEF vars, TypeOK, RemoteKnown
<1>20. ASSUME NEW h \in Handler, Ingest(h)
       PROVE  TypeInv'
  <2>1. [pc |-> "store", content |-> disk] \in HandlerState
    BY DEF HandlerState, TypeOK
  <2>2. handler' \in [Handler -> HandlerState] /\ uses' \in Nat
    BY <1>20, <1>h, <2>1 DEF Ingest, TypeOK
  <2> QED
    BY <1>20, <2>2 DEF Ingest, TypeOK, RemoteKnown
<1>21. ASSUME NEW h \in Handler, ReadFails(h) \/ PutFails(h)
       PROVE  TypeInv'
  <2>1. handler' \in [Handler -> HandlerState]
    BY <1>21, <1>h, IdleTypes DEF ReadFails, PutFails
  <2>2. disturbed' \in BOOLEAN
    BY <1>21, Zenon DEF ReadFails, PutFails, TypeOK
  <2>3. UNCHANGED <<disk, cas, index, timer, own, quiet, pull, remote, had, behind, refused,
                    uses, changes, restarts>>
    BY <1>21 DEF ReadFails, PutFails
  <2> QED
    BY <2>1, <2>2, <2>3, Zenon DEF TypeOK, RemoteKnown
<1>22. CASE PullFails
  BY <1>22, IdleTypes DEF PullFails, TypeOK, RemoteKnown
<1> QED
  BY <1>1, <1>2, <1>3, <1>4, <1>5, <1>6, <1>7, <1>8, <1>9, <1>10, <1>11, <1>12, <1>13,
     <1>14, <1>15, <1>16, <1>17, <1>18, <1>19, <1>20, <1>21, <1>22 DEF Next, HandlerStep, PullStep

\* The types hold initially.
LEMMA TypeInit == Init => TypeInv
<1> SUFFICES ASSUME Init PROVE TypeInv
  OBVIOUS
<1>1. TypeOK
  BY IdleTypes, ContentFile, Zenon DEF Init, TypeOK
<1>2. RemoteKnown
  BY IdleTypes DEF Init, RemoteKnown
<1> QED
  BY <1>1, <1>2 DEF TypeInv

\* The type invariant of the model, for every value of the constants: a Pull
\* only ever writes blocks into a file, and only of contents the peer had.
THEOREM NodeTypeCorrect == Spec => []TypeOK
<1>1. TypeInv => TypeOK
  BY DEF TypeInv
<1> QED
  BY <1>1, TypeInit, TypeStep, PTL DEF Spec

\* Nothing is taken from the store, so that what was found in it stays there.
LEMMA StoreGrows ==
  ASSUME [Next]_vars
  PROVE  cas \subseteq cas' /\ refused \subseteq refused'
BY DEF Next, vars, local, memory, history, bounds, peer, UserSaves, PeerChanges, HandlerStep, Fire, ReadFile,
   ReadFails, CompareRoot, StoreChunks, PutLocalMeta, PutFails, Ingest, PullStep, PullStart, PullDiff,
   PullFails, PullMeta, PullFetch, PullFetchFails, PullFetched, PullCreate, PullWrite, PullInstall, QuietExpires, Restart

\* Each operation of a Pull that goes on writing has found the chunk it wrote.
LEMMA FromStoreStep ==
  ASSUME TypeInv, FromStore, [Next]_vars
  PROVE  FromStore'
<1> USE DEF TypeInv, local, memory, history, bounds, peer
<1>p. pull \in PullState
  BY DEF TypeOK
<1>g. cas \subseteq cas'
  BY StoreGrows
<1>k. ASSUME pull'.pc # "write", pull'.next = 1
      PROVE  FromStore'
  BY <1>k DEF FromStore
<1>u. ASSUME pull' = pull
      PROVE  FromStore'
  BY <1>u, <1>g DEF FromStore
<1>1. CASE PullStart \/ PullDiff \/ PullMeta \/ PullFetched
  <2>1. pull'.pc # "write" /\ pull'.next = 1
    BY <1>1, <1>p, IdleTypes, IdleNext, ZenonT(30)
       DEF PullStart, PullDiff, PullMeta, PullFetched, PullState, FromStore
  <2> QED
    BY <1>k, <2>1
<1>2. ASSUME NEW c \in pull.missing, PullFetch(c) \/ PullFetchFails(c)
      PROVE  FromStore'
  <2>1. pull'.pc # "write" /\ pull'.next = 1
    BY <1>2, <1>p, Zenon DEF PullFetch, PullFetchFails, PullState, FromStore
  <2> QED
    BY <1>k, <2>1
<1>3. CASE PullCreate
  <2>1. pull'.meta = pull.meta /\ pull'.next = 1 /\ pull'.pc = "write"
    BY <1>3, <1>p DEF PullCreate, PullState, FromStore
  <2> QED
    BY <2>1 DEF FromStore
<1>4. CASE PullWrite
  <2>1. CASE pull.meta[pull.next] \in cas
    <3>1. /\ pull'.meta = pull.meta /\ pull'.next = pull.next + 1
          /\ pull.pc = "write" /\ pull'.pc = "write"
      BY <1>4, <1>p, <2>1 DEF PullWrite, PullState
    <3>2. pull.next \in Nat /\ pull.meta \in Seq(Block)
      BY <1>p, <3>1 DEF PullState, RemoteKnown
    <3>3. \A i \in 1..Len(pull.meta) : i < pull.next + 1 => pull.meta[i] \in cas
      BY <2>1, <3>1, <3>2 DEF FromStore
    <3> QED
      BY <1>g, <3>1, <3>3 DEF FromStore
  <2>2. CASE pull.meta[pull.next] \notin cas
    BY <1>4, <1>k, <2>2, IdleTypes, IdleNext DEF PullWrite
  <2> QED
    BY <2>1, <2>2
<1>5. CASE PullInstall \/ PullFails \/ Restart
  BY <1>5, <1>k, IdleTypes, IdleNext DEF PullInstall, PullFails, Restart
<1>6. ASSUME NEW h \in Handler, HandlerStep(h) \/ Ingest(h)
      PROVE  FromStore'
  BY <1>6, <1>u DEF HandlerStep, Ingest, Fire, ReadFile, ReadFails, CompareRoot, StoreChunks,
     PutLocalMeta, PutFails
<1>7. ASSUME NEW c \in Content, UserSaves(c) \/ PeerChanges(c)
      PROVE  FromStore'
  BY <1>7, <1>u DEF UserSaves, PeerChanges
<1>8. CASE QuietExpires \/ UNCHANGED vars
  BY <1>8, <1>u DEF QuietExpires, vars
<1> QED
  BY <1>1, <1>2, <1>3, <1>4, <1>5, <1>6, <1>7, <1>8 DEF Next, PullStep

\* A Pull that has written the last chunk has found all of them.
LEMMA InstalledIsStored ==
  ASSUME TypeInv, FromStore, PullInstall
  PROVE  index' = pull.meta /\ cas' = cas /\ ChunksOf(pull.meta) \subseteq cas
<1>1. /\ pull.pc = "write" /\ pull.next > Len(pull.meta)
      /\ pull.meta \in Seq(Block) /\ pull.next \in Nat
  BY DEF PullInstall, TypeInv, TypeOK, RemoteKnown, PullState
<1>2. \A i \in 1..Len(pull.meta) : pull.meta[i] \in cas
  BY <1>1 DEF FromStore
<1> QED
  BY <1>2 DEF PullInstall, ChunksOf

\* The initial state has written nothing.
LEMMA FromStoreInit == Init => FromStore
BY IdleTypes, IdleNext DEF Init, FromStore

\* Whichever writes to the content store fail, unnoticed, in Pulls and in
\* HandleFileChange, and although a Pull fetches the chunks of one answer of the
\* peer and installs the chunk list of a later one: the version that a Pull
\* indexes has all its chunks in the store, because the assembly reads them back.
THEOREM PulledIsBacked == Spec => [][PullInstall => ChunksOf(index') \subseteq cas']_vars
<1>1. TypeInv /\ FromStore /\ [Next]_vars => FromStore'
  BY FromStoreStep
<1>2. TypeInv /\ FromStore /\ [Next]_vars
        => [PullInstall => ChunksOf(index') \subseteq cas']_vars
  BY InstalledIsStored
<1> QED
  BY <1>1, <1>2, TypeInit, TypeStep, FromStoreInit, PTL DEF Spec

\* Each operation stores chunks before it indexes the version they are of.
LEMMA BackedStep ==
  ASSUME Inv, [Next]_vars
  PROVE  StoredFirst' /\ IndexBacked'
<1> USE DEF Inv, TypeInv, local, memory, history, bounds, peer
<1>p. handler \in [Handler -> HandlerState]
  BY DEF TypeOK
<1>g. cas \subseteq cas' /\ refused \subseteq refused'
  BY StoreGrows
<1>h. ASSUME NEW h \in Handler, NEW s, SetHandler(h, s)
      PROVE  \A k \in Handler : handler'[k] = IF k = h THEN s ELSE handler[k]
  BY <1>p, <1>h DEF SetHandler
<1>k. ASSUME index' = index, handler' = handler
      PROVE  StoredFirst' /\ IndexBacked'
  BY <1>g, <1>k DEF StoredFirst, IndexBacked
<1>s. ASSUME NEW h \in Handler, NEW s, s.pc # "put", SetHandler(h, s), index' = index
      PROVE  StoredFirst' /\ IndexBacked'
  BY <1>g, <1>s, <1>h DEF StoredFirst, IndexBacked
<1>1. ASSUME NEW c \in Content, UserSaves(c) \/ PeerChanges(c)
      PROVE  StoredFirst' /\ IndexBacked'
  BY <1>1, <1>k DEF UserSaves, PeerChanges
<1>2. ASSUME NEW h \in Handler,
             Fire(h) \/ ReadFile(h) \/ ReadFails(h) \/ CompareRoot(h) \/ PutFails(h)
      PROVE  StoredFirst' /\ IndexBacked'
  <2>1. [HandlerIdle EXCEPT !.pc = "read"].pc # "put"
    BY IdleTypes DEF HandlerState
  <2>2. [handler[h] EXCEPT !.pc = "store"].pc # "put"
    BY <1>p DEF HandlerState
  <2>3. [pc |-> "compare", content |-> disk].pc # "put"
    OBVIOUS
  <2>4. CASE Fire(h)
    BY <1>s, <2>4, <2>1, IdleTypes, Zenon DEF Fire
  <2>5. CASE ReadFile(h)
    BY <1>s, <2>5, <2>3 DEF ReadFile
  <2>6. CASE CompareRoot(h)
    BY <1>s, <2>6, <2>2, IdleTypes, Zenon DEF CompareRoot
  <2>7. CASE ReadFails(h) \/ PutFails(h)
    <3>1. HandlerIdle.pc # "put" /\ SetHandler(h, HandlerIdle) /\ index' = index
      BY <2>7, IdleTypes DEF ReadFails, PutFails
    <3> QED
      BY <1>s, <3>1, Zenon
  <2> QED
    BY <1>2, <2>4, <2>5, <2>6, <2>7
<1>3. ASSUME NEW h \in Handler, StoreChunks(h)
      PROVE  StoredFirst' /\ IndexBacked'
  <2> DEFINE s == [handler[h] EXCEPT !.pc = "put"]
  <2>1. s.content = handler[h].content
    BY <1>p DEF HandlerState
  <2>2. \A k \in Handler : handler'[k] = IF k = h THEN s ELSE handler[k]
    BY <1>3, <1>h DEF StoreChunks
  <2>3. ChunksOf(handler[h].content) \subseteq cas' \cup refused' /\ index' = index
    BY <1>3 DEF StoreChunks
  <2> HIDE DEF s
  <2> QED
    BY <1>g, <2>1, <2>2, <2>3 DEF StoredFirst, IndexBacked
<1>4. ASSUME NEW h \in Handler, PutLocalMeta(h)
      PROVE  StoredFirst' /\ IndexBacked'
  <2>1. \A k \in Handler : handler'[k] = IF k = h THEN HandlerIdle ELSE handler[k]
    BY <1>4, <1>h DEF PutLocalMeta
  <2>2. /\ handler[h].pc = "put" /\ index' = handler[h].content
        /\ cas' = cas /\ refused' = refused
    BY <1>4 DEF PutLocalMeta
  <2> QED
    BY <2>1, <2>2, IdleTypes DEF StoredFirst, IndexBacked
<1>5. CASE \/ PullStart \/ PullDiff \/ PullFails \/ PullMeta
           \/ PullFetched \/ PullCreate \/ PullWrite
  BY <1>5, <1>k DEF PullStart, PullDiff, PullFails, PullMeta, PullFetched, PullCreate, PullWrite
<1>6. ASSUME NEW c \in pull.missing, PullFetch(c) \/ PullFetchFails(c)
      PROVE  StoredFirst' /\ IndexBacked'
  BY <1>6, <1>k DEF PullFetch, PullFetchFails
<1>7. CASE PullInstall
  <2>1. handler' = handler /\ refused' = refused
    BY <1>7 DEF PullInstall
  <2> QED
    BY <1>7, <2>1, InstalledIsStored DEF StoredFirst, IndexBacked
<1>8. CASE QuietExpires \/ UNCHANGED vars
  BY <1>8, <1>k DEF QuietExpires, vars
<1>9. CASE Restart
  <2>1. index' = index /\ \A h \in Handler : handler'[h].pc # "put"
    BY <1>9, IdleTypes DEF Restart
  <2> QED
    BY <1>g, <2>1 DEF StoredFirst, IndexBacked
<1>10. ASSUME NEW h \in Handler, Ingest(h)
       PROVE  StoredFirst' /\ IndexBacked'
  <2>1. [pc |-> "store", content |-> disk].pc # "put"
    OBVIOUS
  <2> QED
    BY <1>s, <1>10, <2>1 DEF Ingest
<1> QED
  BY <1>1, <1>2, <1>3, <1>4, <1>5, <1>6, <1>7, <1>8, <1>9, <1>10
     DEF Next, HandlerStep, PullStep

\* Whatever edits, Pulls and restarts interleave on a node, and although Pull
\* ignores the errors of CAS.Put and combines two answers of the peer, every
\* chunk of the version in the index is in the content store, but for chunks
\* that the store refused to HandleFileChange, which ignores the errors as well.
THEOREM IndexIsBacked == Spec => []IndexBacked
<1>1. Init => StoredFirst /\ IndexBacked
  BY IdleTypes DEF Init, StoredFirst, IndexBacked, ChunksOf
<1>2. Init => Inv
  BY <1>1, TypeInit, FromStoreInit DEF Inv
<1>3. Inv /\ [Next]_vars => Inv'
  BY TypeStep, FromStoreStep, BackedStep, Zenon DEF Inv
<1>4. Inv => IndexBacked
  BY DEF Inv
<1> QED
  BY <1>2, <1>3, <1>4, PTL DEF Spec

-----------------------------------------------------------------------------
\* On a node that only receives the file, each event is one of the assembler
\* and comes while the path is marked, so that no handler gets to reading.
MarkedInv ==
  /\ uses = 0
  /\ timer => own
  /\ own => quiet
  /\ pull.pc \in {"create", "write"} => quiet
  /\ \A h \in Handler : handler[h].pc = "idle"
  /\ pull.pc \in {"fetch", "create", "write"} => pull.meta \in Content
  /\ WholeVersions

\* Each operation leaves the marks in place while they are needed.
LEMMA MarkedStep ==
  ASSUME MaxUses = 0, SlowAssembly = FALSE,
         TypeInv, MarkedInv, [Next]_vars
  PROVE  MarkedInv'
<1> USE DEF TypeInv, local, memory, history, bounds, peer, WholeVersions
<1>p. pull \in PullState /\ handler \in [Handler -> HandlerState]
  BY DEF TypeOK
<1>1. /\ \A c \in Content : ~UserSaves(c)
      /\ \A h \in Handler : ~(ReadFile(h) \/ ReadFails(h) \/ CompareRoot(h) \/ StoreChunks(h)
                              \/ PutLocalMeta(h) \/ PutFails(h) \/ Ingest(h))
  <2>1. \A c \in Content : ~UserSaves(c)
    BY DEF MarkedInv, UserSaves
  <2>2. ASSUME NEW h \in Handler
        PROVE  ~(ReadFile(h) \/ ReadFails(h) \/ CompareRoot(h) \/ StoreChunks(h)
                 \/ PutLocalMeta(h) \/ PutFails(h) \/ Ingest(h))
    <3>1. handler[h].pc = "idle"
      BY DEF MarkedInv
    <3>2. ~Ingest(h)
      BY DEF MarkedInv, Ingest
    <3> QED
      BY <3>1, <3>2 DEF ReadFile, ReadFails, CompareRoot, StoreChunks, PutLocalMeta, PutFails
  <2> QED
    BY <2>1, <2>2
<1>2. ASSUME NEW c \in Content, PeerChanges(c)
      PROVE  MarkedInv'
  BY <1>2, Zenon DEF PeerChanges, MarkedInv
<1>3. ASSUME NEW h \in Handler, Fire(h)
      PROVE  MarkedInv'
  <2>1. handler' = [handler EXCEPT ![h] = HandlerIdle]
    BY <1>3, Zenon DEF Fire, SetHandler, MarkedInv
  <2>2. \A k \in Handler : handler'[k].pc = "idle"
    BY <1>p, <2>1, IdleTypes DEF MarkedInv
  <2> QED
    BY <1>3, <2>2, Zenon DEF Fire, MarkedInv
<1>4. CASE PullStart \/ PullDiff \/ PullFails
  <2>1. pull'.pc \in {"idle", "diff", "meta"}
    BY <1>4, <1>p, IdleTypes, Zenon DEF PullStart, PullDiff, PullFails, PullState
  <2>2. UNCHANGED <<uses, timer, own, quiet, handler, index>>
    BY <1>4 DEF PullStart, PullDiff, PullFails
  <2>3. pull'.pc \notin {"fetch", "create", "write"}
    BY <2>1
  <2> QED
    BY <2>2, <2>3, Zenon DEF MarkedInv
<1>5. CASE PullMeta
  <2>1. remote \in Content
    BY <1>5 DEF PullMeta, TypeOK, RemoteKnown
  <2>2. pull' = PullIdle \/ (pull'.pc = "fetch" /\ pull'.meta = remote)
    BY <1>5, <1>p DEF PullMeta, PullState
  <2>3. /\ pull'.pc \notin {"create", "write"}
        /\ pull'.pc \in {"fetch", "create", "write"} => pull'.meta \in Content
    BY <2>1, <2>2, IdleTypes
  <2>4. UNCHANGED <<uses, timer, own, quiet, handler, index>>
    BY <1>5 DEF PullMeta
  <2> QED
    BY <2>3, <2>4, Zenon DEF MarkedInv
<1>6. ASSUME NEW c \in pull.missing, PullFetch(c) \/ PullFetchFails(c)
      PROVE  MarkedInv'
  <2>1. pull.pc = "fetch" /\ pull'.pc = "fetch" /\ pull'.meta = pull.meta
    BY <1>6, <1>p, Zenon DEF PullFetch, PullFetchFails, PullState
  <2>2. UNCHANGED <<uses, timer, own, quiet, handler, index>>
    BY <1>6 DEF PullFetch, PullFetchFails
  <2>3. /\ pull'.pc \notin {"create", "write"}
        /\ pull'.meta \in Content
    BY <2>1 DEF MarkedInv
  <2> QED
    BY <2>2, <2>3, Zenon DEF MarkedInv
<1>7. CASE PullFetched
  <2>1. CASE pull.failed
    <3>1. pull'.pc \notin {"fetch", "create", "write"}
      BY <1>7, <2>1, IdleTypes DEF PullFetched
    <3>2. UNCHANGED <<uses, timer, own, quiet, handler, index>>
      BY <1>7, <2>1, Zenon DEF PullFetched
    <3> QED
      BY <3>1, <3>2, Zenon DEF MarkedInv
  <2>2. CASE ~pull.failed
    <3>1. pull.pc = "fetch" /\ pull'.meta = pull.meta
      BY <1>7, <1>p, <2>2 DEF PullFetched, PullState
    <3>2. pull'.meta \in Content
      BY <3>1 DEF MarkedInv
    <3>3. UNCHANGED <<uses, timer, own, handler, index>> /\ quiet'
      BY <1>7, <2>2, Zenon DEF PullFetched
    <3> QED
      BY <3>2, <3>3, Zenon DEF MarkedInv
  <2> QED
    BY <2>1, <2>2
<1>8. CASE PullCreate
  <2>1. pull.pc = "create" /\ pull'.meta = pull.meta
    BY <1>8, <1>p DEF PullCreate, PullState
  <2>2. quiet /\ pull'.meta \in Content
    BY <2>1, Zenon DEF MarkedInv
  <2>3. UNCHANGED <<uses, quiet, handler, index>> /\ own'
    BY <1>8, Zenon DEF PullCreate
  <2> QED
    BY <2>2, <2>3, Zenon DEF MarkedInv
<1>9. CASE PullWrite
  <2>0. pull.pc = "write" /\ UNCHANGED <<uses, quiet, handler, index>>
    BY <1>9 DEF PullWrite
  <2>q. quiet /\ pull.meta \in Content
    BY <2>0, Zenon DEF MarkedInv
  <2>1. CASE pull.meta[pull.next] \in cas
    <3>1. pull'.meta = pull.meta
      BY <1>9, <1>p, <2>1 DEF PullWrite, PullState
    <3>2. own'
      BY <1>9, <2>1, Zenon DEF PullWrite
    <3>3. pull'.meta \in Content
      BY <2>q, <3>1
    <3> QED
      BY <2>0, <2>q, <3>2, <3>3, Zenon DEF MarkedInv
  <2>2. CASE pull.meta[pull.next] \notin cas
    <3>1. pull'.pc \notin {"fetch", "create", "write"}
      BY <1>9, <2>2, IdleTypes DEF PullWrite
    <3>2. UNCHANGED <<timer, own>>
      BY <1>9, <2>2, Zenon DEF PullWrite
    <3> QED
      BY <2>0, <3>1, <3>2, Zenon DEF MarkedInv
  <2> QED
    BY <2>1, <2>2
<1>10. CASE PullInstall
  <2>1. index' \in Content
    BY <1>10 DEF PullInstall, MarkedInv
  <2>2. pull'.pc \notin {"fetch", "create", "write"}
    BY <1>10, IdleTypes DEF PullInstall
  <2>3. UNCHANGED <<uses, timer, own, quiet, handler>>
    BY <1>10 DEF PullInstall
  <2> QED
    BY <2>1, <2>2, <2>3, Zenon DEF MarkedInv
<1>11. CASE QuietExpires
  <2>1. ~own /\ pull.pc \notin {"create", "write"} /\ ~timer
    BY <1>11, Zenon DEF QuietExpires, MarkedInv
  <2> QED
    BY <1>11, <2>1, Zenon DEF QuietExpires, MarkedInv
<1>12. CASE Restart
  <2>1. pull'.pc \notin {"fetch", "create", "write"}
    BY <1>12, IdleTypes DEF Restart
  <2>2. \A h \in Handler : handler'[h].pc = "idle"
    BY <1>12, IdleTypes DEF Restart
  <2> QED
    BY <1>12, <2>1, <2>2, Zenon DEF Restart, MarkedInv
<1>13. CASE UNCHANGED vars
  BY <1>13, Zenon DEF vars, MarkedInv
<1> QED
  BY <1>1, <1>2, <1>3, <1>4, <1>5, <1>6, <1>7, <1>8, <1>9, <1>10, <1>11, <1>12, <1>13
     DEF Next, HandlerStep, PullStep

\* A node whose users leave the file alone never indexes what an assembly, a
\* failed Pull or a restart made of it, however long versions follow each other,
\* if an assembly is over before the mark it set.
THEOREM ReceivedAreWhole ==
  ASSUME MaxUses = 0, SlowAssembly = FALSE
  PROVE  Spec => []WholeVersions
<1>1. Init => MarkedInv
  BY IdleTypes, Zenon DEF Init, MarkedInv, WholeVersions
<1>2. TypeInv /\ MarkedInv /\ [Next]_vars => MarkedInv'
  BY MarkedStep, Zenon
<1>3. MarkedInv => WholeVersions
  BY DEF MarkedInv
<1> QED
  BY <1>1, <1>2, <1>3, TypeInit, TypeStep, PTL DEF Spec

-----------------------------------------------------------------------------
\* No chunk of the contents in question is itself two hashes, put together.
PlainChunks == PlainLeaves(Block)

\* The root tells such files apart.
LEMMA RootTellsContents ==
  ASSUME PlainChunks, NEW c \in Seq(Block), NEW d \in Seq(Block), ComputeRoot(c) = ComputeRoot(d)
  PROVE  c = d
BY RootTellsLists DEF PlainChunks

(***************************************************************************)
(* A node that only receives the file.  It is behind as long as it does    *)
(* not list the peer's version.  A Pull that starts when it is not, stops  *)
(* at "in sync", so that the file is worked on only while the node is      *)
(* behind; when it is not, the file is the version that it lists, because  *)
(* the last Pull had written all of it.                                    *)
(***************************************************************************)
AssemblyInv ==
  pull.pc = "write" =>
    /\ Len(disk) = Len(pull.meta)
    /\ pull.next <= Len(pull.meta) + 1
    /\ \A i \in 1..Len(pull.meta) : i < pull.next => disk[i] = pull.meta[i]

FollowInv ==
  /\ index \in had \cup {NoFile}
  /\ remote \in had \cup {NoFile}
  /\ pull.pc \in {"fetch", "create", "write"} => pull.meta \in had
  /\ behind <=> index # remote
  /\ pull.pc = "diff" => pull.local = index
  /\ pull.pc = "meta" => pull.synced \/ behind
  /\ pull.pc \in {"fetch", "create", "write"} => behind
  /\ ~behind => disk = index

\* A chunk is written over the zeros at its place, and nothing else changes.
LEMMA WriteAtKeeps ==
  ASSUME NEW d \in Seq(Block), NEW i \in 1..Len(d), NEW c
  PROVE  /\ Len(WriteAt(d, i, c)) = Len(d)
         /\ WriteAt(d, i, c)[i] = c
         /\ \A j \in 1..Len(d) : j # i => WriteAt(d, i, c)[j] = d[j]
<1>1. WriteAt(d, i, c) = [j \in 1..Len(d) |-> IF j = i THEN c ELSE d[j]]
  BY DEF WriteAt
<1>2. WriteAt(d, i, c) \in Seq(Block \cup {c})
  BY <1>1
<1> QED
  BY <1>1, <1>2

\* The assembly has written what it has passed.
LEMMA AssemblyStep ==
  ASSUME MaxUses = 0, SlowAssembly = FALSE,
         TypeInv, FromStore, MarkedInv, AssemblyInv, [Next]_vars
  PROVE  AssemblyInv'
<1> USE DEF TypeInv, local, memory, history, bounds, peer
<1>p. pull \in PullState
  BY DEF TypeOK
<1>k. ASSUME pull'.pc # "write"
      PROVE  AssemblyInv'
  BY <1>k DEF AssemblyInv
<1>u. ASSUME pull' = pull, disk' = disk
      PROVE  AssemblyInv'
  BY <1>u DEF AssemblyInv
<1>1. CASE PullStart \/ PullDiff \/ PullMeta \/ PullFetched
  <2>1. pull'.pc # "write"
    BY <1>1, <1>p, IdleTypes, Zenon
       DEF PullStart, PullDiff, PullMeta, PullFetched, PullState
  <2> QED
    BY <1>k, <2>1
<1>2. ASSUME NEW c \in pull.missing, PullFetch(c) \/ PullFetchFails(c)
      PROVE  AssemblyInv'
  <2>1. pull'.pc # "write"
    BY <1>2, <1>p, Zenon DEF PullFetch, PullFetchFails, PullState
  <2> QED
    BY <1>k, <2>1
<1>3. CASE PullCreate
  <2>1. pull'.meta = pull.meta /\ pull'.next = 1 /\ pull'.pc = "write"
    BY <1>3, <1>p DEF PullCreate, PullState, FromStore
  <2>2. pull.meta \in Seq(Block)
    BY <1>3 DEF PullCreate, RemoteKnown
  <2>3. disk' = [i \in 1..Len(pull.meta) |-> Hole] /\ disk' \in Seq({Hole})
    BY <1>3, <2>2 DEF PullCreate
  <2>4. Len(disk') = Len(pull.meta)
    BY <2>2, <2>3
  <2> QED
    BY <2>1, <2>2, <2>4 DEF AssemblyInv
<1>4. CASE PullWrite
  <2>1. CASE pull.meta[pull.next] \in cas
    <3>1. /\ pull'.meta = pull.meta /\ pull'.next = pull.next + 1
          /\ pull.pc = "write" /\ pull'.pc = "write" /\ pull.next <= Len(pull.meta)
      BY <1>4, <1>p, <2>1 DEF PullWrite, PullState
    <3>2. pull.next \in Nat \ {0} /\ pull.meta \in Seq(Block) /\ disk \in Seq(Block)
      BY <1>p, <3>1 DEF PullState, RemoteKnown, TypeOK, File
    <3>3. Len(disk) = Len(pull.meta) /\ pull.next \in 1..Len(disk)
      BY <3>1, <3>2 DEF AssemblyInv
    <3>4. disk' = WriteAt(disk, pull.next, pull.meta[pull.next])
      BY <1>4, <2>1 DEF PullWrite
    <3>5. /\ Len(disk') = Len(disk)
          /\ disk'[pull.next] = pull.meta[pull.next]
          /\ \A j \in 1..Len(disk) : j # pull.next => disk'[j] = disk[j]
      BY <3>2, <3>3, <3>4, WriteAtKeeps
    <3>6. ASSUME NEW i \in 1..Len(pull.meta), i < pull.next + 1
          PROVE  disk'[i] = pull.meta[i]
      BY <3>1, <3>2, <3>3, <3>5, <3>6 DEF AssemblyInv
    <3>7. pull.next + 1 <= Len(pull.meta) + 1
      BY <3>1, <3>2
    <3> QED
      BY <3>1, <3>3, <3>5, <3>6, <3>7 DEF AssemblyInv
  <2>2. CASE pull.meta[pull.next] \notin cas
    BY <1>4, <1>k, <2>2, IdleTypes DEF PullWrite
  <2> QED
    BY <2>1, <2>2
<1>5. CASE PullInstall \/ PullFails \/ Restart
  BY <1>5, <1>k, IdleTypes DEF PullInstall, PullFails, Restart
<1>6. ASSUME NEW h \in Handler, HandlerStep(h) \/ Ingest(h)
      PROVE  AssemblyInv'
  BY <1>6, <1>u DEF HandlerStep, Ingest, Fire, ReadFile, ReadFails, CompareRoot, StoreChunks,
     PutLocalMeta, PutFails
<1>7. ASSUME NEW c \in Content, PeerChanges(c)
      PROVE  AssemblyInv'
  BY <1>7, <1>u DEF PeerChanges
<1>8. \A c \in Content : ~UserSaves(c)
  BY DEF UserSaves, MarkedInv
<1>9. CASE QuietExpires \/ UNCHANGED vars
  BY <1>9, <1>u DEF QuietExpires, vars
<1> QED
  BY <1>1, <1>2, <1>3, <1>4, <1>5, <1>6, <1>7, <1>8, <1>9 DEF Next, PullStep

\* Each operation keeps the node behind while the file is not what it lists.
LEMMA FollowStep ==
  ASSUME MaxUses = 0, SlowAssembly = FALSE, PeerReverts = FALSE,
         TypeInv, MarkedInv, AssemblyInv, FollowInv, [Next]_vars
  PROVE  FollowInv'
<1> USE DEF TypeInv, local, memory, history, bounds, peer
<1>p. pull \in PullState
  BY DEF TypeOK
<1>n. NoFile \notin had
  BY ContentFile DEF TypeOK
<1>u. ASSUME UNCHANGED <<index, remote, had, behind, disk>>,
             pull'.pc \notin {"diff", "meta"},
             pull'.pc \in {"fetch", "create", "write"} => pull'.meta \in had /\ behind
      PROVE  FollowInv'
  BY <1>u, Zenon DEF FollowInv
<1>1. \A c \in Content : ~UserSaves(c)
  BY DEF UserSaves, MarkedInv
<1>2. ASSUME NEW c \in Content, PeerChanges(c)
      PROVE  FollowInv'
  <2>1. /\ remote' = c /\ had' = had \cup {c} /\ behind' = TRUE
        /\ c \notin had /\ UNCHANGED <<index, disk, pull>>
    BY <1>2, Zenon DEF PeerChanges
  <2>2. index' # remote'
    BY <2>1, ContentFile DEF FollowInv
  <2> QED
    BY <2>1, <2>2, Zenon DEF FollowInv
<1>3. ASSUME NEW h \in Handler, HandlerStep(h) \/ Ingest(h)
      PROVE  FollowInv'
  <2>1. handler[h].pc = "idle" /\ ~Ingest(h)
    BY DEF MarkedInv, Ingest
  <2>2. Fire(h)
    BY <1>3, <2>1 DEF HandlerStep, ReadFile, ReadFails, CompareRoot, StoreChunks, PutLocalMeta,
       PutFails
  <2>3. UNCHANGED <<index, remote, had, behind, disk, pull>>
    BY <2>2 DEF Fire
  <2> QED
    BY <2>3, Zenon DEF FollowInv
<1>4. CASE PullStart \/ PullDiff
  <2>1. UNCHANGED <<index, remote, had, behind, disk>>
    BY <1>4 DEF PullStart, PullDiff
  <2>2. CASE PullStart
    <3>1. pull'.pc = "diff" /\ pull'.local = index
      BY <2>2, <1>p, IdleTypes DEF PullStart, PullState
    <3>2. pull'.pc \notin {"meta", "fetch", "create", "write"}
      BY <3>1
    <3> QED
      BY <2>1, <3>1, <3>2, Zenon DEF FollowInv
  <2>3. CASE PullDiff
    <3>1. /\ pull.pc = "diff" /\ remote # NoFile
          /\ pull'.pc = "meta" /\ pull'.synced = SameRoot(pull.local, remote)
      BY <2>3, <1>p, Zenon DEF PullDiff, PullState
    <3>2. pull.local = index /\ (behind <=> index # remote)
      BY <3>1, Zenon DEF FollowInv
    <3>3. pull'.synced \/ behind
      BY <3>1, <3>2, Zenon DEF SameRoot
    <3>4. pull'.pc \notin {"diff", "fetch", "create", "write"}
      BY <3>1
    <3> QED
      BY <2>1, <3>3, <3>4, Zenon DEF FollowInv
  <2> QED
    BY <1>4, <2>2, <2>3
<1>5. CASE PullMeta
  <2>1. UNCHANGED <<index, remote, had, behind, disk>> /\ pull.pc = "meta"
    BY <1>5 DEF PullMeta
  <2>2. remote \in had
    BY <2>1 DEF RemoteKnown, FollowInv
  <2>3. /\ pull'.pc \notin {"diff", "meta"}
        /\ pull'.pc \in {"fetch", "create", "write"} => pull'.meta \in had /\ ~pull.synced
    BY <1>5, <1>p, <2>2, IdleTypes DEF PullMeta, PullState
  <2>4. pull.synced \/ behind
    BY <2>1, Zenon DEF FollowInv
  <2> QED
    BY <1>u, <2>1, <2>3, <2>4, Zenon
<1>6. ASSUME NEW c \in pull.missing, PullFetch(c) \/ PullFetchFails(c)
      PROVE  FollowInv'
  <2>1. pull.pc = "fetch" /\ pull'.pc = "fetch" /\ pull'.meta = pull.meta
    BY <1>6, <1>p, Zenon DEF PullFetch, PullFetchFails, PullState
  <2>2. UNCHANGED <<index, remote, had, behind, disk>>
    BY <1>6 DEF PullFetch, PullFetchFails
  <2>3. pull'.meta \in had /\ behind /\ pull'.pc \notin {"diff", "meta"}
    BY <2>1 DEF FollowInv
  <2> QED
    BY <1>u, <2>2, <2>3, Zenon
<1>7. CASE PullFetched
  <2>1. UNCHANGED <<index, remote, had, behind, disk>> /\ pull.pc = "fetch"
    BY <1>7 DEF PullFetched
  <2>2. /\ pull'.pc \notin {"diff", "meta"}
        /\ pull'.pc \in {"fetch", "create", "write"} => pull'.meta = pull.meta
    BY <1>7, <1>p, IdleTypes DEF PullFetched, PullState
  <2>3. pull.meta \in had /\ behind
    BY <2>1 DEF FollowInv
  <2> QED
    BY <1>u, <2>1, <2>2, <2>3, Zenon
<1>8. CASE PullCreate \/ PullWrite
  <2>1. UNCHANGED <<index, remote, had, behind>> /\ pull.pc \in {"create", "write"}
    BY <1>8 DEF PullCreate, PullWrite
  <2>2. pull.meta \in had /\ behind
    BY <2>1, Zenon DEF FollowInv
  <2>3. /\ pull'.pc \notin {"diff", "meta"}
        /\ pull'.pc \in {"fetch", "create", "write"} => pull'.meta = pull.meta
    <3>1. CASE PullCreate
      BY <3>1, <1>p DEF PullCreate, PullState
    <3>2. CASE PullWrite
      BY <3>2, <1>p, IdleTypes DEF PullWrite, PullState
    <3> QED
      BY <1>8, <3>1, <3>2
  <2> QED
    BY <2>1, <2>2, <2>3, Zenon DEF FollowInv
<1>9. CASE PullInstall
  <2>1. /\ index' = pull.meta /\ behind' = (remote # pull.meta)
        /\ pull' = PullIdle /\ UNCHANGED <<disk, remote, had>>
    BY <1>9, Zenon DEF PullInstall
  <2>2. pull.meta \in had
    BY <1>9 DEF PullInstall, FollowInv
  <2>3. disk = pull.meta
    <3>1. /\ pull.pc = "write" /\ pull.next > Len(pull.meta)
          /\ pull.meta \in Seq(Block) /\ disk \in Seq(Block) /\ pull.next \in Nat
      BY <1>9, <1>p DEF PullInstall, PullState, RemoteKnown, TypeOK, File
    <3>2. Len(disk) = Len(pull.meta) /\ \A i \in 1..Len(pull.meta) : disk[i] = pull.meta[i]
      BY <3>1 DEF AssemblyInv
    <3> QED
      BY <3>1, <3>2
  <2>4. pull'.pc \notin {"diff", "meta", "fetch", "create", "write"}
    BY <2>1, IdleTypes
  <2> QED
    BY <2>1, <2>2, <2>3, <2>4, Zenon DEF FollowInv
<1>10. CASE QuietExpires \/ UNCHANGED vars
  <2>1. UNCHANGED <<index, remote, had, behind, disk, pull>>
    BY <1>10 DEF QuietExpires, vars
  <2> QED
    BY <2>1, Zenon DEF FollowInv
<1>11. CASE PullFails \/ Restart
  <2>1. UNCHANGED <<index, remote, had, behind, disk>> /\ pull'.pc = "idle"
    BY <1>11, IdleTypes DEF PullFails, Restart
  <2>2. pull'.pc \notin {"diff", "meta", "fetch", "create", "write"}
    BY <2>1
  <2> QED
    BY <1>u, <2>1, <2>2, Zenon
<1> QED
  BY <1>1, <1>2, <1>3, <1>4, <1>5, <1>6, <1>7, <1>8, <1>9, <1>10, <1>11 DEF Next, PullStep

ReceiverInv == TypeInv /\ FromStore /\ MarkedInv /\ AssemblyInv /\ FollowInv

\* What holds on a node that only receives the file.
LEMMA Receives ==
  ASSUME MaxUses = 0, SlowAssembly = FALSE, PeerReverts = FALSE
  PROVE  Spec => []ReceiverInv
<1>1. Init => ReceiverInv
  <2> SUFFICES ASSUME Init PROVE ReceiverInv
    OBVIOUS
  <2>1. MarkedInv
    BY IdleTypes, Zenon DEF Init, MarkedInv, WholeVersions
  <2>2. AssemblyInv
    BY IdleTypes DEF Init, AssemblyInv
  <2>3. FollowInv
    BY IdleTypes DEF Init, FollowInv
  <2> QED
    BY <2>1, <2>2, <2>3, TypeInit, FromStoreInit DEF ReceiverInv
<1>2. ReceiverInv /\ [Next]_vars => ReceiverInv'
  BY TypeStep, FromStoreStep, MarkedStep, AssemblyStep, FollowStep, Zenon DEF ReceiverInv
<1> QED
  BY <1>1, <1>2, PTL DEF Spec

\* A file that an interrupted or failed Pull has damaged is one that the node
\* knows to be behind with, and that the comparison of roots does not pass over,
\* through any number of versions, failures and restarts: what makes the next
\* Pull repair it.  (No chunk being two hashes, so that roots tell files apart.)
THEOREM DamageIsRepairable ==
  ASSUME MaxUses = 0, SlowAssembly = FALSE, PeerReverts = FALSE, PlainChunks
  PROVE  Spec => []DamageIsSeen
<1>1. ReceiverInv => DamageIsSeen
  <2> SUFFICES ASSUME ReceiverInv, disk # index PROVE behind /\ ~SameRoot(index, remote)
    BY DEF DamageIsSeen
  <2> USE DEF ReceiverInv
  <2>1. behind /\ index # remote
    BY Zenon DEF FollowInv
  <2>2. remote \in Content
    BY <2>1, Zenon DEF TypeInv, TypeOK, RemoteKnown
  <2>3. index # NoFile => index \in Content
    BY DEF FollowInv, TypeInv, TypeOK
  <2>4. ~SameRoot(index, remote)
    BY <2>1, <2>2, <2>3, ContentFile, RootTellsContents, Zenon DEF SameRoot
  <2> QED
    BY <2>1, <2>4, Zenon
<1> QED
  BY <1>1, Receives, PTL

\* What a step does to the two copies: the peer has a version it did not have
\* before, or a node that is not level installs one that the peer has had.
LEMMA CopiesStep ==
  ASSUME MaxUses = 0, SlowAssembly = FALSE, PeerReverts = FALSE, ReceiverInv, [Next]_vars
  PROVE  \/ UNCHANGED <<index, remote, had>>
         \/ \E c \in Content : /\ c \notin had
                               /\ remote' = c /\ had' = had \cup {c} /\ index' = index
         \/ /\ index # remote /\ pull.meta \in had
            /\ index' = pull.meta /\ UNCHANGED <<remote, had>>
<1> USE DEF local, memory, history, bounds, peer
<1>1. ASSUME NEW c \in Content, PeerChanges(c)
      PROVE  c \notin had /\ remote' = c /\ had' = had \cup {c} /\ index' = index
  BY <1>1, Zenon DEF PeerChanges
<1>2. CASE PullInstall
  <2>1. index # remote /\ pull.meta \in had
    BY <1>2, Zenon DEF PullInstall, ReceiverInv, FollowInv
  <2> QED
    BY <1>2, <2>1 DEF PullInstall
<1>3. ASSUME NEW h \in Handler
      PROVE  ~PutLocalMeta(h)
  BY DEF PutLocalMeta, ReceiverInv, MarkedInv
<1>4. CASE \/ \E c \in Content : UserSaves(c)
           \/ \E h \in Handler : \/ Fire(h) \/ ReadFile(h) \/ ReadFails(h) \/ CompareRoot(h)
                                 \/ StoreChunks(h) \/ PutFails(h) \/ Ingest(h)
           \/ PullStart \/ PullDiff \/ PullFails \/ PullMeta
           \/ \E c \in pull.missing : PullFetch(c) \/ PullFetchFails(c)
           \/ PullFetched \/ PullCreate \/ PullWrite \/ QuietExpires \/ Restart
           \/ UNCHANGED vars
  <2>1. UNCHANGED <<index, remote, had>>
    BY <1>4 DEF vars, UserSaves, Fire, ReadFile, ReadFails, CompareRoot, StoreChunks, PutFails,
       Ingest, PullStart, PullDiff, PullFails, PullMeta, PullFetch, PullFetchFails, PullFetched, PullCreate, PullWrite,
       QuietExpires, Restart
  <2> QED
    BY <2>1
<1> QED
  BY <1>1, <1>2, <1>3, <1>4 DEF Next, HandlerStep, PullStep

\* For every set of contents, through failed fetches, damaged files and restarts:
\* a node whose users do not edit the file implements a copy of SharedFiles.
\* Pull and the watcher together replace what the index lists only by a version
\* of the peer, and only if it is not the peer's current one.
THEOREM ReceiverSharesFile ==
  ASSUME MaxUses = 0, SlowAssembly = FALSE, PeerReverts = FALSE
  PROVE  Spec => SharesFile
<1> DEFINE copy == [n \in {"self", "peer"} |-> [f \in {"file"} |-> IF n = "self" THEN index ELSE remote]]
           published == [f \in {"file"} |-> had]
           fetching == [f \in {"file"} |-> IF index # remote THEN {"self"} ELSE {}]
           svars == <<copy, published, fetching>>
<1>1. Init => Follows!Init
  BY DEF Init, Follows!Init
<1>2. ReceiverInv /\ [Next]_vars => [Follows!Next]_svars
  <2> SUFFICES ASSUME ReceiverInv, [Next]_vars PROVE [Follows!Next]_svars
    OBVIOUS
  <2>b. Follows!SetsOut
    BY DEF Follows!SetsOut, Follows!Behind, Follows!Current
  <2>1. CASE UNCHANGED <<index, remote, had>>
    BY <2>1
  <2>2. ASSUME NEW c \in Content, c \notin had, remote' = c, had' = had \cup {c}, index' = index
        PROVE  Follows!Publish("file")
    <3>1. copy' = [copy EXCEPT !["peer"]["file"] = c]
      BY <2>2
    <3>2. published' = [published EXCEPT !["file"] = @ \cup {c}]
      BY <2>2
    <3> QED
      BY <2>2, <3>1, <3>2 DEF Follows!Publish
  <2>3. ASSUME index # remote, pull.meta \in had, index' = pull.meta, UNCHANGED <<remote, had>>
        PROVE  Follows!Fetch("self", "file")
    <3>1. copy' = [copy EXCEPT !["self"]["file"] = pull.meta]
      BY <2>3
    <3> QED
      BY <2>3, <3>1 DEF Follows!Fetch
  <2> QED
    BY <2>b, <2>1, <2>2, <2>3, CopiesStep DEF Follows!Next
<1> QED
  BY <1>1, <1>2, Receives, PTL DEF Spec, SharesFile, Follows!Spec, Follows!vars

-----------------------------------------------------------------------------
(***************************************************************************)
(* The saves of the user.  What a handler has read is what is on disk, or  *)
(* the timer is armed for what was saved since; with no handler at work,   *)
(* what is on disk is indexed or the timer is armed.  A restart forgets    *)
(* timer and handlers, a Pull that has marked the path changes the file,   *)
(* and an error ends the handler, but only until the next save.            *)
(***************************************************************************)
UnderWay ==
  /\ timer => disk # NoFile
  /\ quiet \/ pull.pc \in {"create", "write"} => disturbed
  /\ \A h \in Handler :
       /\ handler[h].pc = "read" => disk # NoFile
       /\ handler[h].pc \in {"compare", "store", "put"} => handler[h].content # NoFile
       /\ ~disturbed /\ handler[h].pc = "idle" => disk = index \/ timer
       /\ ~disturbed /\ handler[h].pc \in {"compare", "store", "put"} =>
            handler[h].content = disk \/ timer

\* Each operation keeps the last save under way, if changes of the file are
\* handled one at a time.
LEMMA UnderWayStep ==
  ASSUME \A h, k \in Handler : h = k, PlainChunks, TypeInv, UnderWay, [Next]_vars
  PROVE  UnderWay'
<1> USE DEF TypeInv, local, memory, history, bounds, peer
<1>p. handler \in [Handler -> HandlerState] /\ pull \in PullState
  BY DEF TypeOK
<1>i. /\ timer => disk # NoFile
      /\ quiet \/ pull.pc \in {"create", "write"} => disturbed
  BY Zenon DEF UnderWay
<1>h. ASSUME NEW h \in Handler, NEW s, SetHandler(h, s)
      PROVE  handler'[h] = s /\ Handler = {h}
  BY <1>p, <1>h DEF SetHandler
<1>c. ASSUME NEW h \in Handler
      PROVE  /\ handler[h].pc = "read" => disk # NoFile
             /\ handler[h].pc \in {"compare", "store", "put"} => handler[h].content # NoFile
             /\ ~disturbed /\ handler[h].pc = "idle" => disk = index \/ timer
             /\ ~disturbed /\ handler[h].pc \in {"compare", "store", "put"} =>
                  handler[h].content = disk \/ timer
  BY Zenon DEF UnderWay
<1>1. ASSUME NEW c \in Content, UserSaves(c)
      PROVE  UnderWay'
  <2>1. disk' = c /\ timer' /\ UNCHANGED <<pull, quiet, index, handler>>
    BY <1>1, Zenon DEF UserSaves
  <2>2. disk' # NoFile
    BY <2>1, ContentFile
  <2>3. quiet' \/ pull'.pc \in {"create", "write"} => disturbed'
    BY <1>1, Zenon DEF UserSaves
  <2> QED
    BY <1>c, <2>1, <2>2, <2>3, Zenon DEF UnderWay
<1>2. ASSUME NEW c \in Content, PeerChanges(c)
      PROVE  UnderWay'
  BY <1>2, Zenon DEF PeerChanges, UnderWay
<1>3. ASSUME NEW h \in Handler, Fire(h)
      PROVE  UnderWay'
  <2>1. UNCHANGED <<pull, quiet, index, disk, disturbed>> /\ ~timer' /\ disk # NoFile
    BY <1>3, <1>i, Zenon DEF Fire
  <2>2. CASE quiet
    <3>1. handler'[h] = HandlerIdle /\ Handler = {h}
      BY <1>3, <1>h, <2>2, Zenon DEF Fire
    <3>2. \A k \in Handler : handler'[k].pc \notin {"read", "compare", "store", "put"}
      BY <3>1, IdleTypes
    <3>3. disturbed
      BY <1>i, <2>2, Zenon
    <3> QED
      BY <1>i, <2>1, <3>2, <3>3, Zenon DEF UnderWay
  <2>3. CASE ~quiet
    <3>1. SetHandler(h, [HandlerIdle EXCEPT !.pc = "read"])
      BY <1>3, <2>3, Zenon DEF Fire
    <3>2. handler'[h].pc = "read" /\ Handler = {h}
      BY <1>h, <3>1, IdleTypes DEF HandlerState
    <3>3. \A k \in Handler : handler'[k].pc \notin {"idle", "compare", "store", "put"}
      BY <3>2
    <3> QED
      BY <1>i, <2>1, <3>3, Zenon DEF UnderWay
  <2> QED
    BY <2>2, <2>3
<1>4. ASSUME NEW h \in Handler, ReadFile(h)
      PROVE  UnderWay'
  <2>1. UNCHANGED <<pull, quiet, index, disk, timer, disturbed>> /\ disk # NoFile
    BY <1>4, <1>c, Zenon DEF ReadFile
  <2>2. handler'[h].pc = "compare" /\ handler'[h].content = disk /\ Handler = {h}
    BY <1>4, <1>h DEF ReadFile
  <2>3. \A k \in Handler : handler'[k].pc \notin {"idle", "read"} /\ handler'[k].content = disk
    BY <2>2
  <2> QED
    BY <1>i, <2>1, <2>3, Zenon DEF UnderWay
<1>5. ASSUME NEW h \in Handler, CompareRoot(h)
      PROVE  UnderWay'
  <2>1. UNCHANGED <<pull, quiet, index, disk, timer, disturbed>>
    BY <1>5 DEF CompareRoot
  <2>2. /\ handler[h].pc = "compare" /\ handler[h].content # NoFile
        /\ ~disturbed => handler[h].content = disk \/ timer
    BY <1>5, <1>c, Zenon DEF CompareRoot
  <2>3. CASE SameRoot(index, handler[h].content)
    <3>1. index = handler[h].content
      <4>1. index \in Seq(Block) /\ handler[h].content \in Seq(Block)
        BY <1>p, <2>2, <2>3 DEF SameRoot, TypeOK, HandlerState, File
      <4> QED
        BY <2>3, <4>1, RootTellsContents, Zenon DEF SameRoot
    <3>2. SetHandler(h, HandlerIdle)
      BY <1>5, <2>3, Zenon DEF CompareRoot
    <3>3. handler'[h] = HandlerIdle /\ Handler = {h}
      BY <1>h, <3>2, Zenon
    <3>4. \A k \in Handler : handler'[k].pc \notin {"read", "compare", "store", "put"}
      BY <3>3, IdleTypes
    <3> QED
      BY <1>i, <2>1, <2>2, <3>1, <3>4, Zenon DEF UnderWay
  <2>4. CASE ~SameRoot(index, handler[h].content)
    <3>1. SetHandler(h, [handler[h] EXCEPT !.pc = "store"])
      BY <1>5, <2>4, Zenon DEF CompareRoot
    <3>2. /\ handler'[h].pc = "store" /\ handler'[h].content = handler[h].content
          /\ Handler = {h}
      BY <1>h, <1>p, <3>1 DEF HandlerState
    <3>3. \A k \in Handler : handler'[k].pc \notin {"idle", "read"} /\ handler'[k].content = handler[h].content
      BY <3>2
    <3> QED
      BY <1>i, <2>1, <2>2, <3>3, Zenon DEF UnderWay
  <2> QED
    BY <2>3, <2>4
<1>6. ASSUME NEW h \in Handler, StoreChunks(h)
      PROVE  UnderWay'
  <2>1. UNCHANGED <<pull, quiet, index, disk, timer, disturbed>>
    BY <1>6 DEF StoreChunks
  <2>2. /\ handler[h].content # NoFile
        /\ ~disturbed => handler[h].content = disk \/ timer
    BY <1>6, <1>c, Zenon DEF StoreChunks
  <2>3. SetHandler(h, [handler[h] EXCEPT !.pc = "put"])
    BY <1>6 DEF StoreChunks
  <2>4. /\ handler'[h].pc = "put" /\ handler'[h].content = handler[h].content
        /\ Handler = {h}
    BY <1>h, <1>p, <2>3 DEF HandlerState
  <2>5. \A k \in Handler : handler'[k].pc \notin {"idle", "read"} /\ handler'[k].content = handler[h].content
    BY <2>4
  <2> QED
    BY <1>i, <2>1, <2>2, <2>5, Zenon DEF UnderWay
<1>7. ASSUME NEW h \in Handler, PutLocalMeta(h)
      PROVE  UnderWay'
  <2>1. UNCHANGED <<pull, quiet, disk, timer, disturbed>> /\ index' = handler[h].content
    BY <1>7 DEF PutLocalMeta
  <2>2. ~disturbed => handler[h].content = disk \/ timer
    BY <1>7, <1>c, Zenon DEF PutLocalMeta
  <2>3. handler'[h] = HandlerIdle /\ Handler = {h}
    BY <1>7, <1>h, Zenon DEF PutLocalMeta
  <2>4. \A k \in Handler : handler'[k].pc \notin {"read", "compare", "store", "put"}
    BY <2>3, IdleTypes
  <2> QED
    BY <1>i, <2>1, <2>2, <2>4, Zenon DEF UnderWay
<1>8. ASSUME NEW h \in Handler, Ingest(h)
      PROVE  UnderWay'
  <2>1. UNCHANGED <<pull, quiet, index, disk, timer, disturbed>> /\ disk # NoFile
    BY <1>8 DEF Ingest
  <2>2. handler'[h].pc = "store" /\ handler'[h].content = disk /\ Handler = {h}
    BY <1>8, <1>h DEF Ingest
  <2>3. \A k \in Handler : handler'[k].pc \notin {"idle", "read"} /\ handler'[k].content = disk
    BY <2>2
  <2> QED
    BY <1>i, <2>1, <2>3, Zenon DEF UnderWay
<1>16. ASSUME NEW h \in Handler, ReadFails(h) \/ PutFails(h)
       PROVE  UnderWay'
  <2>1. UNCHANGED <<pull, quiet, index, disk, timer>> /\ (disturbed => disturbed')
    BY <1>16, Zenon DEF ReadFails, PutFails
  <2>2. disturbed' \/ timer
    <3>1. CASE ReadFails(h)
      BY <3>1, Zenon DEF ReadFails
    <3>2. CASE PutFails(h)
      <4>1. ~disturbed => handler[h].content = disk \/ timer
        BY <1>c, <3>2, Zenon DEF PutFails
      <4> QED
        BY <3>2, <4>1, Zenon DEF PutFails
    <3> QED
      BY <1>16, <3>1, <3>2
  <2>3. handler'[h] = HandlerIdle /\ Handler = {h}
    BY <1>16, <1>h, Zenon DEF ReadFails, PutFails
  <2>4. \A k \in Handler : handler'[k].pc \notin {"read", "compare", "store", "put"}
    BY <2>3, IdleTypes
  <2> QED
    BY <1>i, <2>1, <2>2, <2>4, Zenon DEF UnderWay
<1>u. ASSUME UNCHANGED <<disk, index, timer, quiet, handler, disturbed>>,
             pull'.pc \notin {"create", "write"}
      PROVE  UnderWay'
  BY <1>u, Zenon DEF UnderWay
<1>d. ASSUME disturbed', timer' => disk' # NoFile, handler' = handler,
             disk # NoFile => disk' # NoFile
      PROVE  UnderWay'
  BY <1>c, <1>d, Zenon DEF UnderWay
<1>9. CASE PullStart \/ PullDiff \/ PullFails \/ PullMeta
  <2>1. UNCHANGED <<disk, index, timer, quiet, handler, disturbed>>
    BY <1>9 DEF PullStart, PullDiff, PullFails, PullMeta
  <2>2. pull'.pc \notin {"create", "write"}
    BY <1>9, <1>p, IdleTypes, Zenon DEF PullStart, PullDiff, PullFails, PullMeta, PullState
  <2> QED
    BY <1>u, <2>1, <2>2, Zenon
<1>10. ASSUME NEW c \in pull.missing, PullFetch(c) \/ PullFetchFails(c)
       PROVE  UnderWay'
  <2>1. UNCHANGED <<disk, index, timer, quiet, handler, disturbed>>
    BY <1>10 DEF PullFetch, PullFetchFails
  <2>2. pull'.pc = "fetch"
    BY <1>10, <1>p, Zenon DEF PullFetch, PullFetchFails, PullState
  <2>3. pull'.pc \notin {"create", "write"}
    BY <2>2
  <2> QED
    BY <1>u, <2>1, <2>3, Zenon
<1>11. CASE PullFetched
  <2>1. CASE pull.failed
    <3>1. UNCHANGED <<disk, index, timer, quiet, handler, disturbed>> /\ pull' = PullIdle
      BY <1>11, <2>1, Zenon DEF PullFetched
    <3>2. pull'.pc \notin {"create", "write"}
      BY <3>1, IdleTypes
    <3> QED
      BY <1>u, <3>1, <3>2, Zenon
  <2>2. CASE ~pull.failed
    <3>1. UNCHANGED <<disk, timer, handler>> /\ disturbed'
      BY <1>11, <2>2, Zenon DEF PullFetched
    <3> QED
      BY <1>d, <1>i, <3>1, Zenon
  <2> QED
    BY <2>1, <2>2
<1>12. CASE PullCreate \/ PullWrite \/ PullInstall
  <2>1. pull.pc \in {"create", "write"} /\ UNCHANGED <<handler, disturbed>>
    BY <1>12 DEF PullCreate, PullWrite, PullInstall
  <2>2. disturbed'
    BY <1>i, <2>1, Zenon
  <2>3. disk' # NoFile
    <3>1. pull'.pc = "write" => disk' # NoFile
      BY TypeStep DEF RemoteKnown
    <3>2. pull.pc = "write" => disk # NoFile
      BY DEF RemoteKnown
    <3>3. CASE pull'.pc = "write"
      BY <3>1, <3>3
    <3>4. CASE pull'.pc # "write"
      <4>1. pull.pc = "write" /\ disk' = disk
        <5>1. CASE PullCreate
          BY <1>p, <3>4, <5>1 DEF PullCreate, PullState
        <5>2. CASE PullInstall
          BY <5>2 DEF PullInstall
        <5>3. CASE PullWrite
          BY <1>p, <3>4, <5>3 DEF PullWrite, PullState
        <5> QED
          BY <1>12, <5>1, <5>2, <5>3
      <4> QED
        BY <3>2, <4>1
    <3> QED
      BY <3>3, <3>4
  <2> QED
    BY <1>d, <2>1, <2>2, <2>3, Zenon
<1>13. CASE QuietExpires
  BY <1>13, Zenon DEF QuietExpires, UnderWay
<1>14. CASE Restart
  <2>1. \A h \in Handler : handler'[h].pc \notin {"read", "compare", "store", "put"}
    BY <1>14, IdleTypes DEF Restart
  <2>2. ~timer' /\ ~quiet' /\ disturbed' /\ pull'.pc \notin {"create", "write"}
    BY <1>14, IdleTypes DEF Restart
  <2> QED
    BY <2>1, <2>2, Zenon DEF UnderWay
<1>15. CASE UNCHANGED vars
  BY <1>15, Zenon DEF vars, UnderWay
<1> QED
  BY <1>1, <1>2, <1>3, <1>4, <1>5, <1>6, <1>7, <1>8, <1>9, <1>10, <1>11, <1>12, <1>13, <1>14,
     <1>15, <1>16 DEF Next, HandlerStep, PullStep

\* Whenever a user saves and however long HandleFileChange takes over earlier
\* saves, with /ingest, Pulls and restarts in between: the last save is indexed,
\* armed in the timer or in the hands of a handler that goes on with it, unless a
\* restart, the mark of a Pull or an error of reading the file or of writing the
\* index has met it.  This is for one handler at a time: of two, the one that has
\* read the older content may write the index last.
THEOREM NoSaveIsLost ==
  ASSUME \A h, k \in Handler : h = k, Handler # {}, PlainChunks
  PROVE  Spec => []SaveIsUnderWay
<1>1. Init => UnderWay
  <2> SUFFICES ASSUME Init PROVE UnderWay
    OBVIOUS
  <2>1. \A h \in Handler : handler[h].pc \notin {"read", "compare", "store", "put"}
    BY IdleTypes DEF Init
  <2>2. pull.pc \notin {"create", "write"} /\ ~timer /\ ~quiet /\ disk = index
    BY IdleTypes DEF Init
  <2> QED
    BY <2>1, <2>2, Zenon DEF UnderWay
<1>2. TypeInv /\ UnderWay /\ [Next]_vars => UnderWay'
  BY UnderWayStep, Zenon
<1>3. TypeInv /\ UnderWay => SaveIsUnderWay
  <2> SUFFICES ASSUME TypeInv, UnderWay, ~disturbed, disk # index, ~timer
               PROVE  \E h \in Handler :
                        \/ handler[h].pc = "read"
                        \/ handler[h].pc # "idle" /\ handler[h].content = disk
    BY Zenon DEF SaveIsUnderWay
  <2>1. PICK h \in Handler : TRUE
    OBVIOUS
  <2>2. handler[h].pc \in {"idle", "read", "compare", "store", "put"}
    BY DEF TypeInv, TypeOK, HandlerState
  <2>3. handler[h].pc # "idle"
    BY Zenon DEF UnderWay
  <2>4. CASE handler[h].pc = "read"
    BY <2>4
  <2>5. CASE handler[h].pc \in {"compare", "store", "put"}
    <3>1. handler[h].content = disk
      BY <2>5, Zenon DEF UnderWay
    <3> QED
      BY <2>3, <3>1
  <2> QED
    BY <2>2, <2>3, <2>4, <2>5
<1> QED
  BY <1>1, <1>2, <1>3, TypeInit, TypeStep, PTL DEF Spec

=============================================================================
