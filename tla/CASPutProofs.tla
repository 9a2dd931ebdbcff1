---------------------------- MODULE CASPutProofs ----------------------------
(***************************************************************************)
(* Proof that CASBlobStore.Put, when no two calls for one hash overlap,    *)
(* implements the store of BlobStore: any number of files, calls, failing  *)
(* writes and crashes.  And of what is left of this for any number of      *)
(* overlapping calls, which share the temporary file.                      *)
(***************************************************************************)
EXTENDS CASPut, TLAPS

\* The one writer's progress determines what the two names stand for: it opens
\* the temporary file empty, renames only what it has written and checked, and
\* never has the object and the temporary name on one file.
PutInv(w) ==
  /\ object # None => content[object] = "good" /\ tmp # object
  /\ put[w].pc \notin {"idle", "remove"} => object = None
  /\ put[w].pc = "write" => tmp \in Inode /\ put[w].fd = tmp /\ content[tmp] = "empty"
  /\ put[w].pc = "check" => tmp \in Inode /\ content[tmp] = put[w].data
  /\ put[w].pc = "rename" => tmp \in Inode /\ content[tmp] = "good"

\* The state of a call that is not under way is well-typed.
LEMMA IdleType == PutIdle \in PutState /\ PutIdle.pc = "idle"
BY DEF PutIdle, PutState, Data, Entry

\* Each statement of Put keeps the types.
LEMMA TypeStep == TypeOK /\ [Next]_vars => TypeOK'
<1> SUFFICES ASSUME TypeOK, [Next]_vars PROVE TypeOK'
  OBVIOUS
<1>s. ASSUME NEW w \in Writer, NEW s \in PutState, SetPut(w, s)
      PROVE  put' \in [Writer -> PutState]
  BY <1>s DEF SetPut, TypeOK
<1>p. \A w \in Writer : put[w] \in PutState
  BY DEF TypeOK
<1>1. ASSUME NEW w \in Writer, NEW d \in Data, Stat(w, d)
      PROVE  TypeOK'
  <2>1. [pc |-> "open", data |-> d, fd |-> None] \in PutState
    BY DEF PutState, Entry
  <2>2. put' \in [Writer -> PutState]
    BY <1>1, <1>s, <2>1 DEF Stat
  <2> QED
    BY <1>1, <2>2 DEF Stat, TypeOK
<1>2. ASSUME NEW w \in Writer, NEW i \in Inode, Open(w, i)
      PROVE  TypeOK'
  <2>1. [put[w] EXCEPT !.pc = "write", !.fd = i] \in PutState
    BY <1>p, Zenon DEF PutState, Entry
  <2>2. put' \in [Writer -> PutState]
    BY <1>2, <1>s, <2>1 DEF Open
  <2> QED
    BY <1>2, <2>2 DEF Open, TypeOK, Entry
<1>3. ASSUME NEW w \in Writer, Write(w)
      PROVE  TypeOK'
  <2>1. [put[w] EXCEPT !.pc = "check", !.fd = None] \in PutState /\ put[w].data \in Data
    BY <1>p, Zenon DEF PutState, Entry
  <2>2. put' \in [Writer -> PutState]
    BY <1>3, <1>s, <2>1 DEF Write
  <2>3. PICK d \in Data : content' = [content EXCEPT ![put[w].fd] = d]
    BY <1>3, <2>1, Zenon DEF Write, Data
  <2>4. content' \in [Inode -> Data \cup {"empty"}]
    BY <2>3, Zenon DEF TypeOK
  <2> QED
    BY <1>3, <2>2, <2>4 DEF Write, TypeOK
<1>4. ASSUME NEW w \in Writer, WriteFails(w) \/ Remove(w)
      PROVE  TypeOK'
  <2>1. put' \in [Writer -> PutState]
    BY <1>4, <1>s, IdleType DEF WriteFails, Remove
  <2> QED
    BY <1>4, <2>1 DEF WriteFails, Remove, TypeOK, Entry
<1>5. ASSUME NEW w \in Writer, Check(w)
      PROVE  TypeOK'
  <2>1. \A x \in {"rename", "remove"} : [put[w] EXCEPT !.pc = x] \in PutState
    BY <1>p DEF PutState
  <2>2. put' \in [Writer -> PutState]
    BY <1>5, <1>s, <2>1 DEF Check
  <2> QED
    BY <1>5, <2>2 DEF Check, TypeOK
<1>6. ASSUME NEW w \in Writer, Rename(w)
      PROVE  TypeOK'
  <2>1. [put[w] EXCEPT !.pc = "remove"] \in PutState
    BY <1>p DEF PutState
  <2>2. put' \in [Writer -> PutState]
    BY <1>6, <1>s, <2>1 DEF Rename
  <2> QED
    BY <1>6, <2>2 DEF Rename, TypeOK, Entry
<1>7. CASE Crash
  BY <1>7, IdleType DEF Crash, TypeOK
<1>8. CASE UNCHANGED vars
  BY <1>8 DEF vars, TypeOK
<1> QED
  BY <1>1, <1>2, <1>3, <1>4, <1>5, <1>6, <1>7, <1>8 DEF Next, PutStep

\* The types of the model: whoever shares the temporary file, it holds data of
\* some Put or nothing.
THEOREM PutTypeCorrect == Spec => []TypeOK
<1>1. Init => TypeOK
  BY IdleType DEF Init, TypeOK, Entry
<1> QED
  BY <1>1, TypeStep, PTL DEF Spec

\* One step of the only writer, or a crash, keeps the invariant and is a step
\* of the abstract store.
LEMMA PutInvStep ==
  ASSUME NEW w, Writer = {w}, TypeOK, PutInv(w), [Next]_vars
  PROVE  PutInv(w)' /\ [Promise!Store]_blob
<1> USE DEF Promise!Store, blob
<1>w. w \in Writer
  OBVIOUS
<1>p. put[w] \in PutState /\ put \in [Writer -> PutState]
  BY <1>w DEF TypeOK
<1>s. ASSUME NEW s, SetPut(w, s)
      PROVE  put'[w] = s
  BY <1>w, <1>p, <1>s DEF SetPut
<1>1. ASSUME NEW d \in Data, Stat(w, d)
      PROVE  PutInv(w)' /\ [Promise!Store]_blob
  <2>1. put'[w] = [pc |-> "open", data |-> d, fd |-> None]
    BY <1>1, <1>s DEF Stat
  <2>2. put'[w].pc = "open" /\ object = None
    BY <1>1, <2>1 DEF Stat
  <2> QED
    BY <1>1, <2>2 DEF Stat, PutInv
<1>2. ASSUME NEW i \in Inode, Open(w, i)
      PROVE  PutInv(w)' /\ [Promise!Store]_blob
  <2>1. put'[w] = [put[w] EXCEPT !.pc = "write", !.fd = i]
    BY <1>2, <1>s DEF Open
  <2>2. put'[w].pc = "write" /\ put'[w].fd = i
    BY <1>p, <2>1 DEF PutState
  <2>3. tmp' = i /\ content'[i] = "empty" /\ object' = object /\ object = None
    BY <1>2 DEF Open, PutInv, TypeOK
  <2> QED
    BY <2>2, <2>3 DEF PutInv
<1>3. CASE Write(w)
  <2>1. put'[w] = [put[w] EXCEPT !.pc = "check", !.fd = None]
    BY <1>3, <1>s DEF Write
  <2>2. put'[w].pc = "check" /\ put'[w].data = put[w].data
    BY <1>p, <2>1 DEF PutState
  <2>3. tmp \in Inode /\ put[w].fd = tmp /\ content[tmp] = "empty" /\ object = None
    BY <1>3 DEF Write, PutInv
  <2>4. content' = [content EXCEPT ![tmp] = put[w].data]
    BY <1>3, <2>3, Zenon DEF Write
  <2>5. content'[tmp] = put[w].data /\ tmp' = tmp /\ object' = object
    BY <1>3, <2>3, <2>4 DEF Write, TypeOK
  <2> QED
    BY <2>2, <2>3, <2>5 DEF PutInv
<1>4. CASE Check(w)
  <2>1. put'[w] = [put[w] EXCEPT !.pc = IF put[w].data = "good" THEN "rename" ELSE "remove"]
    BY <1>4, <1>s DEF Check
  <2>2. put'[w].pc = IF put[w].data = "good" THEN "rename" ELSE "remove"
    BY <1>p, <2>1 DEF PutState
  <2> QED
    BY <1>4, <2>2 DEF Check, PutInv
<1>5. CASE Rename(w)
  <2>1. put'[w] = [put[w] EXCEPT !.pc = "remove"]
    BY <1>5, <1>s DEF Rename
  <2>2. put'[w].pc = "remove"
    BY <1>p, <2>1 DEF PutState
  <2>3. tmp \in Inode /\ content[tmp] = "good" /\ object = None
    BY <1>5 DEF Rename, PutInv
  <2>4. object' = tmp /\ tmp' = None /\ content' = content /\ object' # None
    BY <1>5, <2>3, CASAssumption DEF Rename
  <2> QED
    BY <2>2, <2>3, <2>4 DEF PutInv
<1>6. CASE Remove(w) \/ WriteFails(w)
  <2>1. put'[w].pc = "idle"
    BY <1>6, <1>s, IdleType DEF Remove, WriteFails
  <2>2. object' = object /\ content' = content /\ (tmp' = None \/ tmp' = tmp)
    BY <1>6 DEF Remove, WriteFails
  <2> QED
    BY <2>1, <2>2 DEF PutInv
<1>7. CASE Crash
  <2>1. put'[w].pc = "idle"
    BY <1>7, <1>w, IdleType DEF Crash
  <2> QED
    BY <1>7, <2>1 DEF Crash, PutInv
<1>8. CASE UNCHANGED vars
  BY <1>8 DEF vars, PutInv
<1> QED
  BY <1>1, <1>2, <1>3, <1>4, <1>5, <1>6, <1>7, <1>8 DEF Next, PutStep

\* Without overlapping Puts of one hash, the file-system level store implements
\* the abstract one: whatever fails, and wherever the daemon dies, an object
\* appears at once with the data its name is the hash of, and never changes.
THEOREM PutImplementsStore ==
  ASSUME NEW w, Writer = {w}
  PROVE  Spec => KeepsPromise
<1>1. Init => TypeOK /\ PutInv(w)
  BY IdleType DEF Init, TypeOK, Entry, PutInv
<1>2. Init => Promise!Init
  BY DEF Init, Promise!Init, blob
<1>3. TypeOK /\ PutInv(w) /\ [Next]_vars => PutInv(w)' /\ [Promise!Store]_blob
  BY PutInvStep
<1> QED
  BY <1>1, <1>2, <1>3, TypeStep, PTL DEF Spec, KeepsPromise, Promise!Spec

-----------------------------------------------------------------------------
\* However calls with the right data overlap, one that has opened the temporary
\* file can only lose it to a rename, or to the removal of a call that found
\* the object there.
StoredInv ==
  \A w \in Writer :
    /\ put[w].data = "good"
    /\ put[w].pc \in {"write", "check", "rename"} => tmp # None \/ object # None
    /\ put[w].pc = "remove" => object # None

LEMMA StoredStep == ASSUME BadData = FALSE, TypeOK, StoredInv, [Next]_vars PROVE StoredInv'
<1>p. put \in [Writer -> PutState] /\ \A w \in Writer : put[w] \in PutState
  BY DEF TypeOK
<1>n. \A i \in Inode : i # None
  BY CASAssumption
<1>s. ASSUME NEW w \in Writer, NEW s, SetPut(w, s)
      PROVE  put'[w] = s /\ \A x \in Writer \ {w} : put'[x] = put[x]
  BY <1>p, <1>s DEF SetPut
<1>1. ASSUME NEW w \in Writer, NEW d \in Data, Stat(w, d)
      PROVE  StoredInv'
  <2>1. put'[w].pc = "open" /\ put'[w].data = "good"
    BY <1>1, <1>s DEF Stat
  <2> QED
    BY <1>1, <1>s, <2>1 DEF Stat, StoredInv
<1>2. ASSUME NEW w \in Writer, NEW i \in Inode, Open(w, i)
      PROVE  StoredInv'
  <2>1. put'[w] = [put[w] EXCEPT !.pc = "write", !.fd = i] /\ tmp' # None
    BY <1>2, <1>s, <1>n DEF Open
  <2>2. put'[w].data = "good" /\ put'[w].pc = "write"
    BY <1>p, <2>1 DEF PutState, StoredInv
  <2>3. tmp' # None /\ object' = object
    BY <1>2, <2>1 DEF Open
  <2>4. \A x \in Writer \ {w} : put'[x] = put[x]
    BY <1>2, <1>s DEF Open
  <2> QED
    BY <2>2, <2>3, <2>4 DEF StoredInv
<1>3. ASSUME NEW w \in Writer, Write(w)
      PROVE  StoredInv'
  <2>1. put'[w] = [put[w] EXCEPT !.pc = "check", !.fd = None]
    BY <1>3, <1>s DEF Write
  <2>2. put'[w].data = "good" /\ put'[w].pc = "check" /\ put[w].pc = "write"
    BY <1>3, <1>p, <2>1 DEF PutState, StoredInv, Write
  <2> QED
    BY <1>3, <1>s, <2>2 DEF Write, StoredInv
<1>4. ASSUME NEW w \in Writer, Check(w)
      PROVE  StoredInv'
  <2>1. put'[w] = [put[w] EXCEPT !.pc = "rename"]
    BY <1>4, <1>s DEF Check, StoredInv
  <2>2. put'[w].data = "good" /\ put'[w].pc = "rename" /\ put[w].pc = "check"
    BY <1>4, <1>p, <2>1 DEF PutState, StoredInv, Check
  <2> QED
    BY <1>4, <1>s, <2>2 DEF Check, StoredInv
<1>5. ASSUME NEW w \in Writer, Rename(w)
      PROVE  StoredInv'
  <2>1. put'[w] = [put[w] EXCEPT !.pc = "remove"]
    BY <1>5, <1>s DEF Rename
  <2>2. put'[w].data = "good" /\ put[w].pc = "rename"
    BY <1>5, <1>p, <2>1 DEF PutState, StoredInv, Rename
  <2>3. object' # None
    BY <1>5, <2>2 DEF Rename, StoredInv
  <2> QED
    BY <1>5, <1>s, <2>2, <2>3 DEF Rename, StoredInv
<1>6. ASSUME NEW w \in Writer, WriteFails(w) \/ Remove(w)
      PROVE  StoredInv'
  <2>1. put'[w].pc = "idle" /\ put'[w].data = "good"
    BY <1>6, <1>s DEF WriteFails, Remove, PutIdle
  <2>2. object' = object /\ (tmp' = tmp \/ object # None)
    BY <1>6 DEF WriteFails, Remove, StoredInv
  <2> QED
    BY <1>6, <1>s, <2>1, <2>2 DEF WriteFails, Remove, StoredInv
<1>7. CASE Crash
  BY <1>7 DEF Crash, StoredInv, PutIdle
<1>8. CASE UNCHANGED vars
  BY <1>8 DEF vars, StoredInv
<1> QED
  BY <1>1, <1>2, <1>3, <1>4, <1>5, <1>6, <1>7, <1>8 DEF Next, PutStep

\* Any number of overlapping Puts, failing writes and crashes: a Put of the
\* right data that comes to its deferred removal leaves the object there.
THEOREM OverlappingPutsStore ==
  ASSUME BadData = FALSE
  PROVE  Spec => []StoredAfterPut
<1>1. Init => TypeOK /\ StoredInv
  BY IdleType DEF Init, TypeOK, Entry, StoredInv, PutIdle
<1>2. StoredInv => StoredAfterPut
  BY DEF StoredInv, StoredAfterPut
<1>3. TypeOK /\ StoredInv /\ [Next]_vars => StoredInv'
  BY StoredStep, Zenon
<1> QED
  BY <1>1, <1>2, <1>3, TypeStep, PTL DEF Spec

-----------------------------------------------------------------------------
\* A file that has one of the two names is whole, or a call that has it open is
\* still to write it.
FilledInv ==
  /\ \A w \in Writer :
       put[w].data = "good" /\ (put[w].pc = "write" => put[w].fd \in Inode)
  /\ \A i \in Inode : content[i] # "bad"
  /\ \A i \in {tmp, object} \ {None} :
       content[i] = "empty" => \E w \in Writer : put[w].pc = "write" /\ put[w].fd = i
  /\ crashes = 0

LEMMA FilledStep ==
  ASSUME BadData = FALSE, WriteErrors = FALSE, MaxCrashes = 0, TypeOK, FilledInv, [Next]_vars
  PROVE  FilledInv'
<1>p. put \in [Writer -> PutState] /\ \A w \in Writer : put[w] \in PutState
  BY DEF TypeOK
<1>s. ASSUME NEW w \in Writer, NEW s, SetPut(w, s)
      PROVE  put'[w] = s /\ \A x \in Writer \ {w} : put'[x] = put[x]
  BY <1>p, <1>s DEF SetPut
<1>q. ASSUME NEW w \in Writer, put[w].pc # "write", put'[w].pc # "write",
             put'[w].data = "good", \A x \in Writer \ {w} : put'[x] = put[x],
             content' = content, crashes' = crashes,
             {tmp', object'} \subseteq {tmp, object, None}
      PROVE  FilledInv'
  BY <1>q DEF FilledInv
<1>1. ASSUME NEW w \in Writer, NEW d \in Data, Stat(w, d)
      PROVE  FilledInv'
  <2>1. put'[w].pc = "open" /\ put'[w].data = "good"
    BY <1>1, <1>s DEF Stat
  <2> QED
    BY <1>1, <1>s, <1>q, <2>1 DEF Stat
<1>2. ASSUME NEW w \in Writer, NEW i \in Inode, Open(w, i)
      PROVE  FilledInv'
  <2>1. put'[w] = [put[w] EXCEPT !.pc = "write", !.fd = i]
    BY <1>2, <1>s DEF Open
  <2>2. put'[w].data = "good" /\ put'[w].pc = "write" /\ put'[w].fd = i
    BY <1>p, <2>1 DEF PutState, FilledInv
  <2>3. content'[i] = "empty" /\ \A j \in Inode \ {i} : content'[j] = content[j]
    BY <1>2 DEF Open, TypeOK
  <2>4. tmp' = i /\ object' = object /\ object \in Inode \cup {None} /\ crashes' = crashes
    BY <1>2 DEF Open, TypeOK, Entry
  <2>5. ASSUME NEW j \in {tmp', object'} \ {None}, content'[j] = "empty"
        PROVE  \E x \in Writer : put'[x].pc = "write" /\ put'[x].fd = j
    <3>1. CASE j = i
      BY <2>2, <3>1
    <3>2. CASE j # i
      <4>1. j = object /\ content[j] = "empty"
        BY <2>3, <2>4, <2>5, <3>2
      <4>2. PICK x \in Writer : put[x].pc = "write" /\ put[x].fd = j
        BY <4>1, <2>5 DEF FilledInv
      <4>3. x # w
        BY <1>2, <4>2 DEF Open
      <4> QED
        BY <1>2, <1>s, <4>2, <4>3 DEF Open
    <3> QED
      BY <3>1, <3>2
  <2> QED
    BY <1>2, <1>s, <2>2, <2>3, <2>4, <2>5 DEF Open, FilledInv
<1>3. ASSUME NEW w \in Writer, Write(w)
      PROVE  FilledInv'
  <2>1. put'[w] = [put[w] EXCEPT !.pc = "check", !.fd = None]
    BY <1>3, <1>s DEF Write
  <2>2. put'[w].data = "good" /\ put'[w].pc = "check" /\ put[w].data = "good"
    BY <1>p, <2>1 DEF PutState, FilledInv
  <2>3. put[w].fd \in Inode /\ content[put[w].fd] # "bad"
    BY <1>3 DEF Write, FilledInv
  <2>4. content' = [content EXCEPT ![put[w].fd] = "good"]
    BY <1>3, <2>2, <2>3, Zenon DEF Write
  <2>5. content'[put[w].fd] = "good" /\ \A j \in Inode \ {put[w].fd} : content'[j] = content[j]
    BY <2>3, <2>4 DEF TypeOK
  <2>6. ASSUME NEW j \in {tmp', object'} \ {None}, content'[j] = "empty"
        PROVE  \E x \in Writer : put'[x].pc = "write" /\ put'[x].fd = j
    <3>1. j \in {tmp, object} \ {None} /\ j # put[w].fd /\ j \in Inode
      BY <1>3, <2>5, <2>6 DEF Write, TypeOK, Entry
    <3>2. PICK x \in Writer : put[x].pc = "write" /\ put[x].fd = j
      BY <2>5, <2>6, <3>1 DEF FilledInv
    <3> QED
      BY <1>3, <1>s, <3>1, <3>2 DEF Write
  <2> QED
    BY <1>3, <1>s, <2>2, <2>5, <2>6 DEF Write, FilledInv
<1>4. ASSUME NEW w \in Writer, Check(w)
      PROVE  FilledInv'
  <2>1. put'[w] = [put[w] EXCEPT !.pc = "rename"]
    BY <1>4, <1>s DEF Check, FilledInv
  <2>2. put'[w].data = "good" /\ put'[w].pc = "rename"
    BY <1>p, <2>1 DEF PutState, FilledInv
  <2> QED
    BY <1>4, <1>s, <1>q, <2>2 DEF Check
<1>5. ASSUME NEW w \in Writer, Rename(w)
      PROVE  FilledInv'
  <2>1. put'[w] = [put[w] EXCEPT !.pc = "remove"]
    BY <1>5, <1>s DEF Rename
  <2>2. put'[w].data = "good" /\ put'[w].pc = "remove"
    BY <1>p, <2>1 DEF PutState, FilledInv
  <2> QED
    BY <1>5, <1>s, <1>q, <2>2 DEF Rename
<1>6. ASSUME NEW w \in Writer, Remove(w)
      PROVE  FilledInv'
  <2>1. put'[w].pc = "idle" /\ put'[w].data = "good"
    BY <1>6, <1>s DEF Remove, PutIdle
  <2> QED
    BY <1>6, <1>s, <1>q, <2>1 DEF Remove
<1>7. ~Crash /\ \A w \in Writer : ~WriteFails(w)
  BY DEF Crash, WriteFails, FilledInv
<1>8. CASE UNCHANGED vars
  BY <1>8 DEF vars, FilledInv
<1> QED
  BY <1>1, <1>2, <1>3, <1>4, <1>5, <1>6, <1>7, <1>8 DEF Next, PutStep

\* Any number of overlapping Puts of the right data: when the last has returned,
\* the object is whole.  A call may have renamed a file that another had just
\* truncated; that other one writes it.
THEOREM OverlappingPutsHeal ==
  ASSUME BadData = FALSE, WriteErrors = FALSE, MaxCrashes = 0
  PROVE  Spec => []IntegrityAtRest
<1>1. Init => TypeOK /\ FilledInv
  BY IdleType DEF Init, TypeOK, Entry, FilledInv, PutIdle
<1>2. TypeOK /\ FilledInv => IntegrityAtRest
  BY DEF TypeOK, Entry, FilledInv, IntegrityAtRest, blob, Data
<1>3. TypeOK /\ FilledInv /\ [Next]_vars => FilledInv'
  BY FilledStep, Zenon
<1> QED
  BY <1>1, <1>2, <1>3, TypeStep, PTL DEF Spec

=============================================================================
