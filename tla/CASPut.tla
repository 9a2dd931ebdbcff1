------------------------------- MODULE CASPut -------------------------------
(***************************************************************************)
(* CASBlobStore.Put at the level of the file system, for one hash: the     *)
(* check for the object, the temporary file whose name is that of the      *)
(* hash, the hash check, the rename and the deferred removal.  Put takes   *)
(* no lock; its callers are HandleFileChange, /ingest and the goroutines   *)
(* of Pull, one per entry of the list of missing chunks, in which a hash   *)
(* may occur twice.                                                        *)
(***************************************************************************)
EXTENDS Naturals

CONSTANTS
  Writer,      \* goroutines that call Put with this hash
  Inode,       \* files of the file system; at least one more than Writer
  None,        \* no such directory entry, no open file
  BadData,     \* may a peer have sent data that does not have the hash?
  WriteErrors, \* may writing the temporary file fail?
  MaxCrashes   \* bound: crashes of the daemon

ASSUME CASAssumption ==
  /\ None \notin Inode
  /\ BadData \in BOOLEAN
  /\ WriteErrors \in BOOLEAN
  /\ MaxCrashes \in Nat

VARIABLES
  content,  \* content[i]: what file i holds
  tmp,      \* the file that tmp/<hash>.tmp names
  object,   \* the file that objects/<hash> names
  put,      \* put[w]: the call of Put of goroutine w
  crashes

vars == <<content, tmp, object, put, crashes>>

Data == {"good", "bad"}
Entry == Inode \cup {None}
PutState == [pc : {"idle", "open", "write", "check", "rename", "remove"},
             data : Data, fd : Entry]
PutIdle == [pc |-> "idle", data |-> "good", fd |-> None]

TypeOK ==
  /\ content \in [Inode -> Data \cup {"empty"}]
  /\ tmp \in Entry
  /\ object \in Entry
  /\ put \in [Writer -> PutState]
  /\ crashes \in Nat

Init ==
  /\ content = [i \in Inode |-> "empty"]
  /\ tmp = None
  /\ object = None
  /\ put = [w \in Writer |-> PutIdle]
  /\ crashes = 0

-----------------------------------------------------------------------------
SetPut(w, s) == put' = [put EXCEPT ![w] = s]

\* os.Stat: a Put of a hash that is there returns at once.
Stat(w, d) ==
  /\ put[w].pc = "idle"
  /\ object = None
  /\ d = "good" \/ BadData
  /\ SetPut(w, [pc |-> "open", data |-> d, fd |-> None])
  /\ UNCHANGED <<content, tmp, object, crashes>>

Unused(i) == i \notin {tmp, object} /\ \A w \in Writer : put[w].fd # i

\* os.WriteFile opens the temporary file: an existing one is truncated,
\* whoever else is using it.
Open(w, i) ==
  /\ put[w].pc = "open"
  /\ IF tmp = None THEN Unused(i) ELSE i = tmp
  /\ tmp' = i
  /\ content' = [content EXCEPT ![i] = "empty"]
  /\ SetPut(w, [put[w] EXCEPT !.pc = "write", !.fd = i])
  /\ UNCHANGED <<object, crashes>>

\* Mutant: the data go to the file that has the temporary name now.
WriteByName(w) ==
  /\ put[w].pc = "write"
  /\ content' = IF tmp = None THEN content ELSE [content EXCEPT ![tmp] = put[w].data]
  /\ SetPut(w, [put[w] EXCEPT !.pc = "check", !.fd = None])
  /\ UNCHANGED <<tmp, object, crashes>>

\* The data go to the file that was opened, whatever its name is by now.  Over
\* the data of another Put they may leave a mixture.
Write(w) ==
  LET f == put[w].fd
      mixed == content[f] # "empty" /\ "bad" \in {content[f], put[w].data} IN
  /\ put[w].pc = "write"
  /\ \E d \in IF mixed THEN Data ELSE {put[w].data} :
       content' = [content EXCEPT ![f] = d]
  /\ SetPut(w, [put[w] EXCEPT !.pc = "check", !.fd = None])
  /\ UNCHANGED <<tmp, object, crashes>>

\* Writing fails: Put returns before the removal is deferred.
WriteFails(w) ==
  /\ WriteErrors
  /\ put[w].pc = "write"
  /\ SetPut(w, PutIdle)
  /\ UNCHANGED <<content, tmp, object, crashes>>

\* Mutant: what was written is not checked.
CheckNothing(w) ==
  /\ put[w].pc = "check"
  /\ SetPut(w, [put[w] EXCEPT !.pc = "rename"])
  /\ UNCHANGED <<content, tmp, object, crashes>>

\* Mutant: the comparison of the hashes is inverted.
CheckInverted(w) ==
  /\ put[w].pc = "check"
  /\ SetPut(w, [put[w] EXCEPT !.pc = IF put[w].data = "bad" THEN "rename" ELSE "remove"])
  /\ UNCHANGED <<content, tmp, object, crashes>>

\* The hash of the data in memory, not of the file.
Check(w) ==
  /\ put[w].pc = "check"
  /\ SetPut(w, [put[w] EXCEPT !.pc = IF put[w].data = "good" THEN "rename" ELSE "remove"])
  /\ UNCHANGED <<content, tmp, object, crashes>>

\* os.Rename moves whatever has the temporary name; it fails if nothing has.
Rename(w) ==
  /\ put[w].pc = "rename"
  /\ object' = IF tmp = None THEN object ELSE tmp
  /\ tmp' = None
  /\ SetPut(w, [put[w] EXCEPT !.pc = "remove"])
  /\ UNCHANGED <<content, crashes>>

\* The deferred os.Remove of whatever has the temporary name.
Remove(w) ==
  /\ put[w].pc = "remove"
  /\ tmp' = None
  /\ SetPut(w, PutIdle)
  /\ UNCHANGED <<content, object, crashes>>

\* The daemon dies; the files stay.
Crash ==
  /\ crashes < MaxCrashes
  /\ crashes' = crashes + 1
  /\ put' = [w \in Writer |-> PutIdle]
  /\ UNCHANGED <<content, tmp, object>>

PutStep(w) ==
  \/ \E d \in Data : Stat(w, d)
  \/ \E i \in Inode : Open(w, i)
  \/ Write(w)
  \/ WriteFails(w)
  \/ Check(w)
  \/ Rename(w)
  \/ Remove(w)

Next == (\E w \in Writer : PutStep(w)) \/ Crash

Spec == Init /\ [][Next]_vars

-----------------------------------------------------------------------------
(***************************************************************************)
(* Properties.                                                             *)
(***************************************************************************)

\* CAS.Get opens the object: what it reads is what the file holds.
blob == IF object = None THEN "absent" ELSE content[object]

Promise == INSTANCE BlobStore WITH blob <- blob

\* If no two Puts of the hash overlap, the store keeps its promise, through
\* crashes at any point of Put and data that do not have the hash.
KeepsPromise == Promise!Spec

\* However Puts of the right data overlap, when none is under way the object
\* is whole, unless a crash or a failed write came between.
IntegrityAtRest ==
  (\A w \in Writer : put[w].pc = "idle") => blob \in {"absent", "good"}

\* A Put that got as far as its rename leaves the object there, although the
\* deferred removal of another Put may have taken its temporary file away.
StoredAfterPut ==
  \A w \in Writer : put[w].pc = "remove" /\ put[w].data = "good" => object # None

=============================================================================
