--------------------------- MODULE WatcherProofs ---------------------------
(***************************************************************************)
(* The walk of the watcher misses no directory, and the watcher forgets no *)
(* save, for any tree of files and directories and any number of events    *)
(* and timers.                                                             *)
(***************************************************************************)
EXTENDS Watcher, TLAPS

\* The watcher has not been stopped and its walk has not failed.
Alive == phase \in {"walk", "run"}

Timed(p) == timers[p] = "running" \/ (p \in held /\ strays[p] > 0)

UnderWay(p) ==
  \/ p \in pending
  \/ timers[p] = "running"
  \/ strays[p] + entering[p] + calling[p] > 0

\* What a step needs to know: a file that is owed exists, so that the callback
\* for it is not skipped, and a recent path has a timer, so that a callback that
\* comes too early is followed by another.
WatchInv ==
  /\ TypeOK
  /\ owed \subseteq there
  /\ Alive => \A p \in recent : Timed(p)
  /\ Alive => \A p \in owed : UnderWay(p)

\* The variables keep their types in every step of the watcher and of its users.
LEMMA WatchTypeStep == ASSUME TypeOK, [Next]_vars PROVE TypeOK'
<1> USE WatcherAssumption DEF TypeOK, Files
<1>1. ASSUME NEW p \in Path \ {Root}, User(p) PROVE TypeOK'
  BY <1>1 DEF User, Save, MakeDir, Delete, Notify, disk, walk, debounce
<1>2. ASSUME NEW p \in Path \ {Root}, Overflow(p) PROVE TypeOK'
  BY <1>2 DEF Overflow, disk, walk, debounce
<1>3. ASSUME NEW p \in Path \ {Root}, Receive(p) PROVE TypeOK'
  BY <1>3 DEF Receive, disk, walk
<1>4. ASSUME NEW p \in Path \ {Root}, Settle(p) PROVE TypeOK'
  BY <1>4 DEF Settle, disk, walk
<1>5. ASSUME NEW p \in Path \ {Root}, Expire(p) PROVE TypeOK'
  BY <1>5 DEF Expire, disk, walk
<1>6. ASSUME NEW p \in Path \ {Root}, ExpireStray(p) PROVE TypeOK'
  <2>1. strays[p] > 0 BY <1>6 DEF ExpireStray
  <2> QED BY <1>6, <2>1 DEF ExpireStray, disk, walk
<1>7. ASSUME NEW p \in Path \ {Root}, Fire(p) PROVE TypeOK'
  BY <1>7 DEF Fire, disk, walk
<1>8. ASSUME NEW p \in Path \ {Root}, Call(p) PROVE TypeOK'
  BY <1>8 DEF Call, disk, walk, debounce
<1>9. ASSUME NEW d \in Dirs, Visit(d) PROVE TypeOK'
  BY <1>9 DEF Visit, disk, debounce
<1>10. CASE WalkFails \/ WalkEnds
  BY <1>10 DEF WalkFails, WalkEnds, disk, walk, debounce
<1>11. CASE Stop
  BY <1>11 DEF Stop, disk, walk
<1>12. CASE UNCHANGED vars
  BY <1>12 DEF vars, disk, walk, debounce
<1> QED
  BY <1>1, <1>2, <1>3, <1>4, <1>5, <1>6, <1>7, <1>8, <1>9, <1>10, <1>11, <1>12
  DEF Next, Start, TimerStep

\* The steps of the user, of the kernel and of the walk keep the invariant.
LEMMA WatchOutsideStep ==
  ASSUME WatchInv,
         \/ \E p \in Path \ {Root} : User(p) \/ Overflow(p)
         \/ Start
         \/ Stop
         \/ UNCHANGED vars
  PROVE  /\ (owed \subseteq there)'
         /\ (Alive => \A p \in recent : Timed(p))'
         /\ (Alive => \A p \in owed : UnderWay(p))'
<1> USE WatcherAssumption DEF WatchInv, TypeOK, Files, Alive, Timed, UnderWay
<1>1. ASSUME NEW p \in Path \ {Root}, Save(p) PROVE
        /\ (owed \subseteq there)'
        /\ (Alive => \A q \in recent : Timed(q))'
        /\ (Alive => \A q \in owed : UnderWay(q))'
  BY <1>1 DEF Save, Notify, walk, debounce
<1>2. ASSUME NEW p \in Path \ {Root}, MakeDir(p) \/ Delete(p) \/ Overflow(p) PROVE
        /\ (owed \subseteq there)'
        /\ (Alive => \A q \in recent : Timed(q))'
        /\ (Alive => \A q \in owed : UnderWay(q))'
  BY <1>2 DEF MakeDir, Delete, Overflow, Notify, disk, walk, debounce
<1>3. CASE Start \/ UNCHANGED vars
  BY <1>3 DEF Start, Visit, WalkFails, WalkEnds, vars, disk, walk, debounce
<1>4. CASE Stop
  BY <1>4 DEF Stop, disk, walk
<1> QED
  BY <1>1, <1>2, <1>3, <1>4 DEF User

\* The steps of the debounce keep the invariant.
LEMMA WatchTimerStep ==
  ASSUME WatchInv, NEW p \in Path \ {Root}, TimerStep(p)
  PROVE  /\ (owed \subseteq there)'
         /\ (Alive => \A q \in recent : Timed(q))'
         /\ (Alive => \A q \in owed : UnderWay(q))'
<1> USE WatcherAssumption DEF WatchInv, TypeOK, Files, Alive, Timed, UnderWay
<1>1. CASE Receive(p)
  BY <1>1 DEF Receive, disk, walk
<1>2. CASE Settle(p)
  BY <1>2 DEF Settle, disk, walk
<1>3. CASE Expire(p)
  BY <1>3 DEF Expire, disk, walk
<1>4. CASE ExpireStray(p)
  BY <1>4 DEF ExpireStray, disk, walk
<1>5. CASE Fire(p)
  BY <1>5 DEF Fire, disk, walk
<1>6. CASE Call(p)
  BY <1>6 DEF Call, disk, walk, debounce
<1> QED
  BY <1>1, <1>2, <1>3, <1>4, <1>5, <1>6 DEF TimerStep

\* No step of the watcher forgets a save.
LEMMA WatchInvariant == Spec => []WatchInv
<1>1. Init => WatchInv
  BY WatcherAssumption DEF Init, WatchInv, TypeOK, Files, Alive, Timed, UnderWay
<1>2. WatchInv /\ [Next]_vars => WatchInv'
  <2> SUFFICES ASSUME WatchInv, [Next]_vars PROVE WatchInv'
    OBVIOUS
  <2>1. TypeOK' BY WatchTypeStep DEF WatchInv
  <2>2. /\ (owed \subseteq there)'
        /\ (Alive => \A p \in recent : Timed(p))'
        /\ (Alive => \A p \in owed : UnderWay(p))'
    <3>1. CASE \E p \in Path \ {Root} : TimerStep(p)
      BY <3>1, WatchTimerStep
    <3>2. CASE ~ \E p \in Path \ {Root} : TimerStep(p)
      BY <3>2, WatchOutsideStep DEF Next
    <3> QED BY <3>1, <3>2
  <2> QED BY <2>1, <2>2 DEF WatchInv
<1> QED BY <1>1, <1>2, PTL DEF Spec

\* The types of the watcher, for any tree and any number of events.
THEOREM WatcherTypeCorrect == Spec => []TypeOK
<1>1. WatchInv => TypeOK BY DEF WatchInv
<1> QED BY <1>1, WatchInvariant, PTL

\* Between an event and the end of quietPeriod after it a timer of the path is
\* always running, although fire deletes whatever timer the map has.
THEOREM EventsAreTimed == Spec => []RecentIsTimed
<1>1. WatchInv => RecentIsTimed
  BY DEF WatchInv, RecentIsTimed, Alive, Timed
<1> QED BY <1>1, WatchInvariant, PTL

\* A save that is not reported yet is always on its way to the callback.
THEOREM NoSaveForgotten == Spec => []OwedIsUnderWay
<1>1. WatchInv => OwedIsUnderWay
  BY DEF WatchInv, OwedIsUnderWay, Alive, UnderWay
<1> QED BY <1>1, WatchInvariant, PTL

-----------------------------------------------------------------------------
(***************************************************************************)
(* The walk.  A directory in a visited one has been visited or is next, if *)
(* it was there from the beginning and is not hidden.                      *)
(***************************************************************************)
WalkInv ==
  /\ early \subseteq there
  /\ Root \in Visited \cup todo
  /\ (Visited \cup todo) \cap Hidden = {}
  /\ \A d \in (Visited \cup todo) \ {Root} : Parent[d] \in Visited
  /\ \A d \in early \ (Hidden \cup {Root}) : Parent[d] \in Visited => d \in Visited \cup todo
  /\ phase = "run" => todo = {}

\* The walk, and the users who change the tree meanwhile, keep it.
LEMMA WalkStep ==
  ASSUME TypeOK, WalkInv, [Next]_vars
  PROVE  WalkInv'
<1>1. ASSUME early \subseteq there', UNCHANGED walk, phase' = "run" => todo = {}
      PROVE  WalkInv'
  BY <1>1 DEF WalkInv, Visited, walk
<1>2. ASSUME NEW p \in Path \ {Root}, User(p)
      PROVE  WalkInv'
  <2>1. early \subseteq there'
    BY <1>2 DEF User, Save, MakeDir, Delete, WalkInv, TypeOK
  <2>2. UNCHANGED walk /\ phase' = phase
    BY <1>2, Zenon DEF User, Save, MakeDir, Delete
  <2> QED
    BY <1>1, <2>1, <2>2 DEF WalkInv
<1>3. CASE \/ \E p \in Path \ {Root} : Overflow(p) \/ TimerStep(p)
           \/ WalkEnds \/ WalkFails \/ Stop \/ UNCHANGED vars
  <2>1. UNCHANGED <<there, walk>>
    BY <1>3 DEF Overflow, TimerStep, Receive, Settle, Expire, ExpireStray, Fire, Call,
       WalkEnds, WalkFails, Stop, vars, disk
  <2>2. phase' = "run" => todo = {}
    BY <1>3 DEF Overflow, TimerStep, Receive, Settle, Expire, ExpireStray, Fire, Call,
       WalkEnds, WalkFails, Stop, vars, WalkInv
  <2> QED
    BY <1>1, <2>1, <2>2 DEF WalkInv
<1>4. ASSUME NEW d \in Dirs, Visit(d)
      PROVE  WalkInv'
  <2>1. /\ Visited' = Visited \cup {d} /\ d \in todo
        /\ UNCHANGED <<there, early>> /\ phase' # "run"
    BY <1>4 DEF Visit, Visited, disk
  <2>2. todo' = (todo \ {d}) \cup
               {c \in (there \cap Dirs) \ (Hidden \cup {Root}) : Parent[c] = d}
    BY <1>4 DEF Visit
  <2> QED
    BY <2>1, <2>2 DEF WalkInv, TypeOK
<1> QED
  BY <1>2, <1>3, <1>4 DEF Next, Start

\* When Start has returned without an error, every directory that was there when
\* it was called is watched, or fsnotify has refused it, or it is hidden or in a
\* hidden one: in any tree, and whatever is saved, made and deleted in it while
\* filepath.Walk is under way.
THEOREM WalkMissesNothing == Spec => []VisibleTreeIsWalked
<1>1. Init => WalkInv
  BY WatcherAssumption DEF Init, WalkInv, Visited
<1>2. TypeOK /\ WalkInv /\ [Next]_vars => WalkInv'
  BY WalkStep
<1>3. WalkInv => VisibleTreeIsWalked
  BY DEF WalkInv, VisibleTreeIsWalked
<1> QED
  BY <1>1, <1>2, <1>3, WatcherTypeCorrect, PTL DEF Spec

=============================================================================
