------------------------------ MODULE Watcher ------------------------------
(***************************************************************************)
(* The directory watcher: the walk that registers the directories, the     *)
(* events of fsnotify, and the debounce timers with the goroutines they    *)
(* start.  The map of timers has a mutex; a timer's function runs outside  *)
(* of it until it deletes its path from the map, so an event can reset a   *)
(* timer whose function has started already.                               *)
(*                                                                         *)
(* A timer of a path is in the map, or was deleted from it while it was    *)
(* running: a stray.  Which timer object it is makes no difference, for    *)
(* the function of each does the same.                                     *)
(***************************************************************************)
EXTENDS Naturals

CONSTANTS
  Path,       \* files and directories below the root, and the root
  Dirs,       \* the directories among them
  Root,       \* the watched directory
  Parent,     \* Parent[p]: the directory of p
  Hidden,     \* directories whose names begin with a dot
  MaxSaves,   \* bound: saves by the user
  Faults      \* may a directory be unreadable, or the event queue overflow?

ASSUME WatcherAssumption ==
  /\ Dirs \subseteq Path
  /\ Root \in Dirs
  /\ Parent \in [Path \ {Root} -> Dirs]
  /\ Hidden \subseteq Dirs \ {Root}
  /\ MaxSaves \in Nat
  /\ Faults \in BOOLEAN

VARIABLES
  phase,     \* of Start and of the goroutine it starts
  there,     \* what exists on disk
  todo,      \* directories the walk has still to visit
  watched,   \* directories added to fsnotify
  pending,   \* paths with an event in the channel
  timers,    \* the entry of a path in the map of timers
  strays,    \* strays[p]: number of running timers of p outside of the map
  held,      \* paths whose last event set a timer that is a stray now
  recent,    \* paths whose last event is less than quietPeriod ago
  entering,  \* entering[p]: goroutines of p that have not locked the mutex yet
  calling,   \* calling[p]: goroutines of p between the unlock and the callback
  owed,      \* history: files saved, with an event, and not reported since by
             \* a callback that came quietPeriod after the last event
  early,     \* history: directories there when Start was called
  refused,   \* history: directories that fsnotify could not watch
  saves

disk == <<there, saves>>
walk == <<todo, watched, early, refused>>
debounce == <<timers, strays, held, recent, entering>>
vars == <<phase, disk, walk, pending, debounce, calling, owed>>

Files == Path \ Dirs

TypeOK ==
  /\ phase \in {"walk", "run", "failed", "stopped"}
  /\ there \subseteq Path
  /\ todo \subseteq Dirs
  /\ watched \subseteq Dirs
  /\ pending \subseteq Path
  /\ timers \in [Path -> {"none", "running", "expired"}]
  /\ strays \in [Path -> Nat]
  /\ held \subseteq Path
  /\ recent \subseteq Path
  /\ entering \in [Path -> Nat]
  /\ calling \in [Path -> Nat]
  /\ owed \subseteq Files
  /\ early \subseteq Dirs
  /\ refused \subseteq Dirs
  /\ saves \in Nat

\* The user's directories may be there before the daemon starts.
Init ==
  /\ phase = "walk"
  /\ there \in {S \in SUBSET Dirs : Root \in S /\ \A d \in S \ {Root} : Parent[d] \in S}
  /\ todo = {Root}
  /\ watched = {}
  /\ pending = {}
  /\ timers = [p \in Path |-> "none"]
  /\ strays = [p \in Path |-> 0]
  /\ held = {}
  /\ recent = {}
  /\ entering = [p \in Path |-> 0]
  /\ calling = [p \in Path |-> 0]
  /\ owed = {}
  /\ early = there
  /\ refused = {}
  /\ saves = 0

-----------------------------------------------------------------------------
(***************************************************************************)
(* The user, and the events of the kernel.                                 *)
(***************************************************************************)

\* A create or write event, if somebody watches the directory.
Notify(p) ==
  pending' = IF Parent[p] \in watched THEN pending \cup {p} ELSE pending

Save(p) ==
  /\ p \in Files
  /\ Parent[p] \in there
  /\ saves < MaxSaves
  /\ saves' = saves + 1
  /\ there' = there \cup {p}
  /\ Notify(p)
  /\ owed' = IF Parent[p] \in watched THEN owed \cup {p} ELSE owed
  /\ UNCHANGED <<phase, walk, debounce, calling>>

MakeDir(p) ==
  /\ p \in Dirs \ there
  /\ Parent[p] \in there
  /\ there' = there \cup {p}
  /\ Notify(p)
  /\ UNCHANGED <<phase, saves, walk, debounce, calling, owed>>

\* The event of a removal is ignored; there is nothing left to report.
Delete(p) ==
  /\ p \in there \ Dirs
  /\ there' = there \ {p}
  /\ owed' = owed \ {p}
  /\ UNCHANGED <<phase, saves, walk, pending, debounce, calling>>

\* The kernel's queue overflows, and the error is logged: nobody is told.
Overflow(p) ==
  /\ Faults
  /\ p \in pending
  /\ pending' = pending \ {p}
  /\ owed' = owed \ {p}
  /\ UNCHANGED <<phase, disk, walk, debounce, calling>>

-----------------------------------------------------------------------------
(***************************************************************************)
(* Watcher.Start.                                                          *)
(***************************************************************************)

\* Mutant: files are taken for directories.
VisitAll(d) ==
  /\ phase = "walk"
  /\ d \in todo
  /\ watched' = watched \cup {d}
  /\ todo' = (todo \ {d}) \cup {c \in there \ (Hidden \cup {Root}) : Parent[c] = d}
  /\ UNCHANGED <<phase, disk, early, refused, pending, debounce, calling, owed>>

\* Mutant: the directories in one that fsnotify cannot watch are skipped.
VisitSkipsRefused(d) ==
  /\ phase = "walk"
  /\ d \in todo
  /\ \/ /\ watched' = watched \cup {d}
        /\ todo' = (todo \ {d}) \cup
                   {c \in (there \cap Dirs) \ (Hidden \cup {Root}) : Parent[c] = d}
        /\ UNCHANGED refused
     \/ /\ Faults
        /\ refused' = refused \cup {d}
        /\ todo' = todo \ {d}
        /\ UNCHANGED watched
  /\ UNCHANGED <<phase, disk, early, pending, debounce, calling, owed>>

\* filepath.Walk at a directory: Add, then the directories in it.  An Add that
\* fails is logged.
Visit(d) ==
  /\ phase = "walk"
  /\ d \in todo
  /\ \/ watched' = watched \cup {d} /\ UNCHANGED refused
     \/ Faults /\ refused' = refused \cup {d} /\ UNCHANGED watched
  /\ todo' = (todo \ {d}) \cup
             {c \in (there \cap Dirs) \ (Hidden \cup {Root}) : Parent[c] = d}
  /\ UNCHANGED <<phase, disk, early, pending, debounce, calling, owed>>

\* A directory cannot be read, or a file goes while it is walked: Start returns
\* the error, and the daemon runs on.
WalkFails ==
  /\ Faults
  /\ phase = "walk"
  /\ phase' = "failed"
  /\ UNCHANGED <<disk, walk, pending, debounce, calling, owed>>

WalkEnds ==
  /\ phase = "walk"
  /\ todo = {}
  /\ phase' = "run"
  /\ UNCHANGED <<disk, walk, pending, debounce, calling, owed>>

-----------------------------------------------------------------------------
(***************************************************************************)
(* The goroutine that receives the events, and the timers.                 *)
(***************************************************************************)

\* Mutant: a path that has an entry in the map is left alone.
ReceiveNoReset(p) ==
  /\ phase = "run"
  /\ p \in pending
  /\ pending' = pending \ {p}
  /\ timers' = [timers EXCEPT ![p] = IF @ = "none" THEN "running" ELSE @]
  /\ recent' = recent \cup {p}
  /\ held' = held \ {p}
  /\ UNCHANGED <<phase, disk, walk, strays, entering, calling, owed>>

\* Reset of the timer in the map, expired or not, or a new timer.
Receive(p) ==
  /\ phase = "run"
  /\ p \in pending
  /\ pending' = pending \ {p}
  /\ timers' = [timers EXCEPT ![p] = "running"]
  /\ recent' = recent \cup {p}
  /\ held' = held \ {p}
  /\ UNCHANGED <<phase, disk, walk, strays, entering, calling, owed>>

\* The last event of p is quietPeriod ago.
Settle(p) ==
  /\ p \in recent
  /\ recent' = recent \ {p}
  /\ UNCHANGED <<phase, disk, walk, pending, timers, strays, held, entering, calling, owed>>

\* The timer in the map, which the last event has set, expires.
Expire(p) ==
  /\ timers[p] = "running"
  /\ p \notin recent
  /\ timers' = [timers EXCEPT ![p] = "expired"]
  /\ entering' = [entering EXCEPT ![p] = @ + 1]
  /\ UNCHANGED <<phase, disk, walk, pending, strays, held, recent, calling, owed>>

\* A stray expires.  Strays set by earlier events than the last do so at any
\* time.
ExpireStray(p) ==
  /\ strays[p] > IF p \in recent \cap held THEN 1 ELSE 0
  /\ strays' = [strays EXCEPT ![p] = @ - 1]
  /\ entering' = [entering EXCEPT ![p] = @ + 1]
  /\ UNCHANGED <<phase, disk, walk, pending, timers, held, recent, calling, owed>>

\* Mutant: the timer that is deleted from the map is stopped.
FireStops(p) ==
  /\ entering[p] > 0
  /\ entering' = [entering EXCEPT ![p] = @ - 1]
  /\ calling' = [calling EXCEPT ![p] = @ + 1]
  /\ timers' = [timers EXCEPT ![p] = "none"]
  /\ UNCHANGED <<phase, disk, walk, pending, strays, held, recent, owed>>

\* The locked part of fire.  A timer that was reset in the meantime, or that is
\* another one than ours, becomes a stray.
Fire(p) ==
  /\ entering[p] > 0
  /\ entering' = [entering EXCEPT ![p] = @ - 1]
  /\ calling' = [calling EXCEPT ![p] = @ + 1]
  /\ timers' = [timers EXCEPT ![p] = "none"]
  /\ IF timers[p] = "running"
       THEN strays' = [strays EXCEPT ![p] = @ + 1] /\ held' = held \cup {p}
       ELSE UNCHANGED <<strays, held>>
  /\ UNCHANGED <<phase, disk, walk, pending, recent, owed>>

\* The rest of fire: os.Stat, and the callback for a file that is there.
Call(p) ==
  /\ calling[p] > 0
  /\ calling' = [calling EXCEPT ![p] = @ - 1]
  /\ owed' = IF p \in there \ (Dirs \cup pending \cup recent) THEN owed \ {p} ELSE owed
  /\ UNCHANGED <<phase, disk, walk, pending, debounce>>

\* ctx.Done: no more events, and the timers in the map are stopped.
Stop ==
  /\ phase = "run"
  /\ phase' = "stopped"
  /\ timers' = [p \in Path |-> "none"]
  /\ UNCHANGED <<disk, walk, pending, strays, held, recent, entering, calling, owed>>

-----------------------------------------------------------------------------
User(p) == Save(p) \/ MakeDir(p) \/ Delete(p)

Start == WalkEnds \/ WalkFails \/ \E d \in Dirs : Visit(d)

TimerStep(p) ==
  Receive(p) \/ Settle(p) \/ Expire(p) \/ ExpireStray(p) \/ Fire(p) \/ Call(p)

Next ==
  \/ \E p \in Path \ {Root} : User(p) \/ Overflow(p) \/ TimerStep(p)
  \/ Start
  \/ Stop

Spec == Init /\ [][Next]_vars

\* The walk goes on, events are received, time passes and goroutines run.
FairSpec ==
  /\ Spec
  /\ WF_vars(Start)
  /\ \A p \in Path \ {Root} :
       /\ WF_vars(Receive(p))
       /\ WF_vars(Settle(p))
       /\ WF_vars(Expire(p) \/ ExpireStray(p))
       /\ WF_vars(Fire(p))
       /\ WF_vars(Call(p))

-----------------------------------------------------------------------------
(***************************************************************************)
(* Properties.                                                             *)
(***************************************************************************)

Visited == watched \cup refused

\* The walk that ends without an error has been at every directory that was
\* there before, and at none that is hidden or in a hidden one, whatever users
\* make meanwhile and whichever directories fsnotify cannot watch.
VisibleTreeIsWalked ==
  phase = "run" =>
    /\ Root \in Visited /\ Visited \cap Hidden = {}
    /\ \A d \in Visited \ {Root} : Parent[d] \in Visited
    /\ \A d \in early \ (Hidden \cup {Root}) : Parent[d] \in Visited => d \in Visited

\* From an event until its path has been quiet for quietPeriod, a timer of the
\* path is running, although the function of an earlier one deletes the entry
\* of the map whichever timer that is by then.
RecentIsTimed ==
  phase = "run" =>
    \A p \in recent : timers[p] = "running" \/ (p \in held /\ strays[p] > 0)

\* A save is never forgotten: as long as it is not reported, its event, a timer
\* or a goroutine that will report it is on the way.
OwedIsUnderWay ==
  phase = "run" =>
    \A p \in owed :
      \/ p \in pending
      \/ timers[p] = "running"
      \/ strays[p] + entering[p] + calling[p] > 0

\* Every save that the kernel reports is passed on by a callback that comes
\* when the path has been quiet for quietPeriod, however the timers and their
\* functions interleave with the events, unless the watcher is stopped first.
SavesGetReported ==
  \A p \in Files : p \in owed ~> (p \notin owed \/ phase \in {"stopped", "failed"})

=============================================================================
