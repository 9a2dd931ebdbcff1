----------------------------- MODULE Lifecycle -----------------------------
(***************************************************************************)
(* Start and Stop of the daemon against the goroutines that are running    *)
(* meanwhile: the control plane's requests, announcements, the             *)
(* anti-entropy loop, file changes and Pulls.  The signal handler runs     *)
(* Stop in a goroutine of its own and waits for nobody but the requests of *)
(* the control plane; g.list, which it sets to nil, has no lock.           *)
(*                                                                         *)
(* A version stands for what is put into the index and announced.  Whether *)
(* a version that a peer has is wanted is the matter of Replication; here  *)
(* it may or may not be.                                                   *)
(***************************************************************************)
EXTENDS Naturals

CONSTANTS
  Request,  \* requests of the control plane
  Local,    \* versions of changes in the watched directory
  Remote    \* versions of peers

ASSUME LifecycleAssumption == Local \cap Remote = {}

VARIABLES
  status,    \* of the process
  start,     \* the next statement of Daemon.Start
  stop,      \* the next statement of the signal handler and of Daemon.Stop
  callback,  \* g.onAnnounce
  list,      \* g.list
  net,       \* memberlist's goroutines
  found,     \* what Stop found in g.list
  numNodes,  \* a request of memberlist for broadcasts, in NumNodes
  grpc,      \* the control plane's server
  requests,  \* requests it is answering
  index,     \* the bbolt index
  loop,      \* the anti-entropy loop
  learn,     \* learn[w]: a comparison with what a peer has
  work,      \* work[v]: the goroutine that indexes v
  indexed, queued, sent,  \* versions in the index, in the broadcast queue,
                          \* and sent to the cluster
  refused,   \* history: changes that the index refused while it was open
  blind      \* history: Pulls that were triggered although the index could
             \* not be read

gossip == <<callback, list, net, found, numNodes>>
server == <<grpc, requests>>
daemon == <<loop, learn, work, indexed, queued, sent, refused, blind>>
vars == <<status, start, stop, gossip, server, index, daemon>>

Version == Local \cup Remote
Source == {"announcement", "catalog"}

TypeOK ==
  /\ status \in {"up", "exited", "fatal", "panic"}
  /\ start \in {"register", "create", "assign", "join", "watch", "loop", "online"}
  /\ stop \in {"wait", "leave", "shutdown", "forget", "refuse", "drain", "close", "exit"}
  /\ callback \in {"nil", "set"}
  /\ list \in {"nil", "set"}
  /\ net \in {"down", "up"}
  /\ found \in {"nothing", "nil", "set"}
  /\ numNodes \in {"idle", "reading"}
  /\ index \in {"open", "closed"}
  /\ grpc \in {"new", "serving", "stopped"}
  /\ requests \subseteq Request
  /\ loop \in {"off", "select", "done"}
  /\ learn \in [Source -> {"none", "compare", "wanted", "unknown"}]
  /\ work \in [Version -> {"none", "put", "announce", "done", "lost"}]
  /\ indexed \subseteq Version
  /\ queued \subseteq Version
  /\ sent \subseteq queued
  /\ refused \subseteq Local
  /\ blind \subseteq Remote

\* NewDaemon has returned, and the signal handler is installed.
Init ==
  /\ status = "up"
  /\ start = "register"
  /\ stop = "wait"
  /\ callback = "nil"
  /\ list = "nil"
  /\ net = "down"
  /\ found = "nothing"
  /\ numNodes = "idle"
  /\ grpc = "new"
  /\ requests = {}
  /\ index = "open"
  /\ loop = "off"
  /\ learn = [w \in Source |-> "none"]
  /\ work = [v \in Version |-> "none"]
  /\ indexed = {}
  /\ queued = {}
  /\ sent = {}
  /\ refused = {}
  /\ blind = {}

-----------------------------------------------------------------------------
(***************************************************************************)
(* Daemon.Start and GossipNode.Start.                                      *)
(***************************************************************************)

Dies(how) == status' = how /\ UNCHANGED <<start, stop, gossip, server, index, daemon>>

Register ==
  /\ start = "register"
  /\ start' = "create"
  /\ callback' = "set"
  /\ UNCHANGED <<status, stop, list, net, found, numNodes, server, index, daemon>>

\* memberlist.Create starts its goroutines before it returns.
Create ==
  /\ start = "create"
  /\ \/ Dies("fatal")
     \/ /\ start' = "assign"
        /\ net' = "up"
        /\ UNCHANGED <<status, stop, callback, list, found, numNodes, server, index, daemon>>

Assign ==
  /\ start = "assign"
  /\ start' = "join"
  /\ list' = "set"
  /\ UNCHANGED <<status, stop, callback, net, found, numNodes, server, index, daemon>>

\* Without seeds, g.list is not read.
Join ==
  /\ start = "join"
  /\ \/ Dies(IF list = "set" THEN "fatal" ELSE "panic")
     \/ /\ start' = "watch"
        /\ UNCHANGED <<status, stop, gossip, server, index, daemon>>

\* Watcher.Start, whose error is a warning.
WatcherStart ==
  /\ start = "watch"
  /\ start' = "loop"
  /\ UNCHANGED <<status, stop, gossip, server, index, daemon>>

\* Mutant: the loop does not wait for the rest of Start.
StartLoopEarly ==
  /\ loop = "off"
  /\ start' = IF start = "loop" THEN "online" ELSE start
  /\ loop' = "select"
  /\ UNCHANGED <<status, stop, gossip, server, index, learn, work, indexed, queued, sent, refused, blind>>

StartLoop ==
  /\ start = "loop"
  /\ start' = "online"
  /\ loop' = "select"
  /\ UNCHANGED <<status, stop, gossip, server, index, learn, work, indexed, queued, sent, refused, blind>>

\* The goroutine of the control plane.  Serve returns at once after a stop.
Serve ==
  /\ grpc = "new"
  /\ \/ Dies("fatal")
     \/ /\ grpc' = "serving"
        /\ UNCHANGED <<status, start, stop, gossip, requests, index, daemon>>

\* StartLocalAPI returns when it cannot listen, and main with it; Stop is not
\* called.
ApiExits == start = "online" /\ Dies("exited")

-----------------------------------------------------------------------------
(***************************************************************************)
(* The signal handler, Daemon.Stop and GossipNode.Stop.                    *)
(***************************************************************************)

StopGoes(from, to) ==
  /\ stop = from
  /\ stop' = to
  /\ UNCHANGED <<status, start, daemon>>

Signal ==
  /\ StopGoes("wait", "leave")
  /\ UNCHANGED <<gossip, server, index>>

Leave ==
  /\ StopGoes("leave", IF list = "set" THEN "shutdown" ELSE "refuse")
  /\ found' = list
  /\ UNCHANGED <<callback, list, net, numNodes, server, index>>

\* Mutant: the member list is left, and goes on running.
ShutdownNot ==
  /\ StopGoes("shutdown", "forget")
  /\ UNCHANGED <<gossip, server, index>>

\* No more packets are received or sent; handlers that have begun go on.
Shutdown ==
  /\ StopGoes("shutdown", "forget")
  /\ net' = "down"
  /\ UNCHANGED <<callback, list, found, numNodes, server, index>>

\* Mutant: g.list keeps the member list that was shut down.
ForgetNot ==
  /\ StopGoes("forget", "refuse")
  /\ UNCHANGED <<gossip, server, index>>

Forget ==
  /\ StopGoes("forget", "refuse")
  /\ list' = "nil"
  /\ UNCHANGED <<callback, net, found, numNodes, server, index>>

\* Mutant: the server goes on accepting while it is drained.
RefuseNot ==
  /\ StopGoes("refuse", "drain")
  /\ UNCHANGED <<gossip, server, index>>

\* GracefulStop accepts no more requests ...
Refuse ==
  /\ StopGoes("refuse", "drain")
  /\ grpc' = "stopped"
  /\ UNCHANGED <<gossip, requests, index>>

\* Mutant: Stop in place of GracefulStop.
DrainNot ==
  /\ StopGoes("drain", "close")
  /\ UNCHANGED <<gossip, server, index>>

\* ... and returns when those it has accepted are answered.
Drain ==
  /\ StopGoes("drain", "close")
  /\ requests = {}
  /\ UNCHANGED <<gossip, server, index>>

Close ==
  /\ StopGoes("close", "exit")
  /\ index' = "closed"
  /\ UNCHANGED <<gossip, server>>

Exit == stop = "exit" /\ Dies("exited")

-----------------------------------------------------------------------------
(***************************************************************************)
(* The requests of the control plane.                                      *)
(***************************************************************************)

Accept(r) ==
  /\ grpc = "serving"
  /\ r \notin requests
  /\ requests' = requests \cup {r}
  /\ UNCHANGED <<status, start, stop, gossip, grpc, index, daemon>>

Answer(r) ==
  /\ r \in requests
  /\ requests' = requests \ {r}
  /\ UNCHANGED <<status, start, stop, gossip, grpc, index, daemon>>

-----------------------------------------------------------------------------
(***************************************************************************)
(* What peers have: announcements and catalogs.                            *)
(***************************************************************************)

Learn(w, s) ==
  /\ learn' = [learn EXCEPT ![w] = s]
  /\ UNCHANGED <<status, start, stop, gossip, server, index, loop, work, indexed, queued, sent, refused, blind>>

\* handleMsg: without a callback the announcement is dropped.
Deliver ==
  /\ net = "up"
  /\ learn["announcement"] = "none"
  /\ Learn("announcement", IF callback = "set" THEN "compare" ELSE "none")

\* A tick.  select may prefer it to a context that is done, with which no
\* catalog is fetched.
Tick ==
  /\ loop = "select"
  /\ learn["catalog"] = "none"
  /\ IF list = "set"
       THEN Learn("catalog", IF stop = "wait" THEN "compare" ELSE "none")
       ELSE Dies("panic")

LoopEnds ==
  /\ loop = "select"
  /\ stop # "wait"
  /\ loop' = "done"
  /\ UNCHANGED <<status, start, stop, gossip, server, index, learn, work, indexed, queued, sent, refused, blind>>

\* Our version is the same or wins, or the catalog cannot be fetched.
NotWanted(w) ==
  /\ learn[w] = "compare"
  /\ index = "open" \/ w = "catalog"
  /\ Learn(w, "none")

\* GetFileMeta fails alike for a file the index does not have and for an index
\* that is closed.
Compare(w) ==
  /\ learn[w] = "compare"
  /\ Learn(w, IF index = "open" THEN "wanted" ELSE "unknown")

\* d.syncing has the file.
Pulling == \E v \in Remote : work[v] \in {"put", "announce", "lost"}

\* triggerSync: the member list is read in the goroutine of the caller.
TriggerSync(w, v) ==
  /\ learn[w] \in {"wanted", "unknown"}
  /\ work[v] = "none"
  /\ IF ~Pulling /\ list = "nil"
       THEN Dies("panic")
       ELSE /\ learn' = [learn EXCEPT ![w] = "none"]
            /\ work' = IF Pulling THEN work ELSE [work EXCEPT ![v] = "put"]
            /\ blind' = IF ~Pulling /\ learn[w] = "unknown" THEN blind \cup {v} ELSE blind
            /\ UNCHANGED <<status, start, stop, gossip, server, index, loop, indexed, queued, sent, refused>>

\* POST /sync, which is served after Start has returned.  net/http recovers from
\* the panic of a handler; d.syncing keeps the file.
SyncRequest(v) ==
  /\ start = "online"
  /\ work[v] = "none"
  /\ ~Pulling
  /\ work' = [work EXCEPT ![v] = IF list = "set" THEN "put" ELSE "lost"]
  /\ UNCHANGED <<status, start, stop, gossip, server, index, loop, learn, indexed, queued, sent, refused, blind>>

-----------------------------------------------------------------------------
(***************************************************************************)
(* Versions are indexed and announced.                                     *)
(***************************************************************************)

WorkGoes(v, from, to) ==
  /\ work[v] = from
  /\ work' = [work EXCEPT ![v] = to]
  /\ UNCHANGED <<status, start, stop, gossip, server, index, loop, learn, sent, blind>>

\* A timer of the watcher fires, also after the context is done, or /ingest is
\* called.
Change(v) ==
  /\ start \in {"loop", "online"}
  /\ WorkGoes(v, "none", "put")
  /\ UNCHANGED <<indexed, queued, refused>>

\* PutFileMeta has written the version.
Put(v) ==
  /\ index = "open"
  /\ WorkGoes(v, "put", "announce")
  /\ indexed' = indexed \cup {v}
  /\ UNCHANGED <<queued, refused>>

\* PutFileMeta fails, because the index is closed or cannot be written.
\* HandleFileChange ignores the error, Pull returns it.
PutFails(v) ==
  /\ WorkGoes(v, "put", IF v \in Local THEN "announce" ELSE "done")
  /\ refused' = IF index = "open" /\ v \in Local THEN refused \cup {v} ELSE refused
  /\ UNCHANGED <<indexed, queued>>

\* A Pull fails earlier.
PullFails(v) == WorkGoes(v, "put", "done") /\ UNCHANGED <<indexed, queued, refused>>

Broadcast(v) ==
  /\ WorkGoes(v, "announce", "done")
  /\ queued' = queued \cup {v}
  /\ UNCHANGED <<indexed, refused>>

\* memberlist asks for the broadcasts.  NumNodes looks whether g.list is set ...
Count ==
  /\ net = "up"
  /\ numNodes = "idle"
  /\ numNodes' = IF list = "set" THEN "reading" ELSE "idle"
  /\ sent' = IF list = "set" THEN sent ELSE queued
  /\ UNCHANGED <<status, start, stop, callback, list, net, found, server, index,
                 loop, learn, work, indexed, queued, refused, blind>>

\* Mutant: a broadcast leaves the queue when it is sent for the first time.
CountedOnce ==
  /\ numNodes = "reading"
  /\ list = "set"
  /\ numNodes' = "idle"
  /\ sent' = sent \cup (IF net = "up" THEN queued ELSE {})
  /\ queued' = {}
  /\ UNCHANGED <<status, start, stop, callback, list, net, found, server, index,
                 loop, learn, work, indexed, refused, blind>>

\* ... and reads it again.
Counted ==
  /\ numNodes = "reading"
  /\ IF list = "set"
       THEN /\ numNodes' = "idle"
            /\ sent' = IF net = "up" THEN queued ELSE sent
            /\ UNCHANGED <<status, start, stop, callback, list, net, found, server, index,
                           loop, learn, work, indexed, queued, refused, blind>>
       ELSE Dies("panic")

-----------------------------------------------------------------------------
StartStep ==
  Register \/ Create \/ Assign \/ Join \/ WatcherStart \/ StartLoop \/ Serve \/ ApiExits

StopStep == Leave \/ Shutdown \/ Forget \/ Refuse \/ Drain \/ Close \/ Exit

LearnStep ==
  \/ Deliver \/ Tick \/ LoopEnds
  \/ \E w \in Source : NotWanted(w) \/ Compare(w) \/ \E v \in Remote : TriggerSync(w, v)
  \/ \E v \in Remote : SyncRequest(v)

WorkStep ==
  \/ \E v \in Local : Change(v)
  \/ \E v \in Version : Put(v) \/ PutFails(v) \/ Broadcast(v)
  \/ \E v \in Remote : PullFails(v)
  \/ Count \/ Counted

Next ==
  /\ status = "up"
  /\ \/ StartStep \/ Signal \/ StopStep
     \/ \E r \in Request : Accept(r) \/ Answer(r)
     \/ LearnStep \/ WorkStep

Spec == Init /\ [][Next]_vars

\* The signal handler and the handlers of accepted requests run.
FairSpec ==
  /\ Spec
  /\ WF_vars(status = "up" /\ StopStep)
  /\ \A r \in Request : WF_vars(status = "up" /\ Answer(r))

-----------------------------------------------------------------------------
(***************************************************************************)
(* Properties.                                                             *)
(***************************************************************************)

\* The control plane never answers "file not found" because the index is
\* closed: Stop closes it when the requests are answered, however late a
\* request was accepted.
AnswersFromOpenIndex == requests # {} => index = "open"

\* Stopping makes the daemon announce nothing that it does not have:
\* HandleFileChange announces also what it could not index, but Stop ends gossip
\* before it closes the index.  What the cluster is told of is in the index and
\* survives the process, or was refused by the index while it was open.  (A signal
\* that comes before gossip has started finds nothing to end.)
SentIsIndexed == found # "nil" => sent \subseteq indexed \cup refused

\* g.list is dereferenced while it is nil only by handlers that run between
\* memberlist.Create and the assignment, or when the daemon is being stopped;
\* a daemon that is online stays up.
PanicsAtTheEdgesOnly == status = "panic" => stop # "wait" \/ start = "assign"

\* No Pull overwrites a file because the index could not be read: a comparison
\* that finds the index closed does not get past the member list, which Stop
\* has set to nil before.
NoBlindPull == found # "nil" => blind = {}

\* A daemon that is told to stop does so, whatever peers keep asking.
StopEnds == stop # "wait" ~> status # "up"

=============================================================================
