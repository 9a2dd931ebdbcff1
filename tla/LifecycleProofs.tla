-------------------------- MODULE LifecycleProofs --------------------------
(***************************************************************************)
(* The order of the statements of Start and Stop is right for any number   *)
(* of requests, changes and versions of peers.                             *)
(***************************************************************************)
EXTENDS Lifecycle, TLAPS

\* Where Stop is decides what is still there.
StopInv ==
  /\ stop \in {"drain", "close", "exit"} => grpc = "stopped"
  /\ stop \in {"close", "exit"} => requests = {}
  /\ stop # "exit" => index = "open"

\* Where Start is decides who can be running.
StartInv ==
  /\ start \in {"register", "create"} =>
       net = "down" /\ numNodes = "idle" /\ \A w \in Source : learn[w] = "none"
  /\ start \in {"register", "create", "assign"} => list = "nil" /\ numNodes = "idle"
  /\ start \in {"join", "watch", "loop", "online"} /\ stop = "wait" => list = "set"
  /\ loop = "select" => start = "online"

\* What Gossip.Stop leaves behind, if it found the member list.
GossipInv ==
  /\ stop \in {"wait", "leave"} => found # "nil"
  /\ found # "nil" /\ stop \in {"shutdown", "forget", "refuse", "drain", "close", "exit"}
       => start \notin {"register", "create", "assign"}
  /\ found # "nil" /\ stop \in {"forget", "refuse", "drain", "close", "exit"} => net = "down"
  /\ found # "nil" /\ stop \in {"refuse", "drain", "close", "exit"} => list = "nil"

\* Until the index is closed whatever is announced was indexed, or refused by it.
QueueInv ==
  /\ index = "open" => queued \subseteq indexed \cup refused
  /\ index = "open" => \A v \in Version : work[v] = "announce" => v \in indexed \cup refused
  /\ \A w \in Source : learn[w] = "unknown" => index = "closed"
  /\ found # "nil" => sent \subseteq indexed \cup refused
  /\ found # "nil" => blind = {}

LifeInv ==
  TypeOK /\ StopInv /\ StartInv /\ GossipInv /\ QueueInv /\ PanicsAtTheEdgesOnly

\* The statements of Start keep the invariant.
LEMMA StartKeeps == ASSUME LifeInv, status = "up", StartStep PROVE LifeInv'
<1> USE DEF LifeInv, TypeOK, PanicsAtTheEdgesOnly, StopInv, StartInv, GossipInv, QueueInv,
            Source, gossip, server, daemon, Dies
<1>1. CASE Register BY <1>1 DEF Register
<1>2. CASE Create BY <1>2 DEF Create
<1>3. CASE Assign BY <1>3 DEF Assign
<1>4. CASE Join BY <1>4 DEF Join
<1>5. CASE WatcherStart BY <1>5 DEF WatcherStart
<1>6. CASE StartLoop BY <1>6 DEF StartLoop
<1>7. CASE Serve BY <1>7 DEF Serve
<1>8. CASE ApiExits BY <1>8 DEF ApiExits
<1> QED BY <1>1, <1>2, <1>3, <1>4, <1>5, <1>6, <1>7, <1>8 DEF StartStep

\* The signal and the statements of Stop keep the invariant.
LEMMA StopKeeps == ASSUME LifeInv, status = "up", Signal \/ StopStep PROVE LifeInv'
<1> USE DEF LifeInv, TypeOK, PanicsAtTheEdgesOnly, StopInv, StartInv, GossipInv, QueueInv,
            Source, gossip, server, daemon, Dies, StopGoes
<1>1. CASE Signal BY <1>1 DEF Signal
<1>2. CASE Leave BY <1>2 DEF Leave
<1>3. CASE Shutdown BY <1>3 DEF Shutdown
<1>4. CASE Forget BY <1>4 DEF Forget
<1>5. CASE Refuse BY <1>5 DEF Refuse
<1>6. CASE Drain BY <1>6 DEF Drain
<1>7. CASE Close BY <1>7 DEF Close
<1>8. CASE Exit BY <1>8 DEF Exit
<1> QED BY <1>1, <1>2, <1>3, <1>4, <1>5, <1>6, <1>7, <1>8 DEF StopStep

\* Announcements, ticks and the Pulls they trigger keep the invariant.
LEMMA LearnKeeps == ASSUME LifeInv, status = "up", LearnStep PROVE LifeInv'
<1> USE DEF LifeInv, TypeOK, PanicsAtTheEdgesOnly, StopInv, StartInv, GossipInv, QueueInv,
            Source, Version, gossip, server, daemon, Dies, Learn
<1>1. CASE Deliver BY <1>1 DEF Deliver
<1>2. CASE Tick BY <1>2 DEF Tick
<1>3. CASE LoopEnds BY <1>3 DEF LoopEnds
<1>4. ASSUME NEW w \in Source, NotWanted(w) \/ Compare(w) PROVE LifeInv'
  BY <1>4 DEF NotWanted, Compare
<1>5. ASSUME NEW w \in Source, NEW v \in Remote, TriggerSync(w, v) PROVE LifeInv'
  BY <1>5 DEF TriggerSync
<1>6. ASSUME NEW v \in Remote, SyncRequest(v) PROVE LifeInv'
  BY <1>6 DEF SyncRequest
<1> QED BY <1>1, <1>2, <1>3, <1>4, <1>5, <1>6 DEF LearnStep

\* Indexing, announcing and sending keep the invariant.
LEMMA WorkKeeps == ASSUME LifeInv, status = "up", WorkStep PROVE LifeInv'
<1> USE DEF LifeInv, TypeOK, PanicsAtTheEdgesOnly, StopInv, StartInv, GossipInv, QueueInv,
            Source, Version, gossip, server, daemon, Dies, WorkGoes
<1>1. ASSUME NEW v \in Local, Change(v) PROVE LifeInv' BY <1>1 DEF Change
<1>2. ASSUME NEW v \in Version, Put(v) PROVE LifeInv' BY <1>2 DEF Put
<1>7. ASSUME NEW v \in Version, PutFails(v) PROVE LifeInv' BY <1>7 DEF PutFails
<1>3. ASSUME NEW v \in Version, Broadcast(v) PROVE LifeInv' BY <1>3 DEF Broadcast
<1>4. ASSUME NEW v \in Remote, PullFails(v) PROVE LifeInv' BY <1>4 DEF PullFails
<1>5. CASE Count BY <1>5 DEF Count
<1>6. CASE Counted BY <1>6 DEF Counted
<1> QED BY <1>1, <1>2, <1>3, <1>4, <1>5, <1>6, <1>7 DEF WorkStep

\* The invariant holds in every state of the daemon.
LEMMA LifeInvariant == Spec => []LifeInv
<1>1. Init => LifeInv
  BY DEF Init, LifeInv, TypeOK, PanicsAtTheEdgesOnly, StopInv, StartInv, GossipInv, QueueInv,
         Source, Version
<1>2. LifeInv /\ [Next]_vars => LifeInv'
  <2> SUFFICES ASSUME LifeInv, [Next]_vars PROVE LifeInv'
    OBVIOUS
  <2>1. ASSUME NEW r \in Request, Accept(r) \/ Answer(r) PROVE LifeInv'
    BY <2>1 DEF Accept, Answer, LifeInv, TypeOK, PanicsAtTheEdgesOnly, StopInv, StartInv,
                GossipInv, QueueInv, Source, gossip, daemon
  <2>2. CASE UNCHANGED vars
    BY <2>2 DEF vars, gossip, server, daemon, LifeInv, TypeOK, PanicsAtTheEdgesOnly, StopInv,
                StartInv, GossipInv, QueueInv, Source
  <2> QED
    BY <2>1, <2>2, StartKeeps, StopKeeps, LearnKeeps, WorkKeeps DEF Next
<1> QED BY <1>1, <1>2, PTL DEF Spec

\* Every variable keeps its type; in particular nothing is sent to the cluster
\* that was not put into the broadcast queue.
THEOREM LifecycleTypes == Spec => []TypeOK
<1>1. LifeInv => TypeOK BY DEF LifeInv
<1> QED BY <1>1, LifeInvariant, PTL

\* No request of the control plane is answered from a closed index.
THEOREM IndexOpenForRequests == Spec => []AnswersFromOpenIndex
<1>1. LifeInv => AnswersFromOpenIndex
  BY DEF LifeInv, TypeOK, StopInv, AnswersFromOpenIndex
<1> QED BY <1>1, LifeInvariant, PTL

\* No change is announced to the cluster that could not be indexed because Stop
\* had closed the index, although HandleFileChange ignores the error of
\* PutFileMeta: what is announced was indexed, or refused by an open index.
THEOREM AnnouncedIsKept == Spec => []SentIsIndexed
<1>1. LifeInv => SentIsIndexed BY DEF LifeInv, QueueInv, SentIsIndexed
<1> QED BY <1>1, LifeInvariant, PTL

\* A comparison with a closed index starts no Pull.
THEOREM PullsHaveCompared == Spec => []NoBlindPull
<1>1. LifeInv => NoBlindPull BY DEF LifeInv, QueueInv, NoBlindPull
<1> QED BY <1>1, LifeInvariant, PTL

\* A daemon that is online and not told to stop never finds g.list nil.
THEOREM OnlineStaysUp == Spec => []PanicsAtTheEdgesOnly
<1>1. LifeInv => PanicsAtTheEdgesOnly BY DEF LifeInv
<1> QED BY <1>1, LifeInvariant, PTL

=============================================================================
