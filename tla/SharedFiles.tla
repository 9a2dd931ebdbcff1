---------------------------- MODULE SharedFiles ----------------------------
(***************************************************************************)
(* What replication promises of files that have one writer each: the       *)
(* writer publishes versions; another node holds no version or one that    *)
(* was published, and leaves it only when it has set out to fetch another  *)
(* one, which it does not do while its version is the writer's current     *)
(* one.  Nothing is said of clocks, announcements and Pulls.               *)
(***************************************************************************)
CONSTANTS
  Node, File, Version,
  None,     \* a node does not have the file
  Writer    \* Writer[f]: the node whose users edit f

VARIABLES
  copy,      \* copy[n][f]: the version of f that node n has
  published, \* published[f]: the versions the writer of f has had
  fetching   \* fetching[f]: the nodes that have set out to fetch f

vars == <<copy, published, fetching>>

Current(f) == copy[Writer[f]][f]
Behind(f) == {n \in Node : copy[n][f] # Current(f)}

Init ==
  /\ copy = [n \in Node |-> [f \in File |-> None]]
  /\ published = [f \in File |-> {}]
  /\ fetching = [f \in File |-> {}]

Publish(f) ==
  \E v \in Version \ published[f] :
    /\ copy' = [copy EXCEPT ![Writer[f]][f] = v]
    /\ published' = [published EXCEPT ![f] = @ \cup {v}]

\* The version that is fetched may be an old one.
Fetch(n, f) ==
  /\ n \in fetching[f]
  /\ n # Writer[f]
  /\ \E v \in published[f] : copy' = [copy EXCEPT ![n][f] = v]
  /\ UNCHANGED published

\* A node may set out as soon as it is behind, and give up at any time.
SetsOut == \A f \in File : fetching'[f] \subseteq fetching[f] \cup Behind(f) \cup Behind(f)'

Next ==
  /\ \/ \E f \in File : Publish(f) \/ \E n \in Node : Fetch(n, f)
     \/ UNCHANGED <<copy, published>>
  /\ SetsOut

Spec == Init /\ [][Next]_vars

=============================================================================
