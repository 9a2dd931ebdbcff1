-------------------------- MODULE ChunkFetchProofs --------------------------
(***************************************************************************)
(* Proofs about the chunk transfer of a Pull, for any list of chunks, any  *)
(* peers and whatever fails: nothing is left running when Pull goes on,    *)
(* what is secured is stored, the whole amounts to a Transfer, a chunk is  *)
(* given up on errors only, attempts run out, and which clocks             *)
(* authentication lets pass.                                               *)
(***************************************************************************)
EXTENDS ChunkFetch, FiniteSetTheorems, TLAPS

\* The order that the sort by rarity leaves.
Sorted ==
  /\ IsInjective(order)
  /\ \A i, j \in Entry : i < j => Len(PeersOf(order[i])) <= Len(PeersOf(order[j]))

\* Goroutines run for entries at the front of the order, which somebody has, and
\* each request under way is to a peer of the list.
Shape ==
  /\ main = "ask" => \A e \in Entry : fetch[e] = FetchIdle
  /\ main # "ask" => Sorted
  /\ \A e \in Entry : fetch[e].pc # "idle" =>
       PeersOf(e) # <<>> /\ \E i \in 1..started : order[i] = e
  /\ \A e \in Entry : fetch[e].pc \in {"send", "serve", "sleep"} =>
       fetch[e].at <= Len(PeersOf(e))
  /\ main \in {"secured", "failed"} =>
       \A e \in Entry : fetch[e].pc \in Finished \cup {"idle"}

\* A goroutine has left a peer of its list only after a failure of this peer.
Skipped ==
  /\ hot \subseteq erred
  /\ \A e \in Entry : \A i \in 1..Len(PeersOf(e)) :
       i < fetch[e].at => PeersOf(e)[i] \in erred
  /\ \A e \in Entry : fetch[e].pc = "failed" => fetch[e].at > Len(PeersOf(e))

Inv == TypeOK /\ Shape /\ Skipped

\* What happens at a peer and in other Pulls.
Elsewhere(p) == Release(p) \/ MarkedByOther(p) \/ CoolDown(p)

\* The list of missing chunks is finite, and so is each part of it.
LEMMA Lists ==
  /\ Len(Missing) \in Nat
  /\ \A e \in Entry : Missing[e] \in Chunk
  /\ \A T \in SUBSET Entry : IsFiniteSet(T) /\ Cardinality(T) \in Nat
<1>1. Len(Missing) \in Nat /\ \A e \in Entry : Missing[e] \in Chunk
  BY ChunkFetchAssumption DEF Entry
<1>2. IsFiniteSet(Entry)
  BY <1>1, FS_Interval DEF Entry
<1> QED
  BY <1>1, <1>2, FS_Subset, FS_CardinalityType

\* The list of peers of an entry, and the state of its goroutine.
LEMMA OfEntry ==
  ASSUME TypeOK, NEW e \in Entry
  PROVE  /\ PeersOf(e) \in Seq(Peer) /\ Len(PeersOf(e)) \in Nat
         /\ fetch[e] \in FetchState
BY Lists DEF TypeOK, PeersOf

\* A request under way is to a peer.
LEMMA AskedIsPeer ==
  ASSUME TypeOK, Shape, NEW e \in Entry, fetch[e].at <= Len(PeersOf(e))
  PROVE  PeerOf(e) \in Peer
BY OfEntry DEF PeerOf, FetchState

-----------------------------------------------------------------------------
\* What a step of the goroutine of e may do.
FetchEffect(e, s) ==
  /\ SetFetch(e, s)
  /\ fetch[e].pc \in {"next", "send", "serve", "sleep"}
  /\ s.pc # "idle"
  /\ s.pc \in {"send", "serve", "sleep"} => s.at <= Len(PeersOf(e))
  /\ \/ busy' = busy
     \/ /\ busy[PeerOf(e)] < MaxStreams
        /\ busy' = [busy EXCEPT ![PeerOf(e)] = @ + 1]
  /\ erred \subseteq erred' /\ erred' \subseteq Peer
  /\ hot' \subseteq erred'
  /\ \/ s.at = fetch[e].at
     \/ s.at = fetch[e].at + 1 /\ PeerOf(e) \in erred'
  /\ s.pc = "failed" => s.at > Len(PeersOf(e))
  /\ cas \subseteq cas' /\ cas' \subseteq Chunk
  /\ s.pc = "done" => PutErrors \/ Missing[e] \in cas'

\* A failed attempt.
LEMMA AttemptEffect ==
  ASSUME Inv, NEW e \in Entry, AttemptFails(e), fetch[e].pc \in {"send", "serve"}, busy' = busy
  PROVE  \E s \in FetchState : FetchEffect(e, s)
<1>t. TypeOK /\ Shape /\ Skipped
  BY DEF Inv
<1>f. /\ fetch[e] \in FetchState /\ fetch[e].at \in Nat \ {0} /\ fetch[e].attempt \in 1..3
      /\ Len(PeersOf(e)) \in Nat /\ fetch[e].at <= Len(PeersOf(e))
  BY <1>t, OfEntry DEF FetchState, MaxAttempts, Shape
<1>p. PeerOf(e) \in Peer
  BY <1>t, <1>f, AskedIsPeer
<1>h. hot' \subseteq erred' /\ erred \subseteq erred' /\ erred' \subseteq Peer /\ PeerOf(e) \in erred'
  BY <1>t, <1>p DEF AttemptFails, Skipped, TypeOK
<1>c. cas' = cas /\ cas \subseteq Chunk
  BY <1>t DEF AttemptFails, TypeOK
<1>1. CASE fetch[e].attempt = MaxAttempts
  <2>0. PICK k \in Nat \ {0} : k = fetch[e].at + 1
    BY <1>f
  <2> DEFINE s == [fetch[e] EXCEPT !.pc = "next", !.at = k]
  <2>1. SetFetch(e, s)
    BY <1>1, <2>0 DEF AttemptFails
  <2>2. s \in FetchState /\ s.pc = "next" /\ s.at = k
    BY <1>f, Zenon DEF FetchState
  <2> HIDE DEF s
  <2>5. /\ fetch[e].pc \in {"next", "send", "serve", "sleep"} /\ s.pc \notin {"idle", "failed", "done"}
        /\ s.pc \in {"send", "serve", "sleep"} => s.at <= Len(PeersOf(e))
    BY <1>f, <2>2
  <2>6. cas \subseteq cas' /\ cas' \subseteq Chunk
    BY <1>c
  <2>3. FetchEffect(e, s)
    BY <1>h, <2>0, <2>1, <2>2, <2>5, <2>6, Zenon DEF FetchEffect
  <2> QED
    BY <2>2, <2>3
<1>2. CASE fetch[e].attempt # MaxAttempts
  <2>0. PICK k \in 1..MaxAttempts : k = fetch[e].attempt + 1
    BY <1>f, <1>2 DEF MaxAttempts
  <2> DEFINE s == [fetch[e] EXCEPT !.pc = "sleep", !.attempt = k]
  <2>1. SetFetch(e, s)
    BY <1>2, <2>0 DEF AttemptFails
  <2>2. s \in FetchState /\ s.pc = "sleep" /\ s.at = fetch[e].at
    BY <1>f, Zenon DEF FetchState
  <2> HIDE DEF s
  <2>5. /\ fetch[e].pc \in {"next", "send", "serve", "sleep"} /\ s.pc \notin {"idle", "failed", "done"}
        /\ s.pc \in {"send", "serve", "sleep"} => s.at <= Len(PeersOf(e))
    BY <1>f, <2>2
  <2>6. cas \subseteq cas' /\ cas' \subseteq Chunk
    BY <1>c
  <2>3. FetchEffect(e, s)
    BY <1>h, <2>0, <2>1, <2>2, <2>5, <2>6, Zenon DEF FetchEffect
  <2> QED
    BY <2>2, <2>3
<1> QED
  BY <1>1, <1>2

\* Each step of a goroutine has such an effect.
LEMMA StepEffect ==
  ASSUME Inv, NEW e \in Entry, FetchStep(e)
  PROVE  \E s \in FetchState : FetchEffect(e, s)
<1>t. TypeOK /\ Shape /\ Skipped
  BY DEF Inv
<1>f. /\ fetch[e] \in FetchState /\ fetch[e].at \in Nat \ {0}
      /\ Len(PeersOf(e)) \in Nat
  BY <1>t, OfEntry DEF FetchState
<1>c. hot \subseteq erred /\ erred \subseteq Peer /\ cas \subseteq Chunk /\ Missing[e] \in Chunk
  BY <1>t, Lists DEF TypeOK, Skipped
<1>1. CASE NextPeer(e)
  <2>0. UNCHANGED <<hot, busy, cas, erred>> /\ fetch[e].pc = "next"
    BY <1>1 DEF NextPeer
  <2>1. CASE fetch[e].at > Len(PeersOf(e))
    <3> DEFINE s == [fetch[e] EXCEPT !.pc = "failed"]
    <3>1. SetFetch(e, s)
      BY <1>1, <2>1 DEF NextPeer
    <3>2. s \in FetchState /\ s.pc = "failed" /\ s.at = fetch[e].at
      BY <1>f DEF FetchState
    <3> HIDE DEF s
    <3>3. FetchEffect(e, s)
      BY <1>c, <2>0, <2>1, <3>1, <3>2 DEF FetchEffect
    <3> QED
      BY <3>2, <3>3
  <2>2. CASE ~(fetch[e].at > Len(PeersOf(e))) /\ PeerOf(e) \in hot
    <3> DEFINE s == [fetch[e] EXCEPT !.at = @ + 1]
    <3>1. SetFetch(e, s)
      BY <1>1, <2>2 DEF NextPeer
    <3>2. s \in FetchState /\ s.pc = "next" /\ s.at = fetch[e].at + 1
      BY <1>f, <2>0 DEF FetchState
    <3> HIDE DEF s
    <3>4. PeerOf(e) \in erred' /\ erred' \subseteq Peer /\ hot' \subseteq erred' /\ erred \subseteq erred'
      BY <1>c, <2>0, <2>2
    <3>5. cas \subseteq cas' /\ cas' \subseteq Chunk /\ busy' = busy
      BY <1>c, <2>0
    <3>6. s.pc \notin {"idle", "failed", "done", "send", "serve", "sleep"} /\ s.pc # "serve"
      BY <3>2
    <3>7. fetch[e].pc \in {"next", "send", "serve", "sleep"} /\ fetch[e].pc # "serve"
      BY <2>0
    <3>3. FetchEffect(e, s)
      BY <3>1, <3>2, <3>4, <3>5, <3>6, <3>7, Zenon DEF FetchEffect
    <3> QED
      BY <3>2, <3>3
  <2>3. CASE ~(fetch[e].at > Len(PeersOf(e))) /\ PeerOf(e) \notin hot
    <3> DEFINE s == [fetch[e] EXCEPT !.pc = "send", !.attempt = 1]
    <3>1. SetFetch(e, s)
      BY <1>1, <2>3 DEF NextPeer
    <3>0. 1 \in 1..MaxAttempts
      BY DEF MaxAttempts
    <3>2. s \in FetchState /\ s.pc = "send" /\ s.at = fetch[e].at
      BY <1>f, <3>0, Zenon DEF FetchState
    <3>4. s.at <= Len(PeersOf(e))
      BY <1>f, <2>3, <3>2
    <3> HIDE DEF s
    <3>3. FetchEffect(e, s)
      BY <1>c, <2>0, <3>1, <3>2, <3>4 DEF FetchEffect
    <3> QED
      BY <3>2, <3>3
  <2> QED
    BY <2>1, <2>2, <2>3
<1>2. CASE Admit(e)
  <2> DEFINE s == [fetch[e] EXCEPT !.pc = "serve"]
  <2>1. /\ SetFetch(e, s) /\ UNCHANGED <<hot, cas, erred>> /\ fetch[e].pc = "send"
        /\ busy[PeerOf(e)] < MaxStreams
        /\ busy' = [busy EXCEPT ![PeerOf(e)] = @ + 1]
    BY <1>2 DEF Admit
  <2>2. s \in FetchState /\ s.pc = "serve" /\ s.at = fetch[e].at
    BY <1>f DEF FetchState
  <2>4. fetch[e].at <= Len(PeersOf(e))
    BY <1>t, <2>1 DEF Shape
  <2> HIDE DEF s
  <2>3. FetchEffect(e, s)
    BY <1>c, <2>1, <2>2, <2>4 DEF FetchEffect
  <2> QED
    BY <2>2, <2>3
<1>3. CASE Served(e)
  <2> DEFINE s == [fetch[e] EXCEPT !.pc = "done"]
  <2>1. /\ SetFetch(e, s) /\ UNCHANGED <<hot, busy, erred>> /\ fetch[e].pc = "serve"
        /\ cas' = cas \cup {Missing[e]} \/ (PutErrors /\ cas' = cas)
    BY <1>3, Zenon DEF Served
  <2>2. s \in FetchState /\ s.pc = "done" /\ s.at = fetch[e].at
    BY <1>f DEF FetchState
  <2> HIDE DEF s
  <2>4. cas \subseteq cas' /\ cas' \subseteq Chunk /\ (PutErrors \/ Missing[e] \in cas')
    BY <1>c, <2>1, Zenon
  <2>3. FetchEffect(e, s)
    BY <1>c, <2>1, <2>2, <2>4 DEF FetchEffect
  <2> QED
    BY <2>2, <2>3
<1>4. CASE Refuse(e) \/ Forbid(e) \/ TransferFails(e)
  <2>1. AttemptFails(e) /\ fetch[e].pc \in {"send", "serve"}
    BY <1>4 DEF Refuse, Forbid, TransferFails
  <2>2. busy' = busy
    BY <1>4 DEF Refuse, Forbid, TransferFails
  <2> QED
    BY <2>1, <2>2, AttemptEffect
<1>5. CASE Awake(e)
  <2> DEFINE s == [fetch[e] EXCEPT !.pc = "send"]
  <2>1. SetFetch(e, s) /\ UNCHANGED <<hot, busy, cas, erred>> /\ fetch[e].pc = "sleep"
    BY <1>5 DEF Awake
  <2>2. s \in FetchState /\ s.pc = "send" /\ s.at = fetch[e].at
    BY <1>f DEF FetchState
  <2>4. fetch[e].at <= Len(PeersOf(e))
    BY <1>t, <2>1 DEF Shape
  <2> HIDE DEF s
  <2>3. FetchEffect(e, s)
    BY <1>c, <2>1, <2>2, <2>4 DEF FetchEffect
  <2> QED
    BY <2>2, <2>3
<1> QED
  BY <1>1, <1>2, <1>3, <1>4, <1>5 DEF FetchStep

-----------------------------------------------------------------------------
\* Every request is authenticated by the peer it is sent to.
LEMMA AuthStep ==
  ASSUME Inv, [Next]_vars
  PROVE  UNCHANGED authVars \/ \E p \in Peer : Authorized(p) \/ Unauthorized(p)
<1>1. ASSUME NEW p \in Peer, Available(p) \/ AvailableFails(p) \/ Elsewhere(p)
      PROVE  UNCHANGED authVars \/ Authorized(p) \/ Unauthorized(p)
  BY <1>1 DEF Available, AvailableFails, Elsewhere, Release, MarkedByOther, CoolDown
<1>2. CASE SortByRarity \/ StartNext \/ AllStarted \/ AllFinished
  BY <1>2 DEF SortByRarity, StartNext, AllStarted, AllFinished
<1>3. ASSUME NEW e \in Entry, FetchStep(e)
      PROVE  UNCHANGED authVars \/ \E p \in Peer : Authorized(p) \/ Unauthorized(p)
  <2>1. CASE NextPeer(e) \/ Served(e) \/ TransferFails(e) \/ Awake(e)
    BY <2>1 DEF NextPeer, Served, TransferFails, Awake
  <2>2. CASE Admit(e) \/ Refuse(e) \/ Forbid(e)
    <3>1. fetch[e].pc = "send" /\ (Authorized(PeerOf(e)) \/ Unauthorized(PeerOf(e)))
      BY <2>2 DEF Admit, Refuse, Forbid
    <3>2. PeerOf(e) \in Peer
      BY <3>1, AskedIsPeer DEF Inv, Shape
    <3> QED
      BY <3>1, <3>2
  <2> QED
    BY <1>3, <2>1, <2>2 DEF FetchStep
<1>4. CASE UNCHANGED vars
  BY <1>4 DEF vars
<1> QED
  BY <1>1, <1>2, <1>3, <1>4 DEF Next, Rarity, Elsewhere

\* A goroutine gets a permit only from a peer that has one left.
LEMMA PermitStep ==
  ASSUME Inv, NEW e \in Entry, NEW s \in FetchState, FetchEffect(e, s)
  PROVE  busy' \in [Peer -> 0..MaxStreams]
<1>1. busy \in [Peer -> 0..MaxStreams] /\ MaxStreams \in Nat
  BY ChunkFetchAssumption DEF Inv, TypeOK
<1> QED
  BY <1>1 DEF FetchEffect

-----------------------------------------------------------------------------
\* Each step keeps the types.
LEMMA TypeStep == ASSUME Inv, [Next]_vars PROVE TypeOK'
<1>t. TypeOK
  BY DEF Inv
<1>a. denied' \subseteq Peer /\ heard' \subseteq Peer
  BY <1>t, AuthStep DEF TypeOK, authVars, Authorized, Unauthorized
<1>1. ASSUME NEW p \in Peer, Available(p)
      PROVE  TypeOK'
  <2>1. \A c \in Chunk : Occurrences(c) \in Nat
    BY Lists DEF Occurrences
  <2>2. ASSUME NEW c \in Chunk
        PROVE  peersOf[c] \o [i \in 1..Occurrences(c) |-> p] \in Seq(Peer) /\ peersOf[c] \in Seq(Peer)
    <3>1. [i \in 1..Occurrences(c) |-> p] \in Seq(Peer)
      BY <2>1
    <3> QED
      BY <1>t, <3>1 DEF TypeOK
  <2>3. peersOf' \in [Chunk -> Seq(Peer)]
    BY <1>1, <2>2 DEF Available
  <2>4. replied' \subseteq Peer
    BY <1>1, <1>t DEF Available, TypeOK
  <2> QED
    BY <1>1, <1>a, <1>t, <2>3, <2>4 DEF Available, TypeOK
<1>2. ASSUME NEW p \in Peer, AvailableFails(p) \/ MarkedByOther(p) \/ CoolDown(p)
      PROVE  TypeOK'
  <2>1. replied' \subseteq Peer /\ hot' \subseteq Peer /\ erred' \subseteq Peer
    BY <1>2, <1>t DEF AvailableFails, MarkedByOther, CoolDown, TypeOK
  <2> QED
    BY <1>2, <1>a, <1>t, <2>1 DEF AvailableFails, MarkedByOther, CoolDown, TypeOK
<1>8. ASSUME NEW p \in Peer, Release(p)
      PROVE  TypeOK'
  <2>1. busy' \in [Peer -> 0..MaxStreams]
    BY <1>8, <1>t, ChunkFetchAssumption DEF Release, TypeOK
  <2> QED
    BY <1>8, <1>a, <1>t, <2>1 DEF Release, TypeOK
<1>3. CASE SortByRarity
  BY <1>3, <1>a, <1>t DEF SortByRarity, TypeOK
<1>4. CASE StartNext
  <2>1. order[started + 1] \in Entry /\ started' \in 0..Len(Missing)
    BY <1>4, <1>t, Lists DEF StartNext, TypeOK, Entry
  <2>2. [fetch[order[started + 1]] EXCEPT !.pc = "next"] \in FetchState
    BY <1>t, <2>1, OfEntry DEF FetchState
  <2>3. fetch' \in [Entry -> FetchState]
    BY <1>4, <1>t, <2>1, <2>2 DEF StartNext, TypeOK
  <2>4. main' \in {"start", "failed"}
    BY <1>4 DEF StartNext
  <2> QED
    BY <1>4, <1>a, <1>t, <2>1, <2>3, <2>4 DEF StartNext, TypeOK
<1>5. CASE AllStarted \/ AllFinished
  BY <1>5, <1>a, <1>t DEF AllStarted, AllFinished, TypeOK
<1>6. ASSUME NEW e \in Entry, FetchStep(e)
      PROVE  TypeOK'
  <2>1. PICK s \in FetchState : FetchEffect(e, s)
    BY <1>6, StepEffect
  <2>2. busy' \in [Peer -> 0..MaxStreams]
    BY <2>1, PermitStep
  <2>3. fetch' \in [Entry -> FetchState] /\ UNCHANGED <<main, replied, peersOf, order, started>>
    BY <1>t, <2>1 DEF FetchEffect, SetFetch, TypeOK
  <2>4. hot' \subseteq Peer /\ erred' \subseteq Peer /\ cas' \subseteq Chunk
    BY <2>1, Zenon DEF FetchEffect
  <2> QED
    BY <1>a, <1>t, <2>2, <2>3, <2>4, Zenon DEF TypeOK
<1>7. CASE UNCHANGED vars
  BY <1>7, <1>t DEF vars, authVars, TypeOK
<1> QED
  BY <1>1, <1>2, <1>3, <1>4, <1>5, <1>6, <1>7, <1>8 DEF Next, Rarity

\* While the peers are asked no goroutine runs.  Pull returns for a chunk that
\* nobody has before the first is started, as the sort puts it there.
LEMMA ShapeStep == ASSUME Inv, [Next]_vars PROVE Shape'
<1>t. TypeOK /\ Shape
  BY DEF Inv
<1>o. order \in [Entry -> Entry] /\ fetch \in [Entry -> FetchState]
  BY <1>t DEF TypeOK
<1>i. FetchIdle.pc = "idle"
  BY DEF FetchIdle
<1>1. ASSUME NEW p \in Peer, Available(p) \/ AvailableFails(p)
      PROVE  Shape'
  <2>1. main = "ask" /\ main' = "ask" /\ fetch' = fetch
    BY <1>1 DEF Available, AvailableFails
  <2>2. \A e \in Entry : fetch'[e] = FetchIdle
    BY <1>t, <2>1 DEF Shape
  <2> QED
    BY <1>i, <2>1, <2>2 DEF Shape
<1>2. CASE SortByRarity
  <2>1. main = "ask" /\ main' = "start" /\ fetch' = fetch /\ peersOf' = peersOf
    BY <1>2 DEF SortByRarity
  <2>2. \A e \in Entry : fetch'[e].pc = "idle"
    BY <1>i, <1>t, <2>1 DEF Shape
  <2>3. Sorted'
    BY <1>2 DEF SortByRarity, Sorted, PeersOf
  <2> QED
    BY <2>1, <2>2, <2>3 DEF Shape
<1>3. CASE StartNext
  <2> DEFINE e == order[started + 1]
  <2>0. /\ main = "start" /\ order' = order /\ peersOf' = peersOf /\ started < Len(Missing)
        /\ started \in Nat /\ Len(Missing) \in Nat /\ started + 1 \in Entry /\ e \in Entry
    BY <1>3, <1>o, <1>t, Lists DEF StartNext, TypeOK, Entry
  <2>s. Sorted /\ Sorted'
    BY <1>t, <2>0 DEF Shape, Sorted, PeersOf
  <2>l. \A x \in Entry : Len(PeersOf(x)) \in Nat /\ PeersOf(x) \in Seq(Peer) /\ PeersOf(x)' = PeersOf(x)
    BY <1>t, <2>0, OfEntry DEF PeersOf
  <2>1. CASE PeersOf(e) = <<>>
    <3>1. main' = "failed" /\ fetch' = fetch /\ started' = started
      BY <1>3, <2>1 DEF StartNext
    <3>2. ASSUME NEW x \in Entry, fetch[x].pc # "idle"
          PROVE  FALSE
      <4>1. PICK i \in 1..started : order[i] = x
        BY <1>t, <3>2 DEF Shape
      <4>2. i \in Entry /\ i < started + 1
        BY <2>0, <4>1 DEF Entry
      <4>3. Len(PeersOf(x)) <= Len(PeersOf(e))
        BY <2>0, <2>s, <4>1, <4>2 DEF Sorted
      <4>4. Len(PeersOf(x)) = 0
        BY <2>1, <2>l, <4>3
      <4>5. PeersOf(x) = <<>>
        BY <2>l, <4>4
      <4> QED
        BY <1>t, <3>2, <4>5 DEF Shape
    <3>3. \A x \in Entry : fetch'[x].pc = "idle"
      BY <3>1, <3>2
    <3> QED
      BY <2>s, <3>1, <3>3 DEF Shape
  <2>2. CASE PeersOf(e) # <<>>
    <3>1. main' = "start" /\ fetch' = [fetch EXCEPT ![e].pc = "next"] /\ started' = started + 1
      BY <1>3, <2>0, <2>2 DEF StartNext
    <3>2. fetch'[e].pc = "next" /\ \A x \in Entry \ {e} : fetch'[x] = fetch[x]
      BY <1>o, <2>0, <3>1 DEF FetchState
    <3>3. ASSUME NEW x \in Entry, fetch'[x].pc # "idle"
          PROVE  PeersOf(x)' # <<>> /\ \E i \in 1..(started') : order'[i] = x
      <4>1. CASE x = e
        <5>1. started + 1 \in 1..(started') /\ order'[started + 1] = x
          BY <2>0, <3>1, <4>1
        <5> QED
          BY <2>2, <2>l, <4>1, <5>1
      <4>2. CASE x # e
        <5>1. fetch[x].pc # "idle"
          BY <3>2, <3>3, <4>2
        <5>2. PICK i \in 1..started : order[i] = x
          BY <1>t, <5>1 DEF Shape
        <5>3. i \in 1..(started') /\ order'[i] = x
          BY <2>0, <3>1, <5>2
        <5>4. PeersOf(x) # <<>>
          BY <1>t, <5>1 DEF Shape
        <5> QED
          BY <2>l, <5>3, <5>4
      <4> QED
        BY <4>1, <4>2
    <3>4. ASSUME NEW x \in Entry, fetch'[x].pc \in {"send", "serve", "sleep"}
          PROVE  fetch'[x].at <= Len(PeersOf(x)')
      <4>1. x # e
        BY <3>2, <3>4
      <4> QED
        BY <1>t, <2>l, <3>2, <3>4, <4>1 DEF Shape
    <3> QED
      BY <2>s, <3>1, <3>3, <3>4 DEF Shape
  <2> QED
    BY <2>1, <2>2
<1>4. CASE AllStarted
  BY <1>4, <1>t DEF AllStarted, Shape, Sorted, PeersOf
<1>5. CASE AllFinished
  <2>1. /\ main = "wait" /\ main' \in {"secured", "failed"} /\ UNCHANGED <<peersOf, order, started, fetch>>
        /\ \A e \in Entry : fetch[e].pc \in Finished
    BY <1>5 DEF AllFinished
  <2>2. Sorted'
    BY <1>t, <2>1 DEF Shape, Sorted, PeersOf
  <2> QED
    BY <1>t, <2>1, <2>2 DEF Shape, PeersOf
<1>6. ASSUME NEW e \in Entry, FetchStep(e)
      PROVE  Shape'
  <2>1. PICK s \in FetchState : FetchEffect(e, s)
    BY <1>6, StepEffect
  <2>2. fetch'[e] = s /\ \A x \in Entry \ {e} : fetch'[x] = fetch[x]
    BY <1>o, <2>1 DEF FetchEffect, SetFetch
  <2>3. UNCHANGED <<main, peersOf, order, started>>
    BY <2>1 DEF FetchEffect, SetFetch
  <2>4. \A x \in Entry : PeersOf(x)' = PeersOf(x)
    BY <2>3 DEF PeersOf
  <2>5. fetch[e].pc \in {"next", "send", "serve", "sleep"} /\ s.pc # "idle"
    BY <2>1, Zenon DEF FetchEffect
  <2>6. main \notin {"ask", "secured", "failed"}
    BY <1>i, <1>t, <2>5 DEF Shape, Finished
  <2>7. Sorted'
    BY <1>t, <2>3, <2>6 DEF Shape, Sorted, PeersOf
  <2>8. ASSUME NEW x \in Entry, fetch'[x].pc # "idle"
        PROVE  PeersOf(x)' # <<>> /\ \E i \in 1..(started') : order'[i] = x
    <3>1. fetch[x].pc # "idle"
      BY <2>2, <2>5, <2>8
    <3> QED
      BY <1>t, <2>3, <2>4, <3>1 DEF Shape
  <2>9. ASSUME NEW x \in Entry, fetch'[x].pc \in {"send", "serve", "sleep"}
        PROVE  fetch'[x].at <= Len(PeersOf(x)')
    <3>1. CASE x = e
      <4>1. s.at <= Len(PeersOf(e))
        BY <2>1, <2>2, <2>9, <3>1 DEF FetchEffect
      <4> QED
        BY <2>2, <2>4, <3>1, <4>1
    <3>2. CASE x # e
      BY <1>t, <2>2, <2>4, <2>9, <3>2 DEF Shape
    <3> QED
      BY <3>1, <3>2
  <2> QED
    BY <2>3, <2>6, <2>7, <2>8, <2>9 DEF Shape
<1>7. CASE (\E p \in Peer : Elsewhere(p)) \/ UNCHANGED vars
  <2>1. UNCHANGED <<main, peersOf, order, started, fetch>>
    BY <1>7 DEF Elsewhere, Release, MarkedByOther, CoolDown, vars
  <2> QED
    BY <1>t, <2>1 DEF Shape, Sorted, PeersOf
<1> QED
  BY <1>1, <1>2, <1>3, <1>4, <1>5, <1>6, <1>7 DEF Next, Rarity, Elsewhere

\* No step but those of the goroutines leaves a peer, and marks come of failures.
LEMMA SkippedStep == ASSUME Inv, [Next]_vars PROVE Skipped'
<1>t. TypeOK /\ Shape /\ Skipped
  BY DEF Inv
<1>o. order \in [Entry -> Entry] /\ fetch \in [Entry -> FetchState]
  BY <1>t DEF TypeOK
<1>i. FetchIdle.pc = "idle" /\ FetchIdle.at = 1
  BY DEF FetchIdle
<1>1. ASSUME NEW p \in Peer, Available(p) \/ AvailableFails(p)
      PROVE  Skipped'
  <2>1. main = "ask" /\ UNCHANGED <<fetch, busy, hot, erred>>
    BY <1>1 DEF Available, AvailableFails
  <2>2. \A e \in Entry : fetch[e].pc = "idle" /\ fetch[e].at = 1
    BY <1>i, <1>t, <2>1 DEF Shape
  <2> QED
    BY <1>t, <2>1, <2>2 DEF Skipped
<1>2. CASE \/ SortByRarity \/ AllStarted \/ AllFinished \/ UNCHANGED vars
           \/ \E p \in Peer : Elsewhere(p)
  <2>1. /\ UNCHANGED <<fetch, peersOf>> /\ erred \subseteq erred'
        /\ hot' \subseteq hot \cup (erred' \ erred) \/ hot' \subseteq erred'
    BY <1>2, <1>t DEF SortByRarity, AllStarted, AllFinished, vars, Elsewhere, Release,
       MarkedByOther, CoolDown, Skipped
  <2> QED
    BY <1>t, <2>1 DEF Skipped, PeersOf
<1>3. CASE StartNext
  <2> DEFINE e == order[started + 1]
  <2>0. /\ UNCHANGED <<busy, hot, erred, peersOf>> /\ main = "start"
        /\ started \in Nat /\ started + 1 \in Entry /\ e \in Entry
    BY <1>3, <1>o, <1>t, Lists DEF StartNext, TypeOK, Entry
  <2>1. fetch[e].pc = "idle"
    <3>1. SUFFICES ASSUME fetch[e].pc # "idle" PROVE FALSE
      OBVIOUS
    <3>2. PICK i \in 1..started : order[i] = e
      BY <1>t, <2>0, <3>1 DEF Shape
    <3>3. i \in Entry /\ i # started + 1
      BY <2>0, <3>2 DEF Entry
    <3>4. IsInjective(order) /\ DOMAIN order = Entry
      BY <1>o, <1>t, <2>0 DEF Shape, Sorted
    <3> QED
      BY <2>0, <3>2, <3>3, <3>4 DEF IsInjective
  <2>2. fetch' = fetch \/ fetch' = [fetch EXCEPT ![e].pc = "next"]
    BY <1>3 DEF StartNext
  <2>3. \A x \in Entry : /\ fetch'[x].at = fetch[x].at
                         /\ fetch'[x] = fetch[x] \/ (x = e /\ fetch'[x].pc = "next")
    BY <1>o, <2>0, <2>2 DEF FetchState
  <2> QED
    BY <1>t, <2>0, <2>3 DEF Skipped, PeersOf
<1>4. ASSUME NEW e \in Entry, FetchStep(e)
      PROVE  Skipped'
  <2>1. PICK s \in FetchState : FetchEffect(e, s)
    BY <1>4, StepEffect
  <2>2. fetch'[e] = s /\ \A x \in Entry \ {e} : fetch'[x] = fetch[x]
    BY <1>o, <2>1 DEF FetchEffect, SetFetch
  <2>3. peersOf' = peersOf /\ \A x \in Entry : PeersOf(x)' = PeersOf(x) /\ Len(PeersOf(x)) \in Nat
    BY <1>t, <2>1, OfEntry DEF FetchEffect, SetFetch, PeersOf
  <2>4. hot' \subseteq erred' /\ erred \subseteq erred' /\ (s.pc = "failed" => s.at > Len(PeersOf(e)))
    BY <2>1, Zenon DEF FetchEffect
  <2>5. fetch[e].at \in Nat
    BY <1>o DEF FetchState
  <2>6. ASSUME NEW x \in Entry, NEW i \in 1..Len(PeersOf(x)), i < fetch'[x].at
        PROVE  PeersOf(x)[i] \in erred'
    <3>1. CASE i < fetch[x].at
      BY <1>t, <2>4, <3>1 DEF Skipped
    <3>2. CASE ~(i < fetch[x].at)
      <4>1. x = e /\ i < s.at
        BY <2>2, <2>6, <3>2
      <4>2. s.at = fetch[e].at + 1 /\ PeerOf(e) \in erred'
        BY <2>1, <3>2, <4>1 DEF FetchEffect
      <4>3. i = fetch[e].at
        BY <2>3, <2>5, <3>2, <4>1, <4>2
      <4> QED
        BY <4>1, <4>2, <4>3 DEF PeerOf
    <3> QED
      BY <3>1, <3>2
  <2>7. \A x \in Entry : fetch'[x].pc = "failed" => fetch'[x].at > Len(PeersOf(x))
    BY <1>t, <2>2, <2>4 DEF Skipped
  <2> QED
    BY <2>3, <2>4, <2>6, <2>7 DEF Skipped
<1> QED
  BY <1>1, <1>2, <1>3, <1>4 DEF Next, Rarity, Elsewhere

\* The invariant holds initially.
LEMMA InvInit == Init => Inv
<1> SUFFICES ASSUME Init PROVE Inv
  OBVIOUS
<1>i. FetchIdle \in FetchState /\ FetchIdle.pc = "idle" /\ FetchIdle.at = 1
  BY DEF FetchIdle, FetchState, MaxAttempts
<1>1. TypeOK
  <2>1. hot \subseteq Peer
    BY Zenon DEF Init
  <2>2. 0 \in 0..MaxStreams /\ 0 \in 0..Len(Missing)
    BY ChunkFetchAssumption, Lists
  <2>3. \A c \in Chunk : <<>> \in Seq(Peer)
    OBVIOUS
  <2> QED
    BY <1>i, <2>1, <2>2, <2>3 DEF Init, TypeOK
<1>f. \A e \in Entry : fetch[e] = FetchIdle
  BY DEF Init
<1>2. Shape
  BY <1>f, <1>i DEF Init, Shape
<1>3. Skipped
  BY <1>f, <1>i DEF Init, Skipped
<1> QED
  BY <1>1, <1>2, <1>3 DEF Inv

LEMMA InvStep == Inv /\ [Next]_vars => Inv'
BY TypeStep, ShapeStep, SkippedStep, Zenon DEF Inv

-----------------------------------------------------------------------------
\* The types of the model; in particular a peer's semaphore gives out no more
\* permits than it has, also when clients give up what is still being served.
THEOREM FetchTypeCorrect == Spec => []TypeOK
<1>1. Inv => TypeOK
  BY DEF Inv
<1> QED
  BY <1>1, InvInit, InvStep, PTL DEF Spec

\* Whatever fails, Pull returns or goes on to the assembly with no goroutine
\* running, although the return for a chunk that nobody has does not wait for the
\* goroutines: the sort puts such a chunk first, so that none has been started.
THEOREM PullLeavesNothing == Spec => []NothingLeftRunning
<1>1. Inv => NothingLeftRunning
  BY DEF Inv, Shape, NothingLeftRunning
<1> QED
  BY <1>1, InvInit, InvStep, PTL DEF Spec

\* A chunk is given up only after each peer that reported it has failed.
THEOREM GivenUpAfterErrors == Spec => []GivesUpOnErrorsOnly
<1>1. Inv => GivesUpOnErrorsOnly
  <2> SUFFICES ASSUME Inv, NEW e \in Entry, fetch[e].pc = "failed", NEW p \in Range(PeersOf(e))
               PROVE  p \in erred
    BY Zenon DEF GivesUpOnErrorsOnly
  <2>1. PeersOf(e) \in Seq(Peer) /\ Len(PeersOf(e)) \in Nat /\ fetch[e].at \in Nat
    BY OfEntry DEF Inv, FetchState
  <2>2. PICK i \in 1..Len(PeersOf(e)) : p = PeersOf(e)[i]
    BY <2>1 DEF Range
  <2>3. i < fetch[e].at
    BY <2>1, <2>2 DEF Inv, Skipped
  <2> QED
    BY <2>2, <2>3 DEF Inv, Skipped
<1> QED
  BY <1>1, InvInit, InvStep, PTL DEF Spec

-----------------------------------------------------------------------------
\* A goroutine that is done has stored its chunk, unless the store failed.
DoneStored ==
  /\ \A e \in Entry : fetch[e].pc = "done" => PutErrors \/ Missing[e] \in cas
  /\ main = "secured" => \A e \in Entry : fetch[e].pc = "done"

LEMMA DoneStep ==
  ASSUME Inv, DoneStored, [Next]_vars
  PROVE  DoneStored'
<1>o. fetch \in [Entry -> FetchState] /\ order \in [Entry -> Entry] /\ Shape
  BY DEF Inv, TypeOK
<1>1. ASSUME NEW e \in Entry, FetchStep(e)
      PROVE  DoneStored'
  <2>1. PICK s \in FetchState : FetchEffect(e, s)
    BY <1>1, StepEffect
  <2>2. fetch'[e] = s /\ \A x \in Entry \ {e} : fetch'[x] = fetch[x]
    BY <1>o, <2>1 DEF FetchEffect, SetFetch
  <2>3. cas \subseteq cas' /\ main' = main /\ (s.pc = "done" => PutErrors \/ Missing[e] \in cas')
    BY <2>1, Zenon DEF FetchEffect, SetFetch
  <2>4. main # "secured"
    <3>1. fetch[e].pc \in {"next", "send", "serve", "sleep"}
      BY <2>1, Zenon DEF FetchEffect
    <3> QED
      BY <1>o, <3>1 DEF Shape, Finished
  <2> QED
    BY <2>2, <2>3, <2>4 DEF DoneStored
<1>2. CASE StartNext
  <2>1. /\ main' # "secured" /\ cas' = cas
        /\ fetch' = fetch \/ fetch' = [fetch EXCEPT ![order[started + 1]].pc = "next"]
    BY <1>2 DEF StartNext
  <2>2. \A e \in Entry : fetch'[e].pc = "done" => fetch[e].pc = "done"
    BY <1>o, <2>1 DEF FetchState
  <2> QED
    BY <2>1, <2>2 DEF DoneStored
<1>3. CASE AllFinished
  BY <1>3 DEF AllFinished, DoneStored, Finished
<1>4. CASE Rarity \/ AllStarted \/ UNCHANGED vars \/ \E p \in Peer : Elsewhere(p)
  <2>1. UNCHANGED <<fetch, cas>> /\ (main' = main \/ main' # "secured")
    BY <1>4 DEF Rarity, Available, AvailableFails, SortByRarity, AllStarted, vars, Elsewhere,
       Release, MarkedByOther, CoolDown
  <2> QED
    BY <2>1 DEF DoneStored
<1> QED
  BY <1>1, <1>2, <1>3, <1>4 DEF Next, Elsewhere

LEMMA DoneInit == Init => DoneStored
BY DEF Init, DoneStored, FetchIdle

\* What is secured is stored, unless the store failed.
LEMMA DoneSecures ==
  ASSUME DoneStored, main = "secured"
  PROVE  PutErrors \/ Range(Missing) \subseteq cas
<1>1. DOMAIN Missing = Entry
  BY ChunkFetchAssumption DEF Entry
<1> QED
  BY <1>1 DEF DoneStored, Range

\* If CAS.Put does not fail, Pull starts the assembly only with every missing
\* chunk in the store.
THEOREM SecuredIsStored ==
  ASSUME PutErrors = FALSE
  PROVE  Spec => []SecuredMeansStored
<1>1. Inv /\ DoneStored /\ [Next]_vars => DoneStored'
  BY DoneStep, Zenon
<1>2. DoneStored => SecuredMeansStored
  BY DoneSecures DEF SecuredMeansStored
<1> QED
  BY <1>1, <1>2, DoneInit, InvInit, InvStep, PTL DEF Spec

-----------------------------------------------------------------------------
\* A goroutine stores nothing but its own chunk.
LEMMA StoresOwn ==
  ASSUME NEW e \in Entry, FetchStep(e)
  PROVE  main' = main /\ (cas' = cas \/ cas' = cas \cup {Missing[e]})
BY DEF FetchStep, NextPeer, Admit, Served, Refuse, Forbid, TransferFails, AttemptFails, Awake, SetFetch

\* Each step of the transfer is a step of the abstract one, or none: goroutines
\* store chunks only while Pull is at work, and its last step follows the
\* outcome of all of them.
LEMMA TransferStep ==
  ASSUME Inv, DoneStored, DoneStored', [Next]_vars
  PROVE  [Transferred!Next]_<<IF main \in {"secured", "failed"} THEN main ELSE "running", cas>>
<1> DEFINE outcome == IF main \in {"secured", "failed"} THEN main ELSE "running"
<1>1. ASSUME NEW e \in Entry, FetchStep(e)
      PROVE  [Transferred!Next]_<<outcome, cas>>
  <2>1. PICK s \in FetchState : FetchEffect(e, s)
    BY <1>1, StepEffect
  <2>2. fetch[e].pc \notin Finished \cup {"idle"}
    BY <2>1 DEF FetchEffect, Finished
  <2>3. main \notin {"secured", "failed"} /\ main' = main
    BY <1>1, <2>2, StoresOwn DEF Inv, Shape
  <2>4. outcome = "running" /\ outcome' = outcome
    BY <2>3
  <2>5. CASE cas' = cas
    BY <2>4, <2>5
  <2>6. CASE cas' = cas \cup {Missing[e]}
    <3>1. Missing[e] \in Range(Missing)
      BY ChunkFetchAssumption DEF Range, Entry
    <3>2. Transferred!Store(Missing[e])
      BY <2>4, <2>6 DEF Transferred!Store
    <3> QED
      BY <3>1, <3>2 DEF Transferred!Next
  <2> QED
    BY <1>1, <2>5, <2>6, StoresOwn
<1>2. CASE StartNext
  <2>1. main = "start" /\ main' \in {"start", "failed"} /\ cas' = cas
    BY <1>2 DEF StartNext
  <2>2. outcome = "running" /\ outcome' \in {"running", "failed"}
    BY <2>1
  <2> QED
    BY <2>1, <2>2 DEF Transferred!Next, Transferred!Fail
<1>3. CASE AllFinished
  <2>1. main = "wait" /\ main' \in {"secured", "failed"} /\ cas' = cas
    BY <1>3 DEF AllFinished
  <2>2. outcome = "running" /\ outcome' = main'
    BY <2>1
  <2>3. CASE main' = "failed"
    BY <2>1, <2>2, <2>3 DEF Transferred!Next, Transferred!Fail
  <2>4. CASE main' = "secured"
    <3>1. PutErrors \/ \A e \in Entry : Missing[e] \in cas
      BY <2>1, <2>4 DEF DoneStored
    <3>2. PutErrors \/ Range(Missing) \subseteq cas
      BY <3>1, ChunkFetchAssumption DEF Range, Entry
    <3> QED
      BY <2>1, <2>2, <2>4, <3>2, Zenon DEF Transferred!Next, Transferred!Secure
  <2> QED
    BY <2>1, <2>3, <2>4
<1>4. CASE Rarity \/ AllStarted \/ UNCHANGED vars \/ \E p \in Peer : Elsewhere(p)
  <2>1. cas' = cas /\ (main' = main \/ (main \in {"ask", "start"} /\ main' \in {"start", "wait"}))
    BY <1>4 DEF Rarity, Available, AvailableFails, SortByRarity, AllStarted, vars, Elsewhere,
       Release, MarkedByOther, CoolDown
  <2>2. outcome' = outcome
    BY <2>1
  <2> QED
    BY <2>1, <2>2
<1> QED
  BY <1>1, <1>2, <1>3, <1>4 DEF Next, Elsewhere

\* The concurrent goroutines of a Pull, with retries, refusals and hot peers,
\* implement the abstract transfer, for any chunks and peers and whatever fails:
\* when Pull goes on or returns nothing is stored any more, and it goes on only
\* with all that was missing, up to chunks the store lost.
THEOREM PullTransfersChunks == Spec => TransfersChunks
<1>1. Init => Transferred!Init
  BY DEF Init, Transferred!Init
<1>2. Inv /\ DoneStored /\ [Next]_vars => DoneStored'
  BY DoneStep, Zenon
<1>3. Inv /\ DoneStored /\ DoneStored' /\ [Next]_vars
        => [Transferred!Next]_<<IF main \in {"secured", "failed"} THEN main ELSE "running", cas>>
  BY TransferStep
<1> QED
  BY <1>1, <1>2, <1>3, DoneInit, InvInit, InvStep, PTL DEF Spec, TransfersChunks, Transferred!Spec

-----------------------------------------------------------------------------
\* The rank of each state of a goroutine.
LEMMA RankOf ==
  ASSUME NEW s \in FetchState
  PROVE  /\ s.at \in Nat /\ s.attempt \in 1..3 /\ Rank(s) \in Nat
         /\ s.pc = "next" => Rank(s) = 13 * s.at
         /\ s.pc = "sleep" => Rank(s) = 13 * s.at + 3 * s.attempt
         /\ s.pc = "send" => Rank(s) = 13 * s.at + 3 * s.attempt + 1
         /\ s.pc = "serve" => Rank(s) = 13 * s.at + 3 * s.attempt + 2
         /\ s.pc \in Finished => Rank(s) = 13 * s.at + 12
<1>1. s.at \in Nat /\ s.attempt \in 1..3
      /\ s.pc \in {"idle", "next", "send", "serve", "sleep", "done", "failed"}
  BY DEF FetchState, MaxAttempts
<1>2. CASE s.pc = "idle" \/ s.pc = "next"
  BY <1>1, <1>2 DEF Rank, Finished
<1>3. CASE s.pc = "sleep"
  BY <1>1, <1>3 DEF Rank, Finished
<1>4. CASE s.pc = "send"
  BY <1>1, <1>4 DEF Rank, Finished
<1>5. CASE s.pc = "serve"
  BY <1>1, <1>5 DEF Rank, Finished
<1>6. CASE s.pc \in Finished
  BY <1>1, <1>6 DEF Rank, Finished
<1> QED
  BY <1>1, <1>2, <1>3, <1>4, <1>5, <1>6 DEF Finished

\* A goroutine looks at no more than the end of its list.
InList == \A e \in Entry : fetch[e].at <= Len(PeersOf(e)) + 1

\* What a step does to the place of a goroutine in its list and attempts.
RankEffect(s, t, last) ==
  \/ /\ s.pc = "next"
     /\ \/ t.pc = "failed" /\ t.at = s.at
        \/ t.pc = "next" /\ t.at = s.at + 1 /\ s.at <= last
        \/ t.pc = "send" /\ t.at = s.at
  \/ s.pc = "send" /\ t.pc = "serve" /\ t.at = s.at /\ t.attempt = s.attempt
  \/ s.pc = "sleep" /\ t.pc = "send" /\ t.at = s.at /\ t.attempt = s.attempt
  \/ s.pc = "serve" /\ t.pc = "done" /\ t.at = s.at
  \/ /\ s.pc \in {"send", "serve"}
     /\ \/ t.pc = "next" /\ t.at = s.at + 1 /\ s.at <= last
        \/ t.pc = "sleep" /\ t.at = s.at /\ t.attempt = s.attempt + 1

\* Each such step is one up in rank.
LEMMA RankGrows ==
  ASSUME NEW s \in FetchState, NEW t \in FetchState, NEW last \in Nat,
         s.at <= last + 1, RankEffect(s, t, last)
  PROVE  Rank(s) < Rank(t) /\ t.at <= last + 1
<1> DEFINE a == s.at  b == t.at  i == s.attempt  j == t.attempt
<1>s. /\ a \in Nat /\ i \in 1..3 /\ Rank(s) \in Nat
      /\ s.pc = "next" => Rank(s) = 13 * a
      /\ s.pc = "sleep" => Rank(s) = 13 * a + 3 * i
      /\ s.pc = "send" => Rank(s) = 13 * a + 3 * i + 1
      /\ s.pc = "serve" => Rank(s) = 13 * a + 3 * i + 2
  BY RankOf
<1>t. /\ b \in Nat /\ j \in 1..3 /\ Rank(t) \in Nat
      /\ t.pc = "next" => Rank(t) = 13 * b
      /\ t.pc = "sleep" => Rank(t) = 13 * b + 3 * j
      /\ t.pc = "send" => Rank(t) = 13 * b + 3 * j + 1
      /\ t.pc = "serve" => Rank(t) = 13 * b + 3 * j + 2
      /\ t.pc = "done" \/ t.pc = "failed" => Rank(t) = 13 * b + 12
  BY RankOf DEF Finished
<1> QED
  BY <1>s, <1>t DEF RankEffect

\* Each step of a goroutine is such a step.
LEMMA StepRanks ==
  ASSUME Inv, InList, NEW e \in Entry, FetchStep(e)
  PROVE  /\ fetch' = [fetch EXCEPT ![e] = fetch'[e]] /\ fetch'[e] \in FetchState
         /\ RankEffect(fetch[e], fetch'[e], Len(PeersOf(e)))
<1> DEFINE s == fetch[e]  t == fetch'[e]  last == Len(PeersOf(e))
<1>o. fetch \in [Entry -> FetchState] /\ Shape
  BY DEF Inv, TypeOK
<1>f. /\ s \in FetchState /\ s.at \in Nat \ {0} /\ s.attempt \in 1..3
      /\ last \in Nat /\ s.pc \in {"send", "serve", "sleep"} => s.at <= last
  BY <1>o, OfEntry DEF Inv, FetchState, MaxAttempts, Shape
<1>e. PICK r \in FetchState : FetchEffect(e, r)
  BY StepEffect
<1>r. fetch' = [fetch EXCEPT ![e] = r] /\ t = r
  BY <1>e, <1>o DEF FetchEffect, SetFetch
<1>s. ASSUME NEW r2, SetFetch(e, r2)
      PROVE  t = r2
  BY <1>s, <1>o DEF SetFetch
<1>1. CASE NextPeer(e)
  <2>0. s.pc = "next"
    BY <1>1 DEF NextPeer
  <2>1. CASE s.at > last
    <3>1. t = [s EXCEPT !.pc = "failed"]
      BY <1>1, <1>s, <2>1 DEF NextPeer
    <3>2. t.pc = "failed" /\ t.at = s.at
      BY <1>f, <3>1 DEF FetchState
    <3> QED
      BY <1>r, <2>0, <3>2, Zenon DEF RankEffect
  <2>2. CASE ~(s.at > last) /\ PeerOf(e) \in hot
    <3>0. PICK k : k = s.at + 1
      OBVIOUS
    <3>1. t = [s EXCEPT !.at = k] /\ s.at <= last
      BY <1>1, <1>f, <1>s, <2>2, <3>0 DEF NextPeer
    <3>2. t.pc = s.pc /\ t.at = k
      BY <1>f, <3>1 DEF FetchState
    <3> QED
      BY <1>r, <2>0, <3>0, <3>1, <3>2, Zenon DEF RankEffect
  <2>3. CASE ~(s.at > last) /\ PeerOf(e) \notin hot
    <3>1. t = [s EXCEPT !.pc = "send", !.attempt = 1]
      BY <1>1, <1>s, <2>3 DEF NextPeer
    <3>2. t.pc = "send" /\ t.at = s.at
      BY <1>f, <3>1 DEF FetchState
    <3> QED
      BY <1>r, <2>0, <3>2, Zenon DEF RankEffect
  <2> QED
    BY <2>1, <2>2, <2>3
<1>2. CASE Admit(e)
  <2>1. s.pc = "send" /\ t = [s EXCEPT !.pc = "serve"]
    BY <1>2, <1>s DEF Admit
  <2>2. t.pc = "serve" /\ t.at = s.at /\ t.attempt = s.attempt
    BY <1>f, <2>1 DEF FetchState
  <2> QED
    BY <1>r, <2>1, <2>2, Zenon DEF RankEffect
<1>3. CASE Served(e)
  <2>1. s.pc = "serve" /\ t = [s EXCEPT !.pc = "done"]
    BY <1>3, <1>s DEF Served
  <2>2. t.pc = "done" /\ t.at = s.at
    BY <1>f, <2>1 DEF FetchState
  <2> QED
    BY <1>r, <2>1, <2>2, Zenon DEF RankEffect
<1>4. CASE Refuse(e) \/ Forbid(e) \/ TransferFails(e)
  <2>0. AttemptFails(e) /\ s.pc \in {"send", "serve"} /\ s.at <= last
    BY <1>4, <1>f DEF Refuse, Forbid, TransferFails
  <2>1. CASE s.attempt = MaxAttempts
    <3>0. PICK k : k = s.at + 1
      OBVIOUS
    <3>1. t = [s EXCEPT !.pc = "next", !.at = k]
      BY <1>s, <2>0, <2>1, <3>0 DEF AttemptFails
    <3>2. t.pc = "next" /\ t.at = k
      BY <1>f, <3>1 DEF FetchState
    <3> QED
      BY <1>r, <2>0, <3>0, <3>2, Zenon DEF RankEffect
  <2>2. CASE s.attempt # MaxAttempts
    <3>0. PICK k : k = s.attempt + 1
      OBVIOUS
    <3>1. t = [s EXCEPT !.pc = "sleep", !.attempt = k]
      BY <1>s, <2>0, <2>2, <3>0 DEF AttemptFails
    <3>2. t.pc = "sleep" /\ t.at = s.at /\ t.attempt = k
      BY <1>f, <3>1 DEF FetchState
    <3> QED
      BY <1>r, <2>0, <3>0, <3>2, Zenon DEF RankEffect
  <2> QED
    BY <2>1, <2>2
<1>5. CASE Awake(e)
  <2>1. s.pc = "sleep" /\ t = [s EXCEPT !.pc = "send"]
    BY <1>5, <1>s DEF Awake
  <2>2. t.pc = "send" /\ t.at = s.at /\ t.attempt = s.attempt
    BY <1>f, <2>1 DEF FetchState
  <2> QED
    BY <1>r, <2>1, <2>2, Zenon DEF RankEffect
<1> QED
  BY <1>1, <1>2, <1>3, <1>4, <1>5 DEF FetchStep

\* A goroutine that runs has a rank below the last, and steps only up.
UpTo(e) ==
  /\ fetch'[e].at <= Len(PeersOf(e)') + 1
  /\ fetch[e].pc # "idle" /\ fetch'[e] # fetch[e] =>
       Rank(fetch[e]) < Rank(fetch'[e]) /\ Rank(fetch'[e]) <= LastRank(e)

LEMMA UpStep == ASSUME Inv, InList, [Next]_vars PROVE \A e \in Entry : UpTo(e)
<1>t. TypeOK /\ Shape
  BY DEF Inv
<1>o. order \in [Entry -> Entry] /\ fetch \in [Entry -> FetchState]
  BY <1>t DEF TypeOK
<1>l. \A x \in Entry : Len(PeersOf(x)) \in Nat /\ fetch[x].at <= Len(PeersOf(x)) + 1
  BY <1>t, OfEntry DEF InList
<1>0. ASSUME UNCHANGED <<fetch, peersOf>>
      PROVE  \A x \in Entry : UpTo(x)
  BY <1>0, <1>l DEF UpTo, PeersOf
<1>1. ASSUME NEW p \in Peer, Available(p) \/ AvailableFails(p)
      PROVE  \A x \in Entry : UpTo(x)
  <2>1. main = "ask" /\ fetch' = fetch
    BY <1>1 DEF Available, AvailableFails
  <2>2. TypeOK'
    BY TypeStep
  <2>3. ASSUME NEW x \in Entry PROVE UpTo(x)
    <3>1. fetch'[x] = fetch[x] /\ fetch'[x].at = 1
      BY <1>t, <2>1 DEF Shape, FetchIdle
    <3>2. Missing[x] \in Chunk /\ Len(PeersOf(x)') \in Nat
      BY <2>2, Lists DEF TypeOK, PeersOf
    <3> QED
      BY <3>1, <3>2 DEF UpTo
  <2> QED
    BY <2>3
<1>2. CASE SortByRarity \/ AllStarted \/ AllFinished
  BY <1>0, <1>2 DEF SortByRarity, AllStarted, AllFinished
<1>3. CASE StartNext
  <2> DEFINE e == order[started + 1]
  <2>0. /\ main = "start" /\ peersOf' = peersOf /\ started < Len(Missing)
        /\ started \in Nat /\ Len(Missing) \in Nat /\ started + 1 \in Entry /\ e \in Entry
    BY <1>3, <1>o, <1>t, Lists DEF StartNext, TypeOK, Entry
  <2>1. CASE PeersOf(e) = <<>>
    BY <1>0, <1>3, <2>0, <2>1 DEF StartNext
  <2>2. CASE PeersOf(e) # <<>>
    <3>1. fetch' = [fetch EXCEPT ![e].pc = "next"]
      BY <1>3, <2>2 DEF StartNext
    <3>2. fetch'[e].at = fetch[e].at /\ \A x \in Entry \ {e} : fetch'[x] = fetch[x]
      BY <1>o, <2>0, <3>1 DEF FetchState
    <3>3. fetch[e].pc = "idle"
      <4>1. SUFFICES ASSUME fetch[e].pc # "idle" PROVE FALSE
        OBVIOUS
      <4>2. PICK i \in 1..started : order[i] = e
        BY <1>t, <2>0, <4>1 DEF Shape
      <4>3. i \in Entry /\ i # started + 1
        BY <2>0, <4>2 DEF Entry
      <4>4. IsInjective(order)
        BY <1>t, <2>0 DEF Shape, Sorted
      <4> QED
        BY <1>o, <2>0, <4>2, <4>3, <4>4 DEF IsInjective
    <3>4. ASSUME NEW x \in Entry PROVE UpTo(x)
      <4>1. PeersOf(x)' = PeersOf(x) /\ fetch'[x].at = fetch[x].at
        BY <2>0, <3>2 DEF PeersOf
      <4>2. fetch[x].pc # "idle" => fetch'[x] = fetch[x]
        BY <3>2, <3>3
      <4> QED
        BY <1>l, <4>1, <4>2 DEF UpTo
    <3> QED
      BY <3>4
  <2> QED
    BY <2>1, <2>2
<1>4. ASSUME NEW e \in Entry, FetchStep(e)
      PROVE  \A x \in Entry : UpTo(x)
  <2>1. /\ fetch' = [fetch EXCEPT ![e] = fetch'[e]] /\ fetch'[e] \in FetchState
        /\ RankEffect(fetch[e], fetch'[e], Len(PeersOf(e)))
    BY <1>4, StepRanks
  <2>2. peersOf' = peersOf
    BY <1>4, StepEffect DEF FetchEffect, SetFetch
  <2>3. Rank(fetch[e]) < Rank(fetch'[e]) /\ fetch'[e].at <= Len(PeersOf(e)) + 1
    BY <1>l, <1>o, <2>1, RankGrows
  <2>4. Rank(fetch'[e]) <= LastRank(e)
    <3> DEFINE s == fetch'[e]
    <3>1. /\ s.at \in Nat /\ s.attempt \in 1..3 /\ Rank(s) \in Nat
          /\ s.pc = "next" => Rank(s) = 13 * s.at
          /\ s.pc = "sleep" => Rank(s) = 13 * s.at + 3 * s.attempt
          /\ s.pc = "send" => Rank(s) = 13 * s.at + 3 * s.attempt + 1
          /\ s.pc = "serve" => Rank(s) = 13 * s.at + 3 * s.attempt + 2
          /\ s.pc \in Finished => Rank(s) = 13 * s.at + 12
      BY <2>1, RankOf
    <3>2. s.pc \in {"next", "sleep", "send", "serve"} \cup Finished
      BY <2>1 DEF RankEffect, Finished
    <3>3. Rank(s) <= 13 * s.at + 12
      BY <3>1, <3>2
    <3> QED
      BY <1>l, <2>3, <3>1, <3>3 DEF LastRank
  <2>5. ASSUME NEW x \in Entry PROVE UpTo(x)
    <3>1. PeersOf(x)' = PeersOf(x)
      BY <2>2 DEF PeersOf
    <3>2. CASE x = e
      BY <2>3, <2>4, <3>1, <3>2 DEF UpTo
    <3>3. CASE x # e
      <4>1. fetch'[x] = fetch[x]
        BY <1>o, <2>1, <3>3
      <4> QED
        BY <1>l, <3>1, <4>1 DEF UpTo
    <3> QED
      BY <3>2, <3>3
  <2> QED
    BY <2>5
<1>5. CASE UNCHANGED vars \/ \E p \in Peer : Elsewhere(p)
  BY <1>0, <1>5 DEF vars, Elsewhere, Release, MarkedByOther, CoolDown
<1> QED
  BY <1>1, <1>2, <1>3, <1>4, <1>5 DEF Next, Rarity, Elsewhere

\* Each step of a goroutine brings it nearer to an end that its list of peers
\* fixes, whoever marks peers hot and however often they cool down: what the
\* retry loop and the loop over the peers of a chunk do is bounded.
THEOREM GoroutinesRunOut == Spec => AttemptsRunOut
<1> DEFINE Up == \A e \in Entry : fetch[e].pc # "idle" /\ fetch'[e] # fetch[e] =>
                   Rank(fetch[e]) < Rank(fetch'[e]) /\ Rank(fetch'[e]) <= LastRank(e)
<1>1. Init => Inv /\ InList
  <2> SUFFICES ASSUME Init PROVE Inv /\ InList
    OBVIOUS
  <2>1. Inv
    BY InvInit
  <2>2. \A e \in Entry : Len(PeersOf(e)) \in Nat /\ fetch[e].at = 1
    BY <2>1, OfEntry DEF Inv, Init, FetchIdle
  <2> QED
    BY <2>1, <2>2 DEF InList
<1>2. Inv /\ InList /\ [Next]_vars => Inv' /\ InList' /\ Up
  BY InvStep, UpStep DEF UpTo, InList
<1>3. Inv /\ InList /\ [Next]_vars => [Up]_vars
  BY <1>2
<1> HIDE DEF Up
<1>4. Spec => [][Up]_vars
  BY <1>1, <1>2, <1>3, PTL DEF Spec
<1> QED
  BY <1>4 DEF AttemptsRunOut, Up

-----------------------------------------------------------------------------
\* What a peer makes of the time in a request: the second it was sent in, cut
\* to its beginning, against its own clock.
LEMMA PassesWindow ==
  ASSUME NEW p \in Peer, NEW t \in Nat, NEW delay \in 0..MaxDelay
  PROVE  /\ Passes(p, t, delay) =>
              SecretOf[p] = Secret /\ Skew[p] \in (-MaxClockSkew - 999 - MaxDelay)..MaxClockSkew
         /\ ~Passes(p, t, delay) /\ SecretOf[p] = Secret =>
              Skew[p] \notin -MaxClockSkew..(MaxClockSkew - 999 - MaxDelay)
<1> DEFINE ts == t \div 1000
           req == SignHTTP(Secret, t)
           now == t + delay + Skew[p]
<1>1. ts \in Nat /\ 1000 * ts <= t /\ t <= 1000 * ts + 999
  OBVIOUS
<1>2. req.ts = ts /\ req.mac = <<Secret, ts>>
  BY DEF SignHTTP
<1>3. Skew[p] \in Int /\ MaxDelay \in Nat /\ now \in Int
  BY ChunkFetchAssumption
<1>4. Passes(p, t, delay) <=> VerifyHTTP(SecretOf[p], req, now)
  BY Zenon DEF Passes
<1> HIDE DEF ts, req
<1>5. VerifyHTTP(SecretOf[p], req, now) <=>
        /\ -MaxClockSkew <= now - 1000 * ts /\ now - 1000 * ts <= MaxClockSkew
        /\ <<Secret, ts>> = <<SecretOf[p], ts>>
  <2> HIDE DEF now
  <2>1. VerifyHTTP(SecretOf[p], req, now) <=>
          /\ -MaxClockSkew <= now - 1000 * req.ts /\ now - 1000 * req.ts <= MaxClockSkew
          /\ req.mac = <<SecretOf[p], req.ts>>
    BY DEF VerifyHTTP
  <2> QED
    BY <1>2, <2>1
<1>6. <<Secret, ts>> = <<SecretOf[p], ts>> <=> SecretOf[p] = Secret
  OBVIOUS
<1> QED
  BY <1>1, <1>3, <1>4, <1>5, <1>6 DEF MaxClockSkew

\* For all clocks, moments and delays: which peers can refuse a request of a node
\* with the same secret, and which can accept one.
THEOREM ClocksDecide == Spec => []ClockWindow
<1>1. Init => ClockWindow
  BY DEF Init, ClockWindow
<1>2. ASSUME Inv, ClockWindow, [Next]_vars
      PROVE  ClockWindow'
  <2>1. CASE UNCHANGED authVars
    BY <1>2, <2>1 DEF authVars, ClockWindow
  <2>2. ASSUME NEW p \in Peer, Authorized(p)
        PROVE  ClockWindow'
    <3>1. PICK t \in Moment, delay \in 0..MaxDelay : Passes(p, t, delay)
      BY <2>2, Zenon DEF Authorized
    <3>2. SecretOf[p] = Secret /\ Skew[p] \in (-MaxClockSkew - 999 - MaxDelay)..MaxClockSkew
      BY <3>1, PassesWindow, ChunkFetchAssumption
    <3> QED
      BY <1>2, <2>2, <3>2 DEF Authorized, ClockWindow
  <2>3. ASSUME NEW p \in Peer, Unauthorized(p)
        PROVE  ClockWindow'
    <3>1. PICK t \in Moment, delay \in 0..MaxDelay : ~Passes(p, t, delay)
      BY <2>3, Zenon DEF Unauthorized
    <3>2. SecretOf[p] = Secret => Skew[p] \notin -MaxClockSkew..(MaxClockSkew - 999 - MaxDelay)
      BY <3>1, PassesWindow, ChunkFetchAssumption
    <3> QED
      BY <1>2, <2>3, <3>2 DEF Unauthorized, ClockWindow
  <2> QED
    BY <1>2, <2>1, <2>2, <2>3, AuthStep
<1> QED
  BY <1>1, <1>2, InvInit, InvStep, PTL DEF Spec

=============================================================================
