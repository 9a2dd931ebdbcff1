----------------------------- MODULE ChunkFetch -----------------------------
(***************************************************************************)
(* The transfer of the missing chunks within one Pull: the availability    *)
(* requests behind the rarity map, one goroutine per entry of the list of  *)
(* missing chunks with its attempts and backoff, the health tracker they   *)
(* share with the Pulls of other files, the authentication of every        *)
(* request and the semaphore of each serving peer.                         *)
(***************************************************************************)
EXTENDS Auth, Sequences, FiniteSets, Functions

CONSTANTS
  Peer,        \* the peers known when the Pull began
  Chunk,       \* chunk hashes
  Missing,     \* diff.MissingChunkHashes: a list, a hash may occur twice
  Holds,       \* Holds[p]: chunks in the store of p
  MaxStreams,  \* transfers a peer serves at a time
  Secret,      \* the secret of this node
  SecretOf,    \* SecretOf[p]: the secret of p
  Skew,        \* Skew[p]: how far the clock of p is ahead of ours, in ms
  Moment,      \* times at which requests are sent, in ms
  MaxDelay,    \* the longest a request is under way, in ms
  Unreliable,  \* may requests fail for other reasons than a busy peer?
  PutErrors    \* may CAS.Put fail?

ASSUME ChunkFetchAssumption ==
  /\ Missing \in Seq(Chunk)
  /\ Holds \in [Peer -> SUBSET Chunk]
  /\ MaxStreams \in Nat
  /\ Skew \in [Peer -> Int]
  /\ Moment \subseteq Nat
  /\ MaxDelay \in Nat
  /\ Unreliable \in BOOLEAN
  /\ PutErrors \in BOOLEAN

VARIABLES
  main,      \* Pull itself
  replied,   \* peers whose availability goroutine is done
  peersOf,   \* rarityMap: the peers of a chunk, in the order of the replies
  order,     \* the entries of the list, sorted by rarity
  started,   \* number of goroutines started
  fetch,     \* the goroutine of each entry
  hot,       \* peers in their cooldown
  busy,      \* busy[p]: permits of p's semaphore in use
  cas,       \* chunks in our store
  erred,     \* history: peers that a request failed at, of this Pull or of one
             \* that left them hot
  denied,    \* history: peers that took one of our requests for unauthorized
  heard      \* history: peers that took one for authorized

authVars == <<denied, heard>>
vars == <<main, replied, peersOf, order, started, fetch, hot, busy, cas, erred, authVars>>

-----------------------------------------------------------------------------
MaxAttempts == 3

Entry == 1..Len(Missing)

FetchState == [pc : {"idle", "next", "send", "serve", "sleep", "done", "failed"},
               at : Nat \ {0},           \* position in the peers of the chunk
               attempt : 1..MaxAttempts]
FetchIdle == [pc |-> "idle", at |-> 1, attempt |-> 1]

PeersOf(e) == peersOf[Missing[e]]
PeerOf(e) == PeersOf(e)[fetch[e].at]
Finished == {"done", "failed"}

TypeOK ==
  /\ main \in {"ask", "start", "wait", "secured", "failed"}
  /\ replied \subseteq Peer
  /\ peersOf \in [Chunk -> Seq(Peer)]
  /\ order \in [Entry -> Entry]
  /\ started \in 0..Len(Missing)
  /\ fetch \in [Entry -> FetchState]
  /\ hot \subseteq Peer
  /\ busy \in [Peer -> 0..MaxStreams]
  /\ cas \subseteq Chunk
  /\ erred \subseteq Peer
  /\ denied \subseteq Peer
  /\ heard \subseteq Peer

\* The tracker outlives a Pull: peers may be hot from an earlier one.
Init ==
  /\ main = "ask"
  /\ replied = {}
  /\ peersOf = [c \in Chunk |-> <<>>]
  /\ order = [e \in Entry |-> e]
  /\ started = 0
  /\ fetch = [e \in Entry |-> FetchIdle]
  /\ hot \in IF Unreliable THEN SUBSET Peer ELSE {{}}
  /\ busy = [p \in Peer |-> 0]
  /\ cas = {}
  /\ erred = hot
  /\ denied = {}
  /\ heard = {}

-----------------------------------------------------------------------------
(***************************************************************************)
(* A request is sent at moment t, and read by the clock of p after a delay.*)
(***************************************************************************)

Passes(p, t, delay) ==
  VerifyHTTP(SecretOf[p], SignHTTP(Secret, t), t + delay + Skew[p])

Authorized(p) ==
  /\ \E t \in Moment, delay \in 0..MaxDelay : Passes(p, t, delay)
  /\ heard' = heard \cup {p}
  /\ UNCHANGED denied

Unauthorized(p) ==
  /\ \E t \in Moment, delay \in 0..MaxDelay : ~Passes(p, t, delay)
  /\ denied' = denied \cup {p}
  /\ UNCHANGED heard

-----------------------------------------------------------------------------
(***************************************************************************)
(* BuildRarityMap.                                                         *)
(***************************************************************************)

\* The reply repeats a hash as often as the request does.
Occurrences(c) == Cardinality({e \in Entry : Missing[e] = c})

Available(p) ==
  /\ main = "ask"
  /\ p \notin replied
  /\ replied' = replied \cup {p}
  /\ peersOf' = [c \in Chunk |->
                   IF c \in Holds[p]
                     THEN peersOf[c] \o [i \in 1..Occurrences(c) |-> p]
                     ELSE peersOf[c]]
  /\ Authorized(p)
  /\ UNCHANGED <<main, order, started, fetch, hot, busy, cas, erred>>

\* The peer refuses the request, cannot be reached or does not answer within
\* 3 s.
AvailableFails(p) ==
  /\ main = "ask"
  /\ p \notin replied
  /\ replied' = replied \cup {p}
  /\ Unauthorized(p) \/ (Unreliable /\ UNCHANGED authVars)
  /\ UNCHANGED <<main, peersOf, order, started, fetch, hot, busy, cas, erred>>

\* Mutant: the entries stay in the order of the list.
SortByRarityNot ==
  /\ main = "ask"
  /\ replied = Peer
  /\ main' = "start"
  /\ UNCHANGED <<replied, peersOf, order, started, fetch, hot, busy, cas, erred, authVars>>

\* sort.Slice is not stable: entries of equal rarity come in any order.
SortByRarity ==
  /\ main = "ask"
  /\ replied = Peer
  /\ main' = "start"
  /\ order' \in {s \in [Entry -> Entry] :
                   /\ IsInjective(s)
                   /\ \A i, j \in Entry :
                        i < j => Len(PeersOf(s[i])) <= Len(PeersOf(s[j]))}
  /\ UNCHANGED <<replied, peersOf, started, fetch, hot, busy, cas, erred, authVars>>

-----------------------------------------------------------------------------
(***************************************************************************)
(* Pull's loop over the rarity map and its end.                            *)
(***************************************************************************)

\* Pull returns at the first chunk nobody has, whatever it has started.
StartNext ==
  LET e == order[started + 1] IN
  /\ main = "start"
  /\ started < Len(Missing)
  /\ IF PeersOf(e) = <<>>
       THEN main' = "failed" /\ UNCHANGED <<started, fetch>>
       ELSE /\ started' = started + 1
            /\ fetch' = [fetch EXCEPT ![e].pc = "next"]
            /\ UNCHANGED main
  /\ UNCHANGED <<replied, peersOf, order, hot, busy, cas, erred, authVars>>

AllStarted ==
  /\ main = "start"
  /\ started = Len(Missing)
  /\ main' = "wait"
  /\ UNCHANGED <<replied, peersOf, order, started, fetch, hot, busy, cas, erred, authVars>>

\* wg.Wait, and a look into errChan.
AllFinished ==
  /\ main = "wait"
  /\ \A e \in Entry : fetch[e].pc \in Finished
  /\ main' = IF \E e \in Entry : fetch[e].pc = "failed" THEN "failed" ELSE "secured"
  /\ UNCHANGED <<replied, peersOf, order, started, fetch, hot, busy, cas, erred, authVars>>

-----------------------------------------------------------------------------
(***************************************************************************)
(* The goroutine of an entry, and the peer it asks.                        *)
(***************************************************************************)

SetFetch(e, s) ==
  /\ fetch' = [fetch EXCEPT ![e] = s]
  /\ UNCHANGED <<main, replied, peersOf, order, started>>

\* Mutant: a goroutine that has run out of peers returns without an error.
NextPeerSilent(e) ==
  /\ fetch[e].pc = "next"
  /\ SetFetch(e, IF fetch[e].at > Len(PeersOf(e))
                   THEN [fetch[e] EXCEPT !.pc = "done"]
                   ELSE IF PeerOf(e) \in hot
                     THEN [fetch[e] EXCEPT !.at = @ + 1]
                     ELSE [fetch[e] EXCEPT !.pc = "send", !.attempt = 1])
  /\ UNCHANGED <<hot, busy, cas, erred, authVars>>

\* Mutant: the last peer of the list is never asked.
NextPeerNotLast(e) ==
  /\ fetch[e].pc = "next"
  /\ SetFetch(e, IF fetch[e].at >= Len(PeersOf(e))
                   THEN [fetch[e] EXCEPT !.pc = "failed"]
                   ELSE IF PeerOf(e) \in hot
                     THEN [fetch[e] EXCEPT !.at = @ + 1]
                     ELSE [fetch[e] EXCEPT !.pc = "send", !.attempt = 1])
  /\ UNCHANGED <<hot, busy, cas, erred, authVars>>

\* The next peer of the list is skipped if it is hot; after the last one the
\* goroutine leaves an error.
NextPeer(e) ==
  /\ fetch[e].pc = "next"
  /\ SetFetch(e, IF fetch[e].at > Len(PeersOf(e))
                   THEN [fetch[e] EXCEPT !.pc = "failed"]
                   ELSE IF PeerOf(e) \in hot
                     THEN [fetch[e] EXCEPT !.at = @ + 1]
                     ELSE [fetch[e] EXCEPT !.pc = "send", !.attempt = 1])
  /\ UNCHANGED <<hot, busy, cas, erred, authVars>>

\* Mutant: the result of TryAcquire is ignored.
AdmitAlways(e) ==
  /\ fetch[e].pc = "send"
  /\ busy' = [busy EXCEPT ![PeerOf(e)] = @ + 1]
  /\ Authorized(PeerOf(e))
  /\ SetFetch(e, [fetch[e] EXCEPT !.pc = "serve"])
  /\ UNCHANGED <<hot, cas, erred>>

\* The peer accepts the request, and TryAcquire succeeds.
Admit(e) ==
  /\ fetch[e].pc = "send"
  /\ busy[PeerOf(e)] < MaxStreams
  /\ busy' = [busy EXCEPT ![PeerOf(e)] = @ + 1]
  /\ Authorized(PeerOf(e))
  /\ SetFetch(e, [fetch[e] EXCEPT !.pc = "serve"])
  /\ UNCHANGED <<hot, cas, erred>>

\* The handler of p returns and its permit with it.  The client may have the
\* chunk already, may still be reading it, or may have given up long before.
Release(p) ==
  /\ busy[p] > 0
  /\ busy' = [busy EXCEPT ![p] = @ - 1]
  /\ UNCHANGED <<main, replied, peersOf, order, started, fetch, hot, cas, erred, authVars>>

\* The chunk arrives; the error of CAS.Put is ignored.
Served(e) ==
  /\ fetch[e].pc = "serve"
  /\ cas' \in {cas \cup {Missing[e]}} \cup (IF PutErrors THEN {cas} ELSE {})
  /\ SetFetch(e, [fetch[e] EXCEPT !.pc = "done"])
  /\ UNCHANGED <<hot, busy, erred, authVars>>

\* Mutant: a failed attempt is repeated without counting.
AttemptFailsUncounted(e) ==
  /\ erred' = erred \cup {PeerOf(e)}
  /\ hot' = hot \cup {PeerOf(e)}
  /\ SetFetch(e, [fetch[e] EXCEPT !.pc = "sleep"])
  /\ UNCHANGED cas

\* An attempt failed: the peer is marked hot and asked again after the
\* backoff, or left after the last attempt.
AttemptFails(e) ==
  /\ erred' = erred \cup {PeerOf(e)}
  /\ IF fetch[e].attempt = MaxAttempts
       THEN /\ SetFetch(e, [fetch[e] EXCEPT !.pc = "next", !.at = @ + 1])
            /\ UNCHANGED hot
       ELSE /\ SetFetch(e, [fetch[e] EXCEPT !.pc = "sleep", !.attempt = @ + 1])
            /\ hot' = hot \cup {PeerOf(e)}
  /\ UNCHANGED cas

\* The peer answers 429.
Refuse(e) ==
  /\ fetch[e].pc = "send"
  /\ busy[PeerOf(e)] = MaxStreams
  /\ Authorized(PeerOf(e))
  /\ AttemptFails(e)
  /\ UNCHANGED busy

\* The peer answers 403, and has not touched its semaphore.
Forbid(e) ==
  /\ fetch[e].pc = "send"
  /\ Unauthorized(PeerOf(e))
  /\ AttemptFails(e)
  /\ UNCHANGED busy

\* The request or the transfer fails, or takes the client more than 10 s.
TransferFails(e) ==
  /\ Unreliable
  /\ fetch[e].pc \in {"send", "serve"}
  /\ AttemptFails(e)
  /\ UNCHANGED <<busy, authVars>>

\* The backoff is over.
Awake(e) ==
  /\ fetch[e].pc = "sleep"
  /\ SetFetch(e, [fetch[e] EXCEPT !.pc = "send"])
  /\ UNCHANGED <<hot, busy, cas, erred, authVars>>

\* A goroutine of another Pull, of another file, marks p hot in the same tracker.
MarkedByOther(p) ==
  /\ Unreliable
  /\ hot' = hot \cup {p}
  /\ erred' = erred \cup {p}
  /\ UNCHANGED <<main, replied, peersOf, order, started, fetch, busy, cas, authVars>>

\* The cooldown of p is over.
CoolDown(p) ==
  /\ p \in hot
  /\ hot' = hot \ {p}
  /\ UNCHANGED <<main, replied, peersOf, order, started, fetch, busy, cas, erred, authVars>>

-----------------------------------------------------------------------------
Rarity == SortByRarity \/ \E p \in Peer : Available(p) \/ AvailableFails(p)

FetchStep(e) ==
  \/ NextPeer(e)
  \/ Admit(e)
  \/ Served(e)
  \/ Refuse(e)
  \/ Forbid(e)
  \/ TransferFails(e)
  \/ Awake(e)

Next ==
  \/ Rarity
  \/ StartNext
  \/ AllStarted
  \/ AllFinished
  \/ \E e \in Entry : FetchStep(e)
  \/ \E p \in Peer : Release(p) \/ MarkedByOther(p) \/ CoolDown(p)

Spec == Init /\ [][Next]_vars

\* Every goroutine runs on: requests have timeouts, backoffs end.
FairSpec ==
  /\ Spec
  /\ WF_vars(Rarity)
  /\ WF_vars(StartNext \/ AllStarted \/ AllFinished)
  /\ \A e \in Entry : WF_vars(FetchStep(e))

-----------------------------------------------------------------------------
(***************************************************************************)
(* Properties.                                                             *)
(***************************************************************************)

\* When Pull returns, none of its goroutines is running.  The return for an
\* unavailable chunk does not wait for them: it is the sort by rarity that makes
\* it come before the first.  (A peer may still be serving what was given up.)
NothingLeftRunning ==
  main \in {"secured", "failed"} =>
    \A e \in Entry : fetch[e].pc \in Finished \cup {"idle"}

\* "All chunks secured in CAS.": the assembly starts only when every missing
\* chunk has been stored, whichever goroutines met errors on the way.
SecuredMeansStored == main = "secured" => Range(Missing) \subseteq cas

\* A goroutine gives a chunk up only if every peer that reported it failed at
\* least one request: the health tracker, shared by all goroutines, condemns no
\* peer that has always answered.
GivesUpOnErrorsOnly ==
  \A e \in Entry : fetch[e].pc = "failed" => Range(PeersOf(e)) \subseteq erred

\* Authentication refuses no request to a peer that has the secret because of
\* the clocks, unless the peer's is more than 30 s behind ours, or ahead of ours
\* by 30 s less the delay and less the second that rounding may cost; and a peer
\* that answers has the secret and a clock within 30 s, with the same leeway on
\* the other side.
ClockWindow ==
  /\ \A p \in denied :
       SecretOf[p] = Secret => Skew[p] \notin -MaxClockSkew..(MaxClockSkew - 999 - MaxDelay)
  /\ \A p \in heard :
       SecretOf[p] = Secret /\ Skew[p] \in (-MaxClockSkew - 999 - MaxDelay)..MaxClockSkew

Transferred == INSTANCE Transfer WITH
  Wanted <- Range(Missing),
  Lossy <- PutErrors,
  outcome <- IF main \in {"secured", "failed"} THEN main ELSE "running",
  stored <- cas

\* The goroutines, attempts and refusals of a Pull amount to the transfer of
\* module Transfer: in particular no goroutine stores a chunk when Pull has gone
\* on to the assembly, or has returned.
TransfersChunks == Transferred!Spec

\* How far the goroutine of e may get, and how far it is in state s: the peers
\* it has left, then attempts, then the steps of an attempt.
LastRank(e) == 13 * (Len(PeersOf(e)) + 1) + 12
Rank(s) ==
  13 * s.at + CASE s.pc \in {"idle", "next"} -> 0
                [] s.pc = "sleep" -> 3 * s.attempt
                [] s.pc = "send" -> 3 * s.attempt + 1
                [] s.pc = "serve" -> 3 * s.attempt + 2
                [] s.pc \in Finished -> 12

\* A goroutine does not go back to what it has done, and there is an end to what
\* it can do: neither the hot marks, which others set and time removes, nor busy
\* peers make it ask a peer more than MaxAttempts times for each time the peer
\* is in its list.
AttemptsRunOut ==
  [][\A e \in Entry : fetch[e].pc # "idle" /\ fetch'[e] # fetch[e] =>
       Rank(fetch[e]) < Rank(fetch'[e]) /\ Rank(fetch'[e]) <= LastRank(e)]_vars

\* The transfer ends, whatever fails: no goroutine waits for another one, and
\* the attempts are bounded.
TransferEnds == <>(main \in {"secured", "failed"})

=============================================================================
