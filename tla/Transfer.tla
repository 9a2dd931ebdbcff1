------------------------------ MODULE Transfer ------------------------------
(***************************************************************************)
(* What the transfer of the chunks of a Pull promises: wanted chunks are   *)
(* stored while it runs, in any order; then it has failed, or secured all  *)
(* of them.  From then on it stores nothing more.                          *)
(***************************************************************************)
CONSTANTS
  Wanted,  \* the chunks to fetch
  Lossy    \* may the store lose a chunk?

VARIABLES outcome, stored

Init == outcome = "running" /\ stored = {}

Store(c) ==
  /\ outcome = "running"
  /\ stored' = stored \cup {c}
  /\ UNCHANGED outcome

Secure ==
  /\ outcome = "running"
  /\ Lossy \/ Wanted \subseteq stored
  /\ outcome' = "secured"
  /\ UNCHANGED stored

Fail ==
  /\ outcome = "running"
  /\ outcome' = "failed"
  /\ UNCHANGED stored

Next == Secure \/ Fail \/ \E c \in Wanted : Store(c)

Spec == Init /\ [][Next]_<<outcome, stored>>

=============================================================================
