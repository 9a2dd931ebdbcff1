---------------------------- MODULE MCChunkFetch ----------------------------
(***************************************************************************)
(* An instance of ChunkFetch: y is rarer than x, and cannot be found when  *)
(* q does not answer.  The clock of p is behind, that of q so far ahead    *)
(* that requests pass or not, depending on when they are sent; r has all   *)
(* chunks and another secret.                                              *)
(***************************************************************************)
EXTENDS ChunkFetch, TLC

CONSTANTS p, q, r, x, y, s, other

Pair == <<x, y>>
Scattered == (p :> {x}) @@ (q :> {x, y}) @@ (r :> {x, y})
Secrets == (p :> s) @@ (q :> s) @@ (r :> other)
Clocks == (p :> -2000) @@ (q :> 29500) @@ (r :> 0)

=============================================================================
