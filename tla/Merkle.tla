------------------------------- MODULE Merkle -------------------------------
(***************************************************************************)
(* merkle.ComputeRoot: the root of a list of chunk hashes.  The hash of    *)
(* two hashes is the pair of them.  Chunks and pairs are hashed the same   *)
(* way, so that the hash of a chunk that is itself two hashes, 64 bytes,   *)
(* is such a pair, too; chunks that are model values are none of these.    *)
(***************************************************************************)
EXTENDS Naturals, Sequences

CONSTANT Zero  \* 32 zero bytes

\* Mutant: the odd one out is dropped.
LevelOddDropped(hs) ==
  IF Len(hs) < 2 THEN hs
                 ELSE [i \in 1..(Len(hs) \div 2) |-> <<hs[2 * i - 1], hs[2 * i]>>]

\* One pass of the loop: neighbours are hashed together, the odd one out at
\* the end moves up as it is.
Level(hs) ==
  [i \in 1..((Len(hs) + 1) \div 2) |->
     IF 2 * i > Len(hs) THEN hs[2 * i - 1] ELSE <<hs[2 * i - 1], hs[2 * i]>>]

\* A level of one hash is its own next level, so Len(hs) passes are enough.
ComputeRoot(hs) ==
  LET pass[k \in 0..Len(hs)] == IF k = 0 THEN hs ELSE Level(pass[k - 1])
  IN  IF hs = <<>> THEN Zero ELSE pass[Len(hs)][1]

=============================================================================
