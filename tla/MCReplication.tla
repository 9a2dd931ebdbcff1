--------------------------- MODULE MCReplication ---------------------------
(***************************************************************************)
(* Instances of Replication for TLC: one file, edited by node 1, by the    *)
(* node in the middle of the name order, or by two nodes.                  *)
(***************************************************************************)
EXTENDS Replication, TLC

CONSTANTS f1

EditedBy1 == [f \in File |-> {1}]
EditedBy2 == [f \in File |-> {2}]
EditedBy1And2 == [f \in File |-> {1, 2}]

\* The contents are interchangeable; file and node names are not.
RootSymmetry == Permutations(Root)

=============================================================================
