----------------------------- MODULE MCNodeSync -----------------------------
(***************************************************************************)
(* Instances of NodeSync for TLC.  No mixture of two contents is another   *)
(* one.  Of the three, one is empty, and two have a level of the Merkle    *)
(* tree in common.                                                         *)
(***************************************************************************)
EXTENDS NodeSync

CONSTANTS x, y, z

TwoContents == {<<x, y>>, <<z>>}
ThreeContents == {<<x, y>>, <<x, y, z>>, <<>>}

=============================================================================
