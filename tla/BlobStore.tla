----------------------------- MODULE BlobStore -----------------------------
(***************************************************************************)
(* What the content store promises of one hash: nothing, or the one data   *)
(* that has this hash; once there, it stays.                               *)
(***************************************************************************)
VARIABLE blob

Init == blob = "absent"

Store ==
  /\ blob = "absent"
  /\ blob' = "good"

Spec == Init /\ [][Store]_blob

=============================================================================
