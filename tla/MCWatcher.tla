----------------------------- MODULE MCWatcher -----------------------------
(***************************************************************************)
(* An instance of Watcher for TLC: a file in the root, and a directory,    *)
(* there from the beginning or made later, with a file in it; and a hidden *)
(* directory.                                                              *)
(***************************************************************************)
EXTENDS Watcher, TLC

CONSTANTS root, sub, dot, a, b

Tree == (a :> root) @@ (sub :> root) @@ (b :> sub) @@ (dot :> root)

=============================================================================
