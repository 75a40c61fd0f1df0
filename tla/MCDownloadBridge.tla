-------------------------- MODULE MCDownloadBridge --------------------------
(* DownloadBridge on small instances.                                         *)
EXTENDS DownloadBridge, TLC

(* Handlers differ only by their identity; used by the safety runs only. *)
RequestSymmetry == Permutations(Requests)
=============================================================================
