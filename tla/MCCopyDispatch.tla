---------------------------- MODULE MCCopyDispatch ----------------------------
(* TLC instances of CopyDispatch.                                           *)
EXTENDS CopyDispatch, TLC

(* Followers are interchangeable, and so are the runs and the passes.       *)
Interchangeable == Permutations(Followers) \cup Permutations(Runs) \cup Permutations(Ticks)
=============================================================================
