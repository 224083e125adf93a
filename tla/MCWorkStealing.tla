--------------------------- MODULE MCWorkStealing ---------------------------
(* Small instances of WorkStealing.                                        *)
EXTENDS WorkStealing, TLC

(* Threads and contexts are interchangeable: used in the safety runs only. *)
Symmetry == Permutations(Threads) \cup Permutations(Contexts)
=============================================================================
