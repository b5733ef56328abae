--------------------------- MODULE MCHashComputing ---------------------------
(* HashComputing on a few calls and contents. *)
EXTENDS HashComputing, TLC

\* Calls and contents are interchangeable.
MCSymmetry == Permutations(Creates) \cup Permutations(Bodies)

==============================================================================
