----------------------- MODULE MCTemporaryDirectory -----------------------
(***************************************************************************)
(* An instance of TemporaryDirectory for TLC.  Directories other than the  *)
(* parent are interchangeable: Init and MakeDirectory take any of them.    *)
(***************************************************************************)
EXTENDS TemporaryDirectory, TLC

Symmetry == Permutations(Dirs \ {Parent}) \cup Permutations(Files)
=============================================================================
