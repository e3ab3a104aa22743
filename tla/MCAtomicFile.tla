---------------------------- MODULE MCAtomicFile ----------------------------
(***************************************************************************)
(* Processes, inodes and temporary names are interchangeable, and what is  *)
(* in a temporary file that nobody works on any more is of no consequence. *)
(***************************************************************************)
EXTENDS AtomicFile, TLC

\* Unlike the files that our processes create, in both.
MCLooks == {<<"y", "v">>}

Symmetry == Permutations(Processes) \cup Permutations(Inodes) \cup Permutations(Temps)

\* The files of the target, and of the calls that are under way.
Watched(i) ==
    \/ i \in {dir[Target], disk}
    \/ \E p \in Processes :
        source[p] = i \/ (pc[p] \in Filling /\ dir[temp[p]] = i)

View ==
    <<dir, [i \in Inodes |-> IF Watched(i) THEN inode[i] ELSE Blank], disk,
      source, local, disturbed, littered>>
=============================================================================
