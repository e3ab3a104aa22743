--------------------------- MODULE MCMountOption ---------------------------
(***************************************************************************)
(* Two processes that remediate the same or different mount points, and an *)
(* administrator.                                                          *)
(***************************************************************************)
EXTENDS MountOption, TLC

CONSTANTS data, home, nodev, exec

MCTexts ==
    LET E(m, o) == [point |-> m, options |-> o]
    IN {<<Comment, E(data, {exec}), E(home, {})>>,
        <<E(data, {}), Unended>>}

MCIndented ==
    LET E(m, o) == [point |-> m, options |-> o]
    IN {<<E(home, {nodev}), Indented, E(data, {exec}), Comment>>}

MCRequests ==
    {[point |-> data, required |-> {nodev}, forbidden |-> {exec}],
     [point |-> data, required |-> {}, forbidden |-> {exec}],
     [point |-> home, required |-> {nodev}, forbidden |-> {}]}

MCMounts ==
    {(data :> o) @@ (home :> {}) : o \in {None, {exec}, {nodev}}}

Symmetry == Permutations(Processes)
=============================================================================
