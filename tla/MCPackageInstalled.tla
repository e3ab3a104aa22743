------------------------- MODULE MCPackageInstalled -------------------------
(***************************************************************************)
(* One package, absent, old or new, and rules that ask for it and for its  *)
(* new version.                                                            *)
(***************************************************************************)
EXTENDS PackageInstalled, TLC

CONSTANTS sudo, old, new

Number(n) == [digits |-> TRUE, rank |-> n]
Word(n) == [digits |-> FALSE, rank |-> n]
Numbers(v) == [i \in DOMAIN v |-> Number(v[i])]
V(epoch, version, release) == <<Numbers(epoch), Numbers(version), Numbers(release)>>

v9 == V(<<0>>, <<1, 9>>, <<1>>)
v10 == V(<<0>>, <<1, 10>>, <<1>>)

MCParts == (old :> v9) @@ (new :> v10)
MCInstallable == {(sudo :> v) : v \in {None, old, new}}
MCHosts == {[dpkg |-> (sudo :> new), rpm |-> (sudo :> None)]}
MCRequests == {[manager |-> m, package |-> sudo, min |-> new] : m \in {"autodetect", "dpkg"}}

Symmetry == Permutations(Processes)

\* Of the tests of VersionCompare: a number counts as a number, a longer
\* version is later, letters come before numbers, and the epoch decides.
ASSUME VersionExamples ==
    /\ VersionCompare(v10, v9) = 1 /\ VersionCompare(v9, v10) = -1
    /\ VersionCompare(V(<<0>>, <<1, 9, 1>>, <<1>>), v9) = 1
    /\ VersionCompare(V(<<1>>, <<1, 0>>, <<1>>), v10) = 1
    /\ VersionCompare(<<Numbers(<<0>>), <<Number(1), Word(2)>>, Numbers(<<0>>)>>, v10) = -1
    /\ VersionCompare(V(<<0>>, <<1>>, <<2>>), V(<<0>>, <<1>>, <<2>>)) = 0

=============================================================================
