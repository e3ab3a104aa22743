------------------------------ MODULE Versions ------------------------------
(***************************************************************************)
(* VersionCompare (lib/procedures/PackageInstalled.cpp).  A version is cut *)
(* into an epoch, a version and a release, and each of them into runs of   *)
(* digits and of other characters.  A run of digits is its number: leading *)
(* zeroes are dropped, and a longer one is greater.  Another run stands    *)
(* for its place in the order of strings.                                  *)
(***************************************************************************)
EXTENDS Integers, Sequences

Part == [digits : BOOLEAN, rank : Nat]
Version == [1..3 -> Seq(Part)]

\* The least element of a set of positions.
First(S) == CHOOSE i \in S : \A j \in S : i <= j

\* A number comes after any other run.
ComparePart(a, b) ==
    CASE a.digits = b.digits /\ a.rank = b.rank -> 0
      [] a.digits = b.digits /\ a.rank < b.rank -> -1
      [] a.digits = b.digits /\ a.rank > b.rank -> 1
      [] a.digits /\ ~b.digits -> 1
      [] ~a.digits /\ b.digits -> -1

\* Where two sequences of parts differ: in a part, or one of them has ended.
Differ(s, t) ==
    {i \in 1..(Len(s) + Len(t)) :
        IF i \in DOMAIN s /\ i \in DOMAIN t THEN s[i] # t[i]
        ELSE i \in DOMAIN s \/ i \in DOMAIN t}

CompareParts(s, t) ==
    IF Differ(s, t) = {} THEN 0
    ELSE LET i == First(Differ(s, t))
         IN CASE i \notin DOMAIN s -> -1
              [] i \notin DOMAIN t -> 1
              [] i \in DOMAIN s /\ i \in DOMAIN t -> ComparePart(s[i], t[i])

VersionCompare(v, w) ==
    LET unequal == {i \in 1..3 : CompareParts(v[i], w[i]) # 0}
    IN IF unequal = {} THEN 0 ELSE CompareParts(v[First(unequal)], w[First(unequal)])
=============================================================================
