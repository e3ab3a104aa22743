---------------------------- MODULE MCEvaluator ----------------------------
(***************************************************************************)
(* All rules of a given number of nodes.                                   *)
(***************************************************************************)
EXTENDS Evaluator

CONSTANT Size

\* Every tree shape, with a kind for every inner node and leaf; the entry of a
\* built-in procedure has an audit function, or both, or only a remediation.
Shapes == {p \in [1 .. Size -> 1 .. Size] : p[1] = 1 /\ \A n \in 2 .. Size : p[n] < n}

Inner(p) == {p[n] : n \in 2 .. Size}

\* In document order the parent of a node is on the path to the node before it.
InOrder(p) ==
    \A n \in 3 .. Size : \/ p[n] = n - 1
                         \/ \E a \in {n - 1, p[n - 1], p[p[n - 1]], p[p[p[n - 1]]]} : p[n] = p[a]

MCRules ==
    {r \in [nodes : {1 .. Size},
            parent : {p \in Shapes : InOrder(p)},
            kind : [1 .. Size -> Kind],
            fns : [1 .. Size -> {{}, {"audit"}, Function}]] :
        /\ \A n \in 1 .. Size :
              /\ n \in Inner(r.parent) => r.kind[n] \in {"anyOf", "allOf", "not"}
              /\ r.kind[n] # "builtin" => r.fns[n] = {}
              /\ r.kind[n] = "builtin" => r.fns[n] # {}
        /\ WellFormed(r)}

=============================================================================
