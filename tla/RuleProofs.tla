----------------------------- MODULE RuleProofs -----------------------------
(***************************************************************************)
(* Proofs about the evaluation of any set of well-formed rules, and about  *)
(* the procedure that a rule calls for mount options: any number of        *)
(* processes that remediate, any fstab and any requests.                   *)
(***************************************************************************)
EXTENDS Evaluator, MountOption, FiniteSetTheorems, SequenceTheorems, WellFoundedInduction,
        TLAPS

(***************************************************************************)
(* The inductive invariant: where a node may have got its action from,     *)
(* what may have been executed at a leaf, which nodes are open, and what   *)
(* the status of a node that is done says.                                 *)
(***************************************************************************)
Entered(n) == state[n] # "new"

HandedDown ==
    /\ Entered(1)
    /\ \A n \in Nodes : Entered(n) =>
          /\ act[n] = "Remediate" => action = "Remediate"
          /\ n # 1 => Entered(rule.parent[n])
          /\ n # 1 /\ act[n] = "Remediate" =>
                act[rule.parent[n]] = "Remediate" /\ rule.kind[rule.parent[n]] # "not"

Executed ==
    \A n \in Nodes : "remediate" \in called[n] =>
        Entered(n) /\ act[n] = "Remediate" /\ rule.kind[n] \in {"builtin", "Lua"}

\* The stack by numbers: the open nodes begin with the root, and the parent of an
\* open one is the last of the open ones before it.
OpenFromTheRoot ==
    /\ (phase = "done") <=> (state[1] # "open")
    /\ \A m \in Nodes \ {1} : state[m] = "open" =>
          /\ state[rule.parent[m]] = "open"
          /\ \A k \in Nodes : state[k] = "open" /\ k < m => k <= rule.parent[m]

\* The status of a node that is done is its meaning, whatever the leaves that were
\* not evaluated are.
DoneMeans ==
    \A value \in Meanings : Agrees(value) =>
        \A n \in Nodes : state[n] = "done" => value[n] = status[n]

-----------------------------------------------------------------------------
\* A step of EvaluateProcedure evaluates the node on top of the stack.  It enters
\* a new child, or returns a status, or changes no node.
LEMMA StepShape ==
    ASSUME TypeOK, NEW n \in Back, phase = "running",
           EvaluateList(n) \/ EvaluateNot(n) \/ EvaluateBuiltinProcedure(n) \/ EvaluateLua(n)
    PROVE  /\ rule' = rule
           /\ phase' \in {"running", "done", "error"}
           /\ \/ /\ Enter(n)
                 /\ rule.kind[n] \in {"anyOf", "allOf"} => ~Decided(n)
                 /\ called' = called
              \/ /\ \E s \in Status : Return(n, s)
                 /\ act' = act
              \/ UNCHANGED <<state, status, act>> /\ phase' # "done"
           /\ \/ called' = called
              \/ /\ \E f \in Function : called' = [called EXCEPT ![n] = @ \cup {f}]
                 /\ rule.kind[n] \in {"builtin", "Lua"}
                 /\ act' = act
           /\ "remediate" \in called'[n] => "remediate" \in called[n] \/ act[n] = "Remediate"
  <1>0. /\ n \in Nodes /\ called \in [Nodes -> SUBSET Function]
        /\ act \in [Nodes -> Action] /\ status \in [Nodes -> Status]
    BY DEF TypeOK, Back
  <1>1. CASE EvaluateList(n)
    <2>1. \A k : Decisive(k) \in Status /\ Neutral(k) \in Status
      BY DEF Decisive, Neutral, Status
    <2>2. Accumulated(n) \in Status
      BY <2>1 DEF Accumulated, Status
    <2>3. CASE ~Decided(n) /\ Enter(n)
      BY <1>1, <2>3 DEF Enter
    <2>4. CASE \E s \in Status : Return(n, s) /\ UNCHANGED <<rule, act, called>>
      BY <2>4 DEF Return
    <2> QED
      BY <1>1, <2>1, <2>2, <2>3, <2>4 DEF EvaluateList
  <1>2. CASE EvaluateNot(n)
    <2>1. CASE Enter(n)
      BY <1>2, <2>1 DEF Enter, EvaluateNot
    <2>2. ASSUME NEW m \in Done(n), Return(n, Negation(status[m])),
                 UNCHANGED <<rule, act, called>>
          PROVE  \E s \in Status : Return(n, s)
      <3>1. status[m] \in Status
        BY <1>0 DEF Done, Children
      <3>2. Negation(status[m]) \in Status
        BY <3>1 DEF Negation, Status
      <3> QED
        BY <2>2, <3>2
    <2> QED
      BY <1>2, <2>1, <2>2 DEF EvaluateNot, Return
  <1>3. ASSUME NEW f \in Function, Execute(n, f), rule.kind[n] = "builtin",
               f = "remediate" => act[n] = "Remediate"
        PROVE  /\ rule' = rule /\ act' = act
               /\ phase' \in {"running", "done", "error"}
               /\ (\E s \in Status : Return(n, s)) \/ (UNCHANGED <<state, status>> /\ phase' # "done")
               /\ called' = [called EXCEPT ![n] = @ \cup {f}]
               /\ "remediate" \in called'[n] => "remediate" \in called[n] \/ act[n] = "Remediate"
    BY <1>0, <1>3 DEF Execute, Return, Fail
  <1>4. CASE EvaluateBuiltinProcedure(n)
    <2>1. CASE Fail /\ UNCHANGED <<rule, act, called>>
      BY <2>1 DEF Fail
    <2>2. CASE \E f \in Function : Execute(n, f) /\ (f = "remediate" => act[n] = "Remediate")
      BY <1>3, <1>4, <2>2 DEF EvaluateBuiltinProcedure
    <2> QED
      BY <1>4, <2>1, <2>2 DEF EvaluateBuiltinProcedure, Function
  <1>5. CASE EvaluateLua(n)
    BY <1>0, <1>5 DEF EvaluateLua, LuaProcedureWrapper, Return, Fail, Status, Function
  <1> QED
    BY <1>1, <1>2, <1>4, <1>5

\* A step of the specification is a step of the node on top of the stack.
LEMMA NextShape ==
    ASSUME TypeOK, [Next]_vars
    PROVE  \/ UNCHANGED vars
           \/ \E n \in Back : /\ phase = "running"
                             /\ \/ EvaluateList(n) \/ EvaluateNot(n)
                                \/ EvaluateBuiltinProcedure(n) \/ EvaluateLua(n)
  BY DEF Next, EvaluateProcedure, Finished

LEMMA RuleShape ==
    ASSUME TypeOK
    PROVE  WellFormed(rule) /\ Nodes = rule.nodes
  BY RulesAssumption DEF TypeOK, Nodes

-----------------------------------------------------------------------------
LEMMA TypeStep == TypeOK /\ [Next]_vars => TypeOK'
  <1> SUFFICES ASSUME TypeOK, [Next]_vars
               PROVE  TypeOK'
    OBVIOUS
  <1>1. CASE UNCHANGED vars
    BY <1>1 DEF vars, TypeOK, Nodes
  <1>2. ASSUME NEW n \in Back, phase = "running",
               EvaluateList(n) \/ EvaluateNot(n) \/ EvaluateBuiltinProcedure(n) \/ EvaluateLua(n)
        PROVE  TypeOK'
    <2>0. /\ n \in Nodes /\ Nodes' = Nodes /\ rule' \in Rules
          /\ phase' \in {"running", "done", "error"}
      BY <1>2, StepShape DEF TypeOK, Back, Nodes
    <2>1. state' \in [Nodes -> {"new", "open", "done"}] /\ status' \in [Nodes -> Status]
      <3>1. CASE Enter(n)
        BY <3>1 DEF Enter, Children, TypeOK
      <3>2. CASE \E s \in Status : Return(n, s)
        BY <3>2 DEF Return, TypeOK
      <3> QED
        BY <1>2, <3>1, <3>2, StepShape DEF TypeOK
    <2>2. act' \in [Nodes -> Action]
      <3>1. CASE Enter(n)
        BY <2>0, <3>1 DEF Enter, Children, TypeOK, Action
      <3> QED
        BY <1>2, <3>1, StepShape DEF TypeOK
    <2>3. called' \in [Nodes -> SUBSET Function]
      BY <1>2, <2>0, StepShape DEF TypeOK
    <2> QED
      BY <2>0, <2>1, <2>2, <2>3 DEF TypeOK
  <1> QED
    BY <1>1, <1>2, NextShape

LEMMA HandedDownStep == TypeOK /\ HandedDown /\ [Next]_vars => HandedDown'
  <1> SUFFICES ASSUME TypeOK, HandedDown, [Next]_vars
               PROVE  HandedDown'
    OBVIOUS
  <1>1. CASE UNCHANGED vars
    BY <1>1 DEF vars, HandedDown, Entered, Nodes, action
  <1>2. ASSUME NEW n \in Back, phase = "running",
               EvaluateList(n) \/ EvaluateNot(n) \/ EvaluateBuiltinProcedure(n) \/ EvaluateLua(n)
        PROVE  HandedDown'
    <2>0. /\ n \in Nodes /\ state[n] = "open" /\ rule' = rule /\ Nodes' = Nodes /\ 1 \in Nodes
          /\ state \in [Nodes -> {"new", "open", "done"}] /\ act \in [Nodes -> Action]
          /\ \A k \in Nodes : rule.parent[k] \in Nodes
      BY <1>2, StepShape, RuleShape DEF TypeOK, Back, Nodes, WellFormed
    <2>1. CASE Enter(n)
      <3>1. PICK m \in Children(n) :
               /\ state[m] = "new"
               /\ state' = [state EXCEPT ![m] = "open"]
               /\ act' = [act EXCEPT ![m] = IF rule.kind[n] = "not" THEN "Audit" ELSE act[n]]
        BY <2>1 DEF Enter
      <3>2. m \in Nodes \ {1} /\ rule.parent[m] = n
        BY <3>1 DEF Children
      <3>3. \A k \in Nodes \ {m} : state'[k] = state[k] /\ act'[k] = act[k]
        BY <2>0, <3>1
      <3>4. state'[m] = "open" /\ (act'[m] = "Remediate" => act[n] = "Remediate" /\ rule.kind[n] # "not")
        BY <2>0, <3>1, <3>2
      <3>5. Entered(1)' /\ action' = action
        BY <2>0, <3>2, <3>3 DEF HandedDown, Entered, action
      <3>6. ASSUME NEW k \in Nodes \ {m}, Entered(k)'
            PROVE  HandedDown!2!(k)'
        <4>1. Entered(k) /\ act'[k] = act[k]
          BY <3>3, <3>6 DEF Entered
        <4>2. k # 1 => rule.parent[k] \in Nodes \ {m}
          BY <2>0, <3>1, <4>1 DEF HandedDown, Entered
        <4> QED
          BY <2>0, <3>3, <3>5, <4>1, <4>2 DEF HandedDown, Entered
      <3>7. HandedDown!2!(m)'
        BY <2>0, <3>2, <3>3, <3>4, <3>5 DEF HandedDown, Entered
      <3> QED
        BY <2>0, <3>5, <3>6, <3>7 DEF HandedDown
    <2>2. CASE \E s \in Status : Return(n, s) /\ act' = act
      <3>1. \A k \in Nodes : Entered(k)' <=> Entered(k)
        BY <2>0, <2>2 DEF Return, Entered
      <3> QED
        BY <2>0, <2>2, <3>1 DEF HandedDown, action
    <2>3. CASE UNCHANGED <<state, status, act>>
      BY <2>0, <2>3 DEF HandedDown, Entered, action
    <2> QED
      BY <1>2, <2>1, <2>2, <2>3, StepShape
  <1> QED
    BY <1>1, <1>2, NextShape

LEMMA ExecutedStep == TypeOK /\ Executed /\ [Next]_vars => Executed'
  <1> SUFFICES ASSUME TypeOK, Executed, [Next]_vars
               PROVE  Executed'
    OBVIOUS
  <1>1. CASE UNCHANGED vars
    BY <1>1 DEF vars, Executed, Entered, Nodes
  <1>2. ASSUME NEW n \in Back, phase = "running",
               EvaluateList(n) \/ EvaluateNot(n) \/ EvaluateBuiltinProcedure(n) \/ EvaluateLua(n)
        PROVE  Executed'
    <2>0. /\ n \in Nodes /\ state[n] = "open" /\ rule' = rule /\ Nodes' = Nodes
          /\ state \in [Nodes -> {"new", "open", "done"}] /\ act \in [Nodes -> Action]
          /\ called \in [Nodes -> SUBSET Function]
      BY <1>2, StepShape DEF TypeOK, Back, Nodes
    <2>1. ASSUME NEW k \in Nodes, Entered(k)
          PROVE  Entered(k)' /\ act'[k] = act[k]
      <3>1. CASE Enter(n)
        BY <2>0, <2>1, <3>1 DEF Enter, Children, Entered
      <3>2. CASE \E s \in Status : Return(n, s) /\ act' = act
        BY <2>0, <2>1, <3>2 DEF Return, Entered
      <3> QED
        BY <1>2, <2>1, <3>1, <3>2, StepShape DEF Entered
    <2>2. ASSUME NEW k \in Nodes, "remediate" \in called'[k]
          PROVE  Entered(k) /\ act[k] = "Remediate" /\ rule.kind[k] \in {"builtin", "Lua"}
      <3>1. CASE "remediate" \in called[k]
        BY <3>1 DEF Executed
      <3>2. CASE "remediate" \notin called[k]
        <4>1. k = n /\ rule.kind[n] \in {"builtin", "Lua"}
          BY <1>2, <2>0, <2>2, <3>2, StepShape
        <4>2. act[n] = "Remediate"
          BY <1>2, <2>2, <3>2, <4>1, StepShape
        <4> QED
          BY <2>0, <4>1, <4>2 DEF Entered
      <3> QED
        BY <3>1, <3>2
    <2> QED
      BY <2>0, <2>1, <2>2 DEF Executed
  <1> QED
    BY <1>1, <1>2, NextShape

LEMMA LastDecidesStep == TypeOK /\ LastDecides /\ [Next]_vars => LastDecides'
  <1> SUFFICES ASSUME TypeOK, LastDecides, [Next]_vars
               PROVE  LastDecides'
    OBVIOUS
  <1>1. CASE UNCHANGED vars
    BY <1>1 DEF vars, LastDecides, Children, Nodes, Decisive
  <1>2. ASSUME NEW n \in Back, phase = "running",
               EvaluateList(n) \/ EvaluateNot(n) \/ EvaluateBuiltinProcedure(n) \/ EvaluateLua(n)
        PROVE  LastDecides'
    <2>0. /\ n \in Nodes /\ state[n] = "open" /\ rule' = rule /\ Nodes' = Nodes
          /\ Nodes \subseteq Nat
          /\ \A k \in Nodes : Children(k)' = Children(k) /\ Children(k) \subseteq Nodes
          /\ state \in [Nodes -> {"new", "open", "done"}] /\ status \in [Nodes -> Status]
          /\ \A m \in Children(n) : state[m] # "open"
      BY <1>2, StepShape, RuleShape DEF TypeOK, Back, Nodes, Children, WellFormed
    <2>1. CASE Enter(n) /\ (rule.kind[n] \in {"anyOf", "allOf"} => ~Decided(n))
      <3>1. PICK m \in Children(n) :
               /\ state[m] = "new"
               /\ \A k \in Children(n) : k < m => state[k] # "new"
               /\ state' = [state EXCEPT ![m] = "open"]
               /\ status' = status
        BY <2>1 DEF Enter
      <3>2. ASSUME NEW p \in Nodes, rule.kind[p] \in {"anyOf", "allOf"}, NEW k \in Children(p),
                   NEW l \in Children(p), l > k, state'[l] # "new"
            PROVE  state'[k] = "done" /\ status'[k] # Decisive(rule.kind[p])
        <4>1. CASE l # m
          BY <2>0, <3>1, <3>2, <4>1 DEF LastDecides
        <4>2. CASE l = m
          <5>1. p = n
            BY <3>1, <3>2, <4>2 DEF Children
          <5>2. state[k] = "done"
            BY <2>0, <3>1, <3>2, <4>2, <5>1
          <5>3. status[k] # Decisive(rule.kind[n])
            BY <2>1, <3>2, <5>1, <5>2 DEF Decided, Done
          <5> QED
            BY <2>0, <3>1, <3>2, <4>2, <5>1, <5>2, <5>3
        <4> QED
          BY <4>1, <4>2
      <3> QED
        BY <2>0, <3>2 DEF LastDecides, Decisive
    <2>2. CASE \E s \in Status : Return(n, s)
      <3>1. \A k \in Nodes \ {n} : state'[k] = state[k] /\ status'[k] = status[k]
        BY <2>0, <2>2 DEF Return
      <3>2. state'[n] = "done"
        BY <2>0, <2>2 DEF Return
      <3>3. ASSUME NEW p \in Nodes, rule.kind[p] \in {"anyOf", "allOf"}, NEW k \in Children(p),
                   NEW l \in Children(p), l > k, state'[l] # "new"
            PROVE  state'[k] = "done" /\ status'[k] # Decisive(rule.kind[p])
        <4>1. state[l] # "new"
          BY <2>0, <3>1, <3>3
        <4>2. state[k] = "done" /\ status[k] # Decisive(rule.kind[p])
          BY <3>3, <4>1 DEF LastDecides
        <4> QED
          BY <2>0, <3>1, <3>3, <4>2
      <3> QED
        BY <2>0, <3>3 DEF LastDecides, Decisive
    <2>3. CASE UNCHANGED <<state, status, act>>
      BY <2>0, <2>3 DEF LastDecides, Decisive
    <2> QED
      BY <1>2, <2>1, <2>2, <2>3, StepShape
  <1> QED
    BY <1>1, <1>2, NextShape

\* A set of naturals has a least one.
LEMMA Least ==
    ASSUME NEW S, S \subseteq Nat, S # {}
    PROVE  \E x \in S : \A y \in S : x <= y
  <1>1. PICK x \in S : \A y \in S : ~ (<<y, x>> \in OpToRel(<, Nat))
    BY NatLessThanWellFounded, WFMin
  <1>2. \A y \in S : y < x => <<y, x>> \in OpToRel(<, Nat)
    BY DEF OpToRel
  <1>3. \A y \in S : ~ (y < x)
    BY <1>1, <1>2
  <1>4. \A y \in S : x <= y
    BY ONLY <1>3, S \subseteq Nat, x \in S
  <1> QED
    BY <1>4

\* A node without an open child is the last of the open nodes.
LEMMA StackTop ==
    ASSUME TypeOK, OpenFromTheRoot, NEW n \in Back
    PROVE  \A k \in Nodes : state[k] = "open" => k <= n
  <1> SUFFICES ASSUME NEW l \in Nodes, state[l] = "open", ~ (l <= n)
               PROVE  FALSE
    OBVIOUS
  <1>0. /\ Nodes \subseteq Nat \ {0} /\ n \in Nodes /\ state[n] = "open"
        /\ \A m \in Nodes \ {1} : rule.parent[m] \in Nodes /\ rule.parent[m] < m
    BY RuleShape DEF WellFormed, Back
  <1>1. PICK Above : Above = {k \in Nodes : state[k] = "open" /\ n < k}
    OBVIOUS
  <1>2. Above \subseteq Nat /\ Above # {}
    <2>1. l \in Nat /\ n \in Nat
      BY <1>0
    <2>2. n < l
      BY <2>1
    <2> QED
      BY <1>0, <1>1, <2>2
  <1>3. PICK k \in Above : \A m \in Above : k <= m
    BY ONLY <1>2, Least
  <1>4. k \in Nodes \ {1} /\ state[k] = "open" /\ n < k
    BY <1>0, <1>1, <1>3
  <1>5. state[rule.parent[k]] = "open" /\ n <= rule.parent[k]
    BY <1>0, <1>4 DEF OpenFromTheRoot
  <1>6. rule.parent[k] = n
    <2>1. rule.parent[k] \notin Above
      <3>1. rule.parent[k] < k /\ rule.parent[k] \in Nat /\ k \in Nat
        BY <1>0, <1>4
      <3>2. ~ (k <= rule.parent[k])
        BY <3>1
      <3> QED
        BY <1>3, <3>2
    <2>2. rule.parent[k] \in Nodes /\ ~ (n < rule.parent[k])
      BY <1>0, <1>1, <1>4, <1>5, <2>1
    <2>3. rule.parent[k] \in Nat /\ n \in Nat
      BY <1>0, <2>2
    <2> QED
      BY <1>5, <2>2, <2>3
  <1> QED
    BY <1>4, <1>6 DEF Back, Children

\* EvaluateProcedure pushes a child of the node on top, and pops the node on top
\* itself, so the open nodes stay a path from the root.
LEMMA OpenFromTheRootStep == TypeOK /\ HandedDown /\ OpenFromTheRoot /\ [Next]_vars
                            => OpenFromTheRoot'
  <1> SUFFICES ASSUME TypeOK, HandedDown, OpenFromTheRoot, [Next]_vars
               PROVE  OpenFromTheRoot'
    OBVIOUS
  <1>1. CASE UNCHANGED vars
    BY <1>1 DEF vars, OpenFromTheRoot, Nodes
  <1>2. ASSUME NEW n \in Back, phase = "running",
               EvaluateList(n) \/ EvaluateNot(n) \/ EvaluateBuiltinProcedure(n) \/ EvaluateLua(n)
        PROVE  OpenFromTheRoot'
    <2>0. /\ n \in Nodes /\ state[n] = "open" /\ rule' = rule /\ Nodes' = Nodes
          /\ Nodes \subseteq Nat /\ 1 \in Nodes
          /\ state \in [Nodes -> {"new", "open", "done"}]
          /\ \A m \in Nodes \ {1} : rule.parent[m] \in Nodes /\ rule.parent[m] < m
          /\ \A m \in Children(n) : state[m] # "open"
          /\ phase' \in {"running", "done", "error"}
      BY <1>2, StepShape, RuleShape DEF TypeOK, Back, Nodes, WellFormed
    <2>1. state[1] = "open"
      BY <1>2 DEF OpenFromTheRoot
    <2>2. CASE Enter(n)
      <3>1. PICK m \in Children(n) :
               state[m] = "new" /\ state' = [state EXCEPT ![m] = "open"] /\ phase' = phase
        BY <2>2 DEF Enter
      <3>2. m \in Nodes \ {1} /\ rule.parent[m] = n
        BY <3>1 DEF Children
      <3>3. state'[m] = "open" /\ \A k \in Nodes \ {m} : state'[k] = state[k]
        BY <2>0, <3>1, <3>2
      <3>4. (phase = "done")' <=> (state[1] # "open")'
        BY <1>2, <2>0, <2>1, <3>1, <3>2, <3>3
      <3>5. \A k \in Nodes : state[k] = "open" => k <= n
        BY <2>0, StackTop
      <3>6. ASSUME NEW l \in Nodes \ {1}, state'[l] = "open"
            PROVE  /\ state'[rule.parent[l]] = "open"
                   /\ \A k \in Nodes : state'[k] = "open" /\ k < l => k <= rule.parent[l]
        <4>1. CASE l = m
          BY <2>0, <3>1, <3>2, <3>3, <3>5, <4>1
        <4>2. CASE l # m
          <5>1. state[l] = "open" /\ l <= n
            BY <3>3, <3>5, <3>6, <4>2
          <5>2. n < m /\ m \in Nat /\ n \in Nat /\ l \in Nat
            BY <2>0, <3>2
          <5>3. state[rule.parent[l]] = "open"
            BY <5>1 DEF OpenFromTheRoot
          <5>4. rule.parent[l] \in Nodes \ {m}
            BY <2>0, <3>1, <5>3
          <5>5. ASSUME NEW k \in Nodes, state'[k] = "open", k < l
                PROVE  k <= rule.parent[l]
            <6>1. k # m
              BY <5>1, <5>2, <5>5
            <6> QED
              BY <3>3, <5>1, <5>5, <6>1 DEF OpenFromTheRoot
          <5> QED
            BY <3>3, <5>3, <5>4, <5>5
        <4> QED
          BY <4>1, <4>2
      <3> QED
        BY <2>0, <3>4, <3>6 DEF OpenFromTheRoot
    <2>3. CASE \E s \in Status : Return(n, s)
      <3>1. /\ state'[n] = "done" /\ \A k \in Nodes \ {n} : state'[k] = state[k]
            /\ phase' = IF n = 1 THEN "done" ELSE phase
        BY <2>0, <2>3 DEF Return
      <3>2. (phase = "done")' <=> (state[1] # "open")'
        BY <1>2, <2>0, <2>1, <3>1
      <3>3. ASSUME NEW l \in Nodes \ {1}, state'[l] = "open"
            PROVE  /\ state'[rule.parent[l]] = "open"
                   /\ \A k \in Nodes : state'[k] = "open" /\ k < l => k <= rule.parent[l]
        <4>1. l # n /\ state[l] = "open"
          BY <3>1, <3>3
        <4>2. state[rule.parent[l]] = "open" /\ rule.parent[l] \in Nodes
          BY <2>0, <4>1 DEF OpenFromTheRoot
        <4>3. rule.parent[l] # n
          BY <2>0, <4>1 DEF Children
        <4>4. \A k \in Nodes : state'[k] = "open" => state[k] = "open"
          BY <3>1
        <4> QED
          BY <3>1, <4>1, <4>2, <4>3, <4>4 DEF OpenFromTheRoot
      <3> QED
        BY <2>0, <3>2, <3>3 DEF OpenFromTheRoot
    <2>4. CASE UNCHANGED <<state, status, act>> /\ phase' # "done"
      BY <1>2, <2>0, <2>1, <2>4 DEF OpenFromTheRoot
    <2> QED
      BY <1>2, <2>2, <2>3, <2>4, StepShape
  <1> QED
    BY <1>1, <1>2, NextShape

\* A list returns what decides it, or what the children that were all evaluated
\* amount to.
LEMMA ListReturnsMeaning ==
    ASSUME TypeOK, DoneMeans, NEW n \in Back, EvaluateList(n), NEW s \in Status, Return(n, s),
           NEW value \in Meanings, Agrees(value)
    PROVE  value[n] = s
  <1>0. /\ n \in Nodes /\ state[n] = "open" /\ Children(n) \subseteq Nodes
        /\ state \in [Nodes -> {"new", "open", "done"}] /\ status \in [Nodes -> Status]
        /\ state' = [state EXCEPT ![n] = "done"] /\ status' = [status EXCEPT ![n] = s]
    BY DEF TypeOK, Back, Children, Return
  <1>1. state'[n] = "done" /\ status'[n] = s
    BY <1>0
  <1>2. ~Enter(n)
    BY <1>0, <1>1 DEF Enter
  <1>3. \A m \in Done(n) : m \in Children(n) /\ value[m] = status[m] /\ status[m] \in Status
    BY <1>0 DEF Done, DoneMeans
  <1>4. PICK below : below = {value[m] : m \in Children(n)}
    OBVIOUS
  <1>5. /\ rule.kind[n] = "anyOf" =>
             value[n] = IF "Compliant" \in below THEN "Compliant"
                        ELSE IF "NotApplicable" \in below THEN "NotApplicable" ELSE "NonCompliant"
        /\ rule.kind[n] = "allOf" =>
             value[n] = IF "NonCompliant" \in below THEN "NonCompliant"
                        ELSE IF "NotApplicable" \in below THEN "NotApplicable" ELSE "Compliant"
    BY <1>0, <1>4 DEF Meanings
  <1>6. rule.kind[n] \in {"anyOf", "allOf"}
    BY DEF EvaluateList
  <1>7. CASE Decided(n)
    <2>1. s = Decisive(rule.kind[n])
      BY <1>0, <1>1, <1>2, <1>7 DEF EvaluateList, Return
    <2>2. s \in below
      BY <1>3, <1>4, <1>7, <2>1 DEF Decided
    <2> QED
      BY <1>5, <1>6, <2>1, <2>2 DEF Decisive
  <1>8. CASE ~Decided(n)
    <2>1. Done(n) = Children(n) /\ s = Accumulated(n)
      BY <1>0, <1>1, <1>2, <1>8 DEF EvaluateList, Return
    <2>2. Decisive(rule.kind[n]) \notin below
      BY <1>3, <1>4, <1>8, <2>1 DEF Decided
    <2>3. "NotApplicable" \in below <=> \E m \in Done(n) : status[m] = "NotApplicable"
      BY <1>3, <1>4, <2>1
    <2> QED
      BY <1>5, <1>6, <2>1, <2>2, <2>3 DEF Decisive, Neutral, Accumulated
  <1> QED
    BY <1>7, <1>8

\* A not has one child, and returns the negation of its status.
LEMMA NotReturnsMeaning ==
    ASSUME TypeOK, DoneMeans, NEW n \in Back, EvaluateNot(n), NEW s \in Status, Return(n, s),
           NEW value \in Meanings, Agrees(value)
    PROVE  value[n] = s
  <1>0. /\ n \in Nodes /\ state[n] = "open" /\ Children(n) \subseteq Nodes
        /\ state \in [Nodes -> {"new", "open", "done"}] /\ status \in [Nodes -> Status]
        /\ state' = [state EXCEPT ![n] = "done"] /\ status' = [status EXCEPT ![n] = s]
    BY DEF TypeOK, Back, Children, Return
  <1>1. state'[n] = "done" /\ status'[n] = s
    BY <1>0
  <1>2. ~Enter(n)
    BY <1>0, <1>1 DEF Enter
  <1>3. PICK m \in Done(n) : Return(n, Negation(status[m]))
    BY <1>2 DEF EvaluateNot
  <1>4. s = Negation(status[m])
    BY <1>0, <1>1, <1>3 DEF Return
  <1>5. m \in Children(n) /\ value[m] = status[m]
    BY <1>0, <1>3 DEF Done, DoneMeans
  <1>6. PICK below : below = {value[k] : k \in Children(n)}
    OBVIOUS
  <1>7. \A v \in below : value[n] = Negation(v)
    BY <1>0, <1>6 DEF Meanings, EvaluateNot
  <1> QED
    BY <1>4, <1>5, <1>6, <1>7

LEMMA DoneMeansStep == TypeOK /\ DoneMeans /\ [Next]_vars => DoneMeans'
  <1> SUFFICES ASSUME TypeOK, DoneMeans, [Next]_vars
               PROVE  DoneMeans'
    OBVIOUS
  <1>1. CASE UNCHANGED vars
    <2>1. Nodes' = Nodes /\ Leaves' = Leaves /\ Meanings' = Meanings
      BY <1>1 DEF vars, Nodes, Leaves, Meanings, Children
    <2> QED
      BY <1>1, <2>1 DEF vars, DoneMeans, Agrees
  <1>2. ASSUME NEW n \in Back, phase = "running",
               EvaluateList(n) \/ EvaluateNot(n) \/ EvaluateBuiltinProcedure(n) \/ EvaluateLua(n)
        PROVE  DoneMeans'
    <2>0. /\ n \in Nodes /\ state[n] = "open" /\ rule' = rule
          /\ state \in [Nodes -> {"new", "open", "done"}] /\ status \in [Nodes -> Status]
      BY <1>2, StepShape DEF TypeOK, Back
    <2>1. Nodes' = Nodes /\ Leaves' = Leaves /\ Meanings' = Meanings
      BY <2>0 DEF Nodes, Leaves, Meanings, Children
    <2>2. CASE Enter(n)
      <3>1. PICK m \in Children(n) :
               state[m] = "new" /\ state' = [state EXCEPT ![m] = "open"] /\ status' = status
        BY <2>2 DEF Enter
      <3>2. \A k \in Nodes : state'[k] = "done" <=> state[k] = "done"
        BY <2>0, <3>1 DEF Children
      <3>3. Leaves \subseteq Nodes
        BY DEF Leaves
      <3> QED
        BY <2>1, <3>1, <3>2, <3>3 DEF DoneMeans, Agrees
    <2>3. ASSUME NEW s \in Status, Return(n, s)
          PROVE  DoneMeans'
      <3>1. /\ state'[n] = "done" /\ status'[n] = s
            /\ \A k \in Nodes \ {n} : state'[k] = state[k] /\ status'[k] = status[k]
        BY <2>0, <2>3 DEF Return
      <3>2. Leaves \subseteq Nodes
        BY DEF Leaves
      <3>3. ASSUME NEW value \in Meanings, Agrees(value)'
            PROVE  \A k \in Nodes : state'[k] = "done" => value[k] = status'[k]
        <4>1. Agrees(value)
          BY <2>0, <2>1, <3>1, <3>2, <3>3 DEF Agrees
        <4>2. value[n] = s
          <5>1. CASE EvaluateList(n)
            BY <2>3, <4>1, <5>1, ListReturnsMeaning
          <5>2. CASE EvaluateNot(n)
            BY <2>3, <4>1, <5>2, NotReturnsMeaning
          <5>3. CASE EvaluateBuiltinProcedure(n) \/ EvaluateLua(n)
            <6>1. n \in Leaves
              BY <2>0, <5>3 DEF Leaves, EvaluateBuiltinProcedure, EvaluateLua
            <6> QED
              BY <2>1, <3>1, <3>3, <6>1 DEF Agrees
          <5> QED
            BY <1>2, <5>1, <5>2, <5>3
        <4> QED
          BY <3>1, <4>1, <4>2 DEF DoneMeans
      <3> QED
        BY <2>1, <3>3 DEF DoneMeans
    <2>4. CASE UNCHANGED <<state, status, act>>
      BY <2>1, <2>4 DEF DoneMeans, Agrees
    <2> QED
      BY <1>2, <2>2, <2>3, <2>4, StepShape
  <1> QED
    BY <1>1, <1>2, NextShape

-----------------------------------------------------------------------------
(***************************************************************************)
(* The theorems.                                                           *)
(***************************************************************************)

\* The nodes that remediate and are no not are closed under parent, so they hold
\* every node above a leaf at which a remediation function was executed.
LEMMA AskedAllTheWay ==
    ASSUME TypeOK, HandedDown, Executed
    PROVE  RemediatesOnlyWhenAsked
  <1> SUFFICES ASSUME NEW n \in Nodes, "remediate" \in called[n]
               PROVE  /\ action = "Remediate"
                      /\ \A a \in Path(n) : rule.kind[a] # "not"
    BY DEF RemediatesOnlyWhenAsked
  <1>1. Entered(n) /\ act[n] = "Remediate" /\ rule.kind[n] # "not"
    BY DEF Executed
  <1>2. action = "Remediate"
    BY <1>1 DEF HandedDown
  <1> DEFINE S == {m \in Nodes : Entered(m) /\ act[m] = "Remediate" /\ rule.kind[m] # "not"}
  <1>3. S \in SUBSET Nodes /\ n \in S
    BY <1>1
  <1>4. ASSUME NEW m \in S \ {1}
        PROVE  rule.parent[m] \in S
    <2>1. rule.parent[m] \in Nodes
      BY RuleShape DEF WellFormed
    <2> QED
      BY <2>1 DEF HandedDown
  <1>5. ASSUME NEW a \in Path(n)
        PROVE  a \in S
    BY <1>3, <1>4 DEF Path
  <1> QED
    BY <1>2, <1>5

\* So the node that is evaluated is one, and the stack is empty exactly when a
\* status was returned.
LEMMA StackOfPath ==
    ASSUME TypeOK, OpenFromTheRoot
    PROVE  StackIsPath
  <1>0. /\ Nodes \subseteq Nat \ {0} /\ 1 \in Nodes
        /\ \A m \in Nodes \ {1} : rule.parent[m] \in Nodes /\ rule.parent[m] < m
    BY RuleShape DEF WellFormed
  <1>1. (phase = "done") <=> \A n \in Nodes : state[n] # "open"
    <2>1. ASSUME NEW n \in Nodes, state[n] = "open", state[1] # "open"
          PROVE  FALSE
      <3>1. PICK Open : Open = {k \in Nodes : state[k] = "open"}
        OBVIOUS
      <3>2. Open \subseteq Nat /\ Open # {}
        BY <1>0, <2>1, <3>1
      <3>3. PICK k \in Open : \A m \in Open : k <= m
        BY ONLY <3>2, Least
      <3>4. k \in Nodes \ {1} /\ state[k] = "open"
        BY <2>1, <3>1, <3>3
      <3>5. rule.parent[k] \in Open
        BY <1>0, <3>1, <3>4 DEF OpenFromTheRoot
      <3>6. rule.parent[k] < k /\ rule.parent[k] \in Nat /\ k \in Nat
        BY <1>0, <3>2, <3>4, <3>5
      <3>7. k <= rule.parent[k]
        BY <3>3, <3>5
      <3> QED
        BY <3>6, <3>7
    <2> QED
      BY <1>0, <2>1 DEF OpenFromTheRoot
  <1>2. ASSUME NEW n \in Nodes, state[n] = "open", NEW a \in Path(n)
        PROVE  state[a] = "open"
    <2> DEFINE Open == {m \in Nodes : state[m] = "open"}
    <2>1. Open \in SUBSET Nodes /\ n \in Open
      BY <1>2
    <2>2. \A m \in Open \ {1} : rule.parent[m] \in Open
      BY <1>0 DEF OpenFromTheRoot
    <2>3. a \in Open
      BY <1>2, <2>1, <2>2 DEF Path
    <2> QED
      BY <2>3
  <1>3. Cardinality(Back) <= 1
    <2>1. ASSUME NEW n \in Back, NEW m \in Back
          PROVE  n = m
      <3>1. n \in Nodes /\ m \in Nodes /\ state[n] = "open" /\ state[m] = "open"
        BY DEF Back
      <3>2. n <= m /\ m <= n
        BY <3>1, StackTop
      <3>3. n \in Nat /\ m \in Nat
        BY <1>0, <3>1
      <3> QED
        BY <3>2, <3>3
    <2>2. CASE Back = {}
      BY <2>2, FS_EmptySet
    <2>3. ASSUME NEW n \in Back
          PROVE  Cardinality(Back) <= 1
      <3>1. Back = {n}
        BY <2>1
      <3>2. Cardinality({n}) = 1
        BY FS_Singleton
      <3> QED
        BY <3>1, <3>2
    <2> QED
      BY <2>2, <2>3
  <1> QED
    BY <1>1, <1>2, <1>3 DEF StackIsPath

\* So it is the meaning of the rule that is returned.
LEMMA ReturnsMeaning ==
    ASSUME TypeOK, HandedDown, OpenFromTheRoot, DoneMeans
    PROVE  SkippedLeavesDoNotMatter
  <1> SUFFICES ASSUME phase = "done", NEW value \in Meanings, Agrees(value)
               PROVE  value[1] = status[1]
    BY DEF SkippedLeavesDoNotMatter
  <1>1. 1 \in Nodes /\ state[1] \in {"new", "open", "done"}
    BY RuleShape DEF WellFormed, TypeOK
  <1>2. state[1] = "done"
    BY <1>1 DEF OpenFromTheRoot, HandedDown, Entered
  <1> QED
    BY <1>1, <1>2 DEF DoneMeans

IInv == TypeOK /\ HandedDown /\ Executed /\ LastDecides /\ OpenFromTheRoot /\ DoneMeans

LEMMA Inductive == Spec => []IInv
  <1>1. Init => IInv
    <2> SUFFICES ASSUME Init
                 PROVE  IInv
      OBVIOUS
    <2>1. rule \in Rules /\ WellFormed(rule) /\ 1 \in Nodes
      BY RulesAssumption DEF Init, WellFormed, Nodes
    <2>2. TypeOK
      BY <2>1 DEF Init, TypeOK, Status
    <2>3. \A n \in Nodes : Entered(n) <=> n = 1
      BY DEF Init, Entered
    <2>4. HandedDown /\ Executed /\ LastDecides
      BY <2>1, <2>3 DEF Init, HandedDown, Executed, LastDecides, action, Children, WellFormed, Nodes,
         Entered
    <2>5. OpenFromTheRoot /\ DoneMeans
      BY <2>1 DEF Init, OpenFromTheRoot, DoneMeans
    <2> QED
      BY <2>2, <2>4, <2>5 DEF IInv
  <1>2. IInv /\ [Next]_vars => IInv'
    BY TypeStep, HandedDownStep, ExecutedStep, LastDecidesStep, OpenFromTheRootStep, DoneMeansStep
    DEF IInv
  <1> QED
    BY <1>1, <1>2, PTL DEF Spec

\* Every variable of the evaluation keeps its type (Evaluator.cpp).
THEOREM TypeCorrect == Spec => []TypeOK
  BY Inductive, PTL DEF IInv

\* EvaluateBuiltinProcedure and LuaProcedureWrapper execute a remediation
\* function only in a remediation and never below a not, for rules of any size.
THEOREM RemediatesOnlyWhenAskedCorrect == Spec => []RemediatesOnlyWhenAsked
  <1>1. IInv => RemediatesOnlyWhenAsked
    BY AskedAllTheWay DEF IInv
  <1> QED
    BY <1>1, Inductive, PTL

\* EvaluateList stops at the child that decides it, so the assertion of
\* NestedListFormatter holds for rules of any size.
THEOREM LastDecidesCorrect == Spec => []LastDecides
  BY Inductive, PTL DEF IInv

\* EvaluateProcedure pushes and pops its indicators as a stack: one node is being
\* evaluated, all nodes above it are open, and none is left when a status is
\* returned, for rules of any size.
THEOREM StackIsPathCorrect == Spec => []StackIsPath
  <1>1. IInv => StackIsPath
    BY StackOfPath DEF IInv
  <1> QED
    BY <1>1, Inductive, PTL

\* What EvaluateProcedure returns is the three-valued meaning of the rule, whatever
\* the leaves would have been at which EvaluateList did not look.
THEOREM SkippedLeavesDoNotMatterCorrect == Spec => []SkippedLeavesDoNotMatter
  <1>1. IInv => SkippedLeavesDoNotMatter
    BY ReturnsMeaning DEF IInv
  <1> QED
    BY <1>1, Inductive, PTL

-----------------------------------------------------------------------------
(***************************************************************************)
(* Lemmas about the text of fstab.                                         *)
(***************************************************************************)

\* A set of naturals with a bound has a greatest one.
LEMMA Greatest ==
    ASSUME NEW S, NEW n \in Nat, S \subseteq 1..n, S # {}
    PROVE  \E x \in S : \A y \in S : y <= x
  <1>1. PICK Bounds : Bounds = {m \in Nat : \A y \in S : y <= m}
    OBVIOUS
  <1>2. n \in Bounds /\ Bounds \subseteq Nat
    BY <1>1
  <1>3. PICK m \in Bounds : \A b \in Bounds : m <= b
    BY ONLY <1>2, Least
  <1>4. m \in Nat /\ \A y \in S : y <= m
    BY <1>1, <1>3
  <1>5. m \in S
    <2> SUFFICES ASSUME m \notin S PROVE FALSE
      OBVIOUS
    <2>0. \A y \in S : y \in Nat /\ 1 <= y /\ y <= m /\ y # m
      BY <1>4
    <2>1. \A y \in S : y <= m - 1
      <3> TAKE y \in S
      <3>1. y \in Nat /\ y <= m /\ y # m /\ m \in Nat
        BY <1>4, <2>0
      <3> QED
        BY ONLY <3>1
    <2>2. m - 1 \in Nat
      <3>1. \E y \in S : y \in Nat /\ 1 <= y /\ y <= m
        BY <2>0
      <3> QED
        BY ONLY <3>1, <1>4
    <2>3. m - 1 \in Bounds
      BY <1>1, <2>1, <2>2
    <2> QED
      BY <1>3, <1>4, <2>3
  <1> QED
    BY <1>4, <1>5

-----------------------------------------------------------------------------
(***************************************************************************)
(* The lines of a text.                                                    *)
(***************************************************************************)

\* The entries of a mount point are lines of the text.
LEMMA EntriesAreLines ==
    ASSUME NEW t \in Seq(Lines), NEW point, NEW k \in EntriesFor(t, point)
    PROVE  k \in 1..Len(t) /\ k \in Nat /\ t[k] \in Entries /\ t[k].point = point
  <1>1. k \in 1..Len(t) /\ IsEntry(t[k]) /\ t[k].point = point /\ t[k] \in Lines
    BY LenProperties DEF EntriesFor
  <1>2. Len(t) \in Nat
    BY LenProperties
  <1> QED
    BY <1>1, <1>2 DEF IsEntry, Lines

\* One entry is the last one of its mount point.
LEMMA LastEntryIsThere ==
    ASSUME NEW t \in Seq(Lines), NEW point, EntriesFor(t, point) # {}
    PROVE  LastEntry(t, point) \in EntriesFor(t, point)
  <1>1. EntriesFor(t, point) \subseteq 1..Len(t) /\ Len(t) \in Nat
    BY LenProperties DEF EntriesFor
  <1>2. \E k \in EntriesFor(t, point) : \A j \in EntriesFor(t, point) : j <= k
    BY <1>1, Greatest
  <1> QED
    BY <1>2 DEF LastEntry

\* The line number is a number.
LEMMA LineNumberType ==
    ASSUME NEW t, NEW k \in Nat
    PROVE  LineNumber(t, k) \in Nat
  <1>1. IsFiniteSet(1..k)
    BY FS_Interval
  <1>2. {j \in 1..k : ~InsideGetmntent(t, j)} \in SUBSET (1..k)
    OBVIOUS
  <1>3. IsFiniteSet({j \in 1..k : ~InsideGetmntent(t, j)})
    BY ONLY <1>1, <1>2, FS_Subset
  <1> QED
    BY <1>3, FS_CardinalityType DEF LineNumber

\* Without a comment that begins with white space the lines are counted right.
LEMMA LineNumberRight ==
    ASSUME NEW t \in Seq(Lines), ~HasIndented(t), NEW k \in DOMAIN t
    PROVE  LineNumber(t, k) = k
  <1>1. DOMAIN t = 1..Len(t) /\ Len(t) \in Nat /\ k \in Nat /\ 1 <= k /\ k <= Len(t)
    BY LenProperties
  <1>2. \A j \in 1..k : \A i \in 1..(j - 1) : i \in DOMAIN t
    BY <1>1
  <1>3. \A j \in 1..k : ~InsideGetmntent(t, j)
    BY <1>2 DEF InsideGetmntent, HasIndented
  <1>4. {j \in 1..k : ~InsideGetmntent(t, j)} = 1..k
    BY <1>3
  <1>5. Cardinality(1..k) = k
    <2>1. 1 \in Int /\ k \in Int /\ k - 1 + 1 = k /\ ~(1 > k)
      BY <1>1
    <2>2. Cardinality(1..k) = IF 1 > k THEN 0 ELSE k - 1 + 1
      BY ONLY <2>1, FS_Interval
    <2> QED
      BY <2>1, <2>2
  <1> QED
    BY <1>4, <1>5 DEF LineNumber

\* What is found out about a mount point.
LEMMA ParseFound ==
    ASSUME NEW t \in Seq(Lines), NEW point, EntriesFor(t, point) # {}
    PROVE  /\ ParseFstab(t, point) \in Parsed
           /\ t[LastEntry(t, point)].options \in SUBSET (Options \cup {Zero})
  <1>1. PICK k : k = LastEntry(t, point)
    OBVIOUS
  <1>2. k \in Nat /\ t[k] \in Entries
    BY <1>1, LastEntryIsThere, EntriesAreLines
  <1>3. LineNumber(t, k) \in Nat
    BY <1>2, LineNumberType
  <1>4. t[k].options \in SUBSET (Options \cup {Zero})
    BY <1>2 DEF Entries
  <1> QED
    BY <1>1, <1>3, <1>4 DEF ParseFstab, Parsed

LEMMA ParseType ==
    ASSUME NEW t \in Seq(Lines), NEW point
    PROVE  ParseFstab(t, point) \in {None} \cup Parsed
  BY ParseFound DEF ParseFstab

\* The changed options are options, and a request is of a mount point.
LEMMA ChangedType ==
    ASSUME NEW r \in Requests, NEW options \in SUBSET (Options \cup {Zero})
    PROVE  r.point \in Points /\ Changed(options, r) \in SUBSET (Options \cup {Zero})
  BY MountOptionAssumption DEF Changed

\* The changed text has the lines of the old one.
LEMMA RewrittenType ==
    ASSUME NEW t \in Seq(Lines), NEW e \in Parsed, NEW r \in Requests
    PROVE  Rewritten(t, e, r) \in Seq(Lines) /\ DOMAIN Rewritten(t, e, r) = DOMAIN t
  <1>1. DOMAIN t = 1..Len(t) /\ Len(t) \in Nat /\ \A k \in DOMAIN t : t[k] \in Lines
    BY LenProperties
  <1>2. PICK line : line = [point |-> r.point, options |-> Changed(e.options, r)]
    OBVIOUS
  <1>3. line \in Lines
    <2>1. e.options \in SUBSET (Options \cup {Zero})
      BY DEF Parsed
    <2>2. r.point \in Points /\ Changed(e.options, r) \in SUBSET (Options \cup {Zero})
      BY <2>1, ChangedType
    <2> QED
      BY <1>2, <2>2 DEF Lines, Entries
  <1>4. Rewritten(t, e, r) \in [1..Len(t) -> Lines]
    BY <1>1, <1>2, <1>3 DEF Rewritten, Lines
  <1> QED
    BY <1>1, <1>4, SeqDef

\* What is in a file after a write.
LEMMA OverType ==
    ASSUME NEW t \in Seq(Lines), NEW old \in Seq(Lines)
    PROVE  Over(t, old) \in Seq(Lines)
  <1>1. Len(t) \in Nat /\ Len(old) \in Nat
    BY LenProperties
  <1>2. \A i \in (Len(t) + 1)..Len(old) : i \in 1..Len(old)
    BY <1>1
  <1>3. \A i \in (Len(t) + 1)..Len(old) : old[i] \in Lines
    BY <1>2, ElementOfSeq
  <1>4. Len(t) + 1 \in Int /\ Len(old) \in Int
    BY <1>1
  <1>5. SubSeq(old, Len(t) + 1, Len(old)) \in Seq(Lines)
    BY <1>3, <1>4, SubSeqProperties
  <1> QED
    BY <1>5, ConcatProperties DEF Over

\* A file that was empty has what was written.
LEMMA OverEmpty ==
    ASSUME NEW t \in Seq(Lines)
    PROVE  Over(t, <<>>) = t
  <1>1. Len(t) + 1 \in Int /\ 0 \in Int /\ 0 < Len(t) + 1 /\ Len(<<>>) = 0
    BY LenProperties
  <1>2. SubSeq(<<>>, Len(t) + 1, Len(<<>>)) = <<>>
    BY <1>1, SubSeqEmpty
  <1> QED
    BY <1>2, ConcatEmptySeq DEF Over

\* The beginning of a text is a text.
LEMMA BeginningType ==
    ASSUME NEW t \in Seq(Lines), NEW n \in 0..(Len(t) - 1)
    PROVE  SubSeq(t, 1, n) \in Seq(Lines)
  <1>1. Len(t) \in Nat /\ n \in Int /\ \A i \in 1..n : i \in 1..Len(t)
    BY LenProperties
  <1>2. \A i \in 1..n : t[i] \in Lines
    BY <1>1, ElementOfSeq
  <1> QED
    BY <1>1, <1>2, SubSeqProperties

-----------------------------------------------------------------------------
(***************************************************************************)
(* What the changed text says of the mount point.                          *)
(***************************************************************************)

\* The changed options are as they were asked for.
LEMMA ChangedAsAsked ==
    ASSUME NEW r \in Requests, Sensible(r), NEW options
    PROVE  CheckOptions(Changed(options, r), r) /\ options \ r.forbidden \subseteq Changed(options, r)
  <1>1. Zero \notin r.forbidden
    BY MountOptionAssumption
  <1> QED
    BY <1>1 DEF Changed, CheckOptions, Sensible

\* The only entry of a mount point is the one that was read.
LEMMA OnlyEntry ==
    ASSUME NEW t \in Seq(Lines), NEW point, Once(t, point)
    PROVE  EntriesFor(t, point) = {LastEntry(t, point)}
  <1>1. EntriesFor(t, point) \in SUBSET (1..Len(t)) /\ Len(t) \in Nat
    BY LenProperties DEF EntriesFor
  <1>2. IsFiniteSet(1..Len(t))
    BY <1>1, FS_Interval
  <1>3. IsFiniteSet(EntriesFor(t, point))
    BY ONLY <1>1, <1>2, FS_Subset
  <1>4. PICK k : EntriesFor(t, point) = {k}
    BY <1>3, FS_Singleton DEF Once
  <1>5. LastEntry(t, point) \in EntriesFor(t, point)
    BY <1>4, LastEntryIsThere
  <1> QED
    BY <1>4, <1>5

\* A text that needed no change.
LEMMA UnchangedAsAsked ==
    ASSUME NEW t \in Seq(Lines), NEW r, Once(t, r.point),
           CheckOptions(ParseFstab(t, r.point).options, r)
    PROVE  OnlyEntryChanged(t, t, r)
  <1>1. PICK k : k = LastEntry(t, r.point)
    OBVIOUS
  <1>2. k \in EntriesFor(t, r.point) /\ EntriesFor(t, r.point) # {}
    BY <1>1, OnlyEntry
  <1>3. ParseFstab(t, r.point).options = t[k].options
    BY <1>1, <1>2 DEF ParseFstab
  <1>4. IsEntry(t[k]) /\ t[k].point = r.point
    BY <1>2 DEF EntriesFor
  <1> QED
    BY <1>2, <1>3, <1>4 DEF OnlyEntryChanged

\* A text that was changed.
LEMMA RewrittenAsAsked ==
    ASSUME NEW t \in Seq(Lines), NEW r \in Requests, Sensible(r), Once(t, r.point),
           ~HasIndented(t), ~NeverParsed(t)
    PROVE  OnlyEntryChanged(t, Rewritten(t, ParseFstab(t, r.point), r), r)
  <1>1. PICK k : k = LastEntry(t, r.point)
    OBVIOUS
  <1>2. k \in EntriesFor(t, r.point) /\ EntriesFor(t, r.point) # {} /\ k \in DOMAIN t
    BY <1>1, OnlyEntry DEF EntriesFor
  <1>3. PICK e : e = ParseFstab(t, r.point)
    OBVIOUS
  <1>4. e.lineno = k /\ e.options = t[k].options
    <2>1. LineNumber(t, k) = k
      BY <1>2, LineNumberRight
    <2> QED
      BY <1>1, <1>2, <1>3, <2>1 DEF ParseFstab
  <1>5. PICK new : new = Rewritten(t, e, r)
    OBVIOUS
  <1>6. DOMAIN new = DOMAIN t
    BY <1>5 DEF Rewritten
  <1>7. \A j \in DOMAIN t : t[j] # Unended
    <2>1. DOMAIN t = 1..Len(t) /\ Len(t) \in Nat
      BY LenProperties
    <2>2. \A j \in DOMAIN t : \A i \in 1..(j - 1) : i \in DOMAIN t
      BY <2>1
    <2>3. \A j \in DOMAIN t : ~InsideGetmntent(t, j)
      BY <2>2 DEF InsideGetmntent, HasIndented
    <2> QED
      BY <2>3 DEF NeverParsed
  <1>8. \A j \in DOMAIN t \ {k} : new[j] = t[j]
    BY <1>4, <1>5, <1>7 DEF Rewritten
  <1>9. new[k] = [point |-> r.point, options |-> Changed(t[k].options, r)]
    BY <1>2, <1>4, <1>5 DEF Rewritten
  <1>10. IsEntry(new[k])
    <2>1. t[k].options \in SUBSET (Options \cup {Zero})
      BY <1>2, EntriesAreLines DEF Entries
    <2>2. r.point \in Points /\ Changed(t[k].options, r) \in SUBSET (Options \cup {Zero})
      BY <2>1, ChangedType
    <2>3. new[k] \in Entries
      BY <1>9, <2>2 DEF Entries
    <2> QED
      BY <2>3, MountOptionAssumption DEF IsEntry
  <1>11. /\ CheckOptions(new[k].options, r)
         /\ t[k].options \ r.forbidden \subseteq new[k].options
         /\ new[k].point = r.point
    BY <1>9, ChangedAsAsked
  <1>12. OnlyEntryChanged(t, new, r)
    BY ONLY <1>2, <1>6, <1>8, <1>10, <1>11 DEF OnlyEntryChanged
  <1> QED
    BY <1>3, <1>5, <1>12

\* After such a change the point is mounted with the options asked for.
LEMMA MountedAsAsked ==
    ASSUME NEW old \in Seq(Lines), NEW new \in Seq(Lines), NEW r,
           Once(old, r.point), OnlyEntryChanged(old, new, r)
    PROVE  /\ EntriesFor(new, r.point) # {}
           /\ CheckOptions(new[LastEntry(new, r.point)].options, r)
  <1>1. PICK k \in EntriesFor(old, r.point) :
            /\ \A j \in DOMAIN old \ {k} : new[j] = old[j]
            /\ IsEntry(new[k]) /\ new[k].point = r.point /\ CheckOptions(new[k].options, r)
    BY DEF OnlyEntryChanged
  <1>2. EntriesFor(old, r.point) = {k} /\ k \in DOMAIN old /\ DOMAIN new = DOMAIN old
    BY <1>1, OnlyEntry DEF OnlyEntryChanged, EntriesFor
  <1>3. k \in EntriesFor(new, r.point)
    BY <1>1, <1>2 DEF EntriesFor
  <1>4. \A j \in EntriesFor(new, r.point) : j = k
    <2> SUFFICES ASSUME NEW j \in EntriesFor(new, r.point), j # k PROVE FALSE
      OBVIOUS
    <2>1. j \in DOMAIN old /\ new[j] = old[j] /\ IsEntry(new[j]) /\ new[j].point = r.point
      BY <1>1, <1>2 DEF EntriesFor
    <2>2. j \in EntriesFor(old, r.point)
      BY <2>1 DEF EntriesFor
    <2> QED
      BY <1>2, <2>2
  <1>5. LastEntry(new, r.point) = k
    BY <1>3, <1>4, LastEntryIsThere
  <1> QED
    BY <1>1, <1>3, <1>5

-----------------------------------------------------------------------------
(***************************************************************************)
(* The inductive invariant of the remediation of mount options.            *)
(***************************************************************************)

\* The names in /etc are those of different files.
Apart ==
    \A n, m \in Names : dir[n] = dir[m] /\ dir[n] # Absent => n = m

\* What a process has at each of its steps.
Has(p) ==
    /\ Running(p) => request[p] \in Requests
    /\ pc[p] \in {"openFstab", "openTmp", "copy"} => entry[p] # None
    /\ source[p] # Absent => pc[p] \in {"openTmp", "copy"}
    /\ sink[p] # Absent => pc[p] = "copy"
    /\ result[p] = "Compliant" => pc[p] = "done"

\* Unless two of them share it, the temporary file is written by one remediation.
Copying(p) == pc[p] \in {"copy", "backup", "install"}

Alone ==
    "shared" \notin mishaps =>
        /\ \A p, q \in Processes : Copying(p) /\ Copying(q) => p = q
        /\ \A p \in Processes : sink[p] # Absent => sink[p] = dir[Tmp]

BackupsThere ==
    mishaps \cap {"second", "shared"} = {} =>
        \A t \in backedUp : \E s \in Seconds : dir[s] # Absent /\ Text(s) = t

\* As long as nothing has gone wrong, what is on its way to fstab is meant for it.
FstabMeant == IF dir[Fstab] = Absent THEN backedUp # {} ELSE Text(Fstab) \in meant

MeansWell(p) ==
    /\ pc[p] \in {"openTmp", "copy"} => source[p] # Absent
    /\ pc[p] = "copy" => sink[p] # Absent /\ contents[sink[p]] = <<>>
    /\ pc[p] \in {"backup", "install"} => (dir[Tmp] # Absent => Text(Tmp) \in meant)

Whole == mishaps = {} => FstabMeant /\ \A p \in Processes : MeansWell(p)

\* What is known of a remediation that nobody disturbed, at each of its steps.
ToChange(p) == entry[p] # None /\ ~CheckOptions(entry[p].options, request[p])

Excepted(p) ==
    ~Sensible(request[p]) \/ ~Once(before[p], request[p].point) \/ HasIndented(before[p])

Written(p) ==
    /\ dir[Fstab] # Absent
    /\ OnlyEntryChanged(before[p], Text(Fstab), request[p])
    /\ Audit({request[p].point}, FALSE, request[p])

Follows(p) ==
    /\ pc[p] \in {"readFstab", "readMtab", "openFstab", "openTmp", "copy"} =>
          dir[Fstab] # Absent /\ Text(Fstab) = before[p]
    /\ pc[p] \in {"readMtab", "openFstab", "openTmp", "copy", "backup", "install", "remount"} =>
          entry[p] = ParseFstab(before[p], request[p].point) /\ ~NeverParsed(before[p])
    /\ pc[p] \in {"openFstab", "openTmp", "copy", "backup", "install"} => ToChange(p)
    /\ pc[p] \in {"openFstab", "openTmp", "copy", "backup", "install", "remount"} =>
          mounted[p] = mtab[request[p].point]
    /\ pc[p] \in {"openTmp", "copy"} => source[p] = dir[Fstab]
    /\ pc[p] = "copy" => /\ dir[Tmp] # Absent /\ sink[p] = dir[Tmp]
                         /\ Text(Tmp) = <<>>
    /\ pc[p] \in {"backup", "install"} =>
          dir[Tmp] # Absent /\ Text(Tmp) = Rewritten(before[p], entry[p], request[p])
    /\ pc[p] = "remount" =>
          /\ dir[Fstab] # Absent
          /\ Text(Fstab) = IF ToChange(p) THEN Rewritten(before[p], entry[p], request[p])
                           ELSE before[p]
    /\ result[p] = "Compliant" => Excepted(p) \/ Written(p)

MountInv ==
    /\ MountTypeOK /\ Apart /\ Alone /\ BackupsThere /\ Whole
    /\ \A p \in Processes : Has(p)
    /\ \A p \in Processes : before[p] # None => Follows(p)

-----------------------------------------------------------------------------
(***************************************************************************)
(* A step of one process does not touch what the others hold.              *)
(***************************************************************************)
\* Either nothing a process has read or will read has changed, or it is disturbed.
Bystander(q) ==
    /\ pc'[q] = pc[q] /\ request'[q] = request[q] /\ entry'[q] = entry[q]
    /\ mounted'[q] = mounted[q] /\ source'[q] = source[q] /\ sink'[q] = sink[q]
    /\ result'[q] = result[q]
    /\ \/ before'[q] = None
       \/ before'[q] = before[q] /\ dir' = dir /\ contents' = contents /\ mtab' = mtab

\* What a bystander has and follows it still has and follows.
LEMMA BystanderKeeps ==
    ASSUME NEW q \in Processes, Bystander(q), Has(q), before[q] # None => Follows(q)
    PROVE  Has(q)' /\ (before'[q] # None => Follows(q)')
  <1>1. Has(q)'
    BY DEF Has, Running, Bystander
  <1>2. ASSUME before'[q] # None PROVE Follows(q)'
    <2>1. /\ before'[q] = before[q] /\ dir' = dir /\ contents' = contents /\ mtab' = mtab
          /\ Follows(q)
      BY <1>2 DEF Bystander
    <2>2. ToChange(q)' = ToChange(q)
      BY DEF Bystander, ToChange
    <2>3. Excepted(q)' = Excepted(q)
      BY <2>1 DEF Bystander, Excepted
    <2>4. Written(q)' = Written(q)
      BY <2>1 DEF Bystander, Written, Text, Audit
    <2> QED
      BY <2>1, <2>2, <2>3, <2>4 DEF Bystander, Follows, Text
  <1> QED
    BY <1>1, <1>2

\* A step that changes no file and nothing that is known of the files.
Harmless ==
    /\ dir' = dir /\ contents' = contents /\ meant' = meant /\ backedUp' = backedUp
    /\ mishaps \subseteq mishaps'

\* A harmless step of a process keeps the invariant if the process itself does.
LEMMA HarmlessKeeps ==
    ASSUME MountInv, MountTypeOK', NEW p \in Processes, Harmless,
           \A q \in Processes \ {p} : Bystander(q),
           Copying(p)' => Copying(p), sink'[p] \in {Absent, sink[p]},
           Has(p)', mishaps' = {} => MeansWell(p)', before'[p] # None => Follows(p)'
    PROVE  MountInv'
  <1>1. Apart'
    BY DEF MountInv, Apart, Harmless
  <1>2. Alone'
    <2> SUFFICES ASSUME "shared" \notin mishaps'
                 PROVE  /\ \A a, b \in Processes : Copying(a)' /\ Copying(b)' => a = b
                        /\ \A a \in Processes : sink'[a] # Absent => sink'[a] = dir'[Tmp]
      BY DEF Alone, Copying
    <2>1. "shared" \notin mishaps /\ dir' = dir
      BY DEF Harmless
    <2>2. \A a \in Processes : Copying(a)' => Copying(a)
      BY DEF Bystander, Copying
    <2>3. \A a \in Processes : sink'[a] \in {Absent, sink[a]}
      BY DEF Bystander
    <2>4. /\ \A a, b \in Processes : Copying(a) /\ Copying(b) => a = b
          /\ \A a \in Processes : sink[a] # Absent => sink[a] = dir[Tmp]
      BY <2>1 DEF MountInv, Alone
    <2> QED
      BY <2>1, <2>2, <2>3, <2>4
  <1>3. BackupsThere'
    BY DEF MountInv, BackupsThere, Harmless, Text
  <1>4. Whole'
    <2> SUFFICES ASSUME mishaps' = {}
                 PROVE  FstabMeant' /\ \A q \in Processes : MeansWell(q)'
      BY DEF Whole
    <2>1. mishaps = {}
      BY DEF Harmless
    <2>2. FstabMeant /\ \A q \in Processes : MeansWell(q)
      BY <2>1 DEF MountInv, Whole
    <2>3. FstabMeant'
      BY <2>2 DEF Harmless, FstabMeant, Text
    <2>4. ASSUME NEW q \in Processes \ {p} PROVE MeansWell(q)'
      BY <2>2 DEF Harmless, Bystander, MeansWell, Text
    <2> QED
      BY <2>3, <2>4
  <1>5. ASSUME NEW q \in Processes \ {p}
        PROVE  Has(q)' /\ (before'[q] # None => Follows(q)')
    BY BystanderKeeps DEF MountInv
  <1> QED
    BY <1>1, <1>2, <1>3, <1>4, <1>5 DEF MountInv

\* The functions from the processes, after an update of one of them.
LEMMA Types ==
    ASSUME MountTypeOK
    PROVE  /\ \A p \in Processes :
                /\ pc[p] \in {"idle", "readFstab", "hangs", "readMtab", "openFstab", "openTmp",
                             "copy", "backup", "install", "remount", "done"}
                /\ request[p] \in {None} \cup Requests
                /\ entry[p] \in {None} \cup Parsed
                /\ before[p] \in {None} \cup Seq(Lines)
           /\ \A n \in Names : dir[n] # Absent => dir[n] \in Inodes /\ Text(n) \in Seq(Lines)
           /\ \A i \in Inodes : contents[i] \in Seq(Lines)
           /\ Fstab \in Names /\ Tmp \in Names /\ Seconds \subseteq Names /\ now \in Seconds
  BY DEF MountTypeOK, Text, Names

\* An error, answered or not, keeps the invariant.
LEMMA FailsKeeps ==
    ASSUME MountInv, NEW p \in Processes, Fails(p), UNCHANGED <<mtab, now, edits>>
    PROVE  MountInv'
  <1>1. MountTypeOK
    BY DEF MountInv
  <1>2. /\ pc' = [pc EXCEPT ![p] = "done"]
        /\ result' = [result EXCEPT ![p] = "Error"]
        /\ source' = [source EXCEPT ![p] = Absent]
        /\ sink' = [sink EXCEPT ![p] = Absent]
        /\ entry' = [entry EXCEPT ![p] = None]
        /\ mounted' = [mounted EXCEPT ![p] = None]
        /\ request' = [request EXCEPT ![p] = None]
        /\ before' = [before EXCEPT ![p] = None]
        /\ dir' = dir /\ contents' = contents /\ mtab' = mtab /\ now' = now /\ edits' = edits
        /\ meant' = meant /\ backedUp' = backedUp /\ mishaps' = mishaps
    BY DEF Fails, Answer, Goto, files
  <1>3. MountTypeOK'
    BY <1>1, <1>2 DEF MountTypeOK
  <1>4. Harmless
    BY <1>2 DEF Harmless
  <1>5. /\ pc'[p] = "done" /\ source'[p] = Absent /\ sink'[p] = Absent
        /\ before'[p] = None
    BY <1>1, <1>2 DEF MountTypeOK
  <1>6. \A q \in Processes \ {p} : Bystander(q)
    BY <1>1, <1>2 DEF MountTypeOK, Bystander
  <1>7. Has(p)'
    BY <1>5 DEF Has, Running
  <1>8. ~Copying(p)' /\ MeansWell(p)'
    BY <1>5 DEF Copying, MeansWell
  <1> QED
    BY <1>3, <1>4, <1>5, <1>6, <1>7, <1>8, HarmlessKeeps

\* A call.
LEMMA CallKeeps ==
    ASSUME MountInv, NEW p \in Processes, Call(p)
    PROVE  MountInv'
  <1>1. MountTypeOK /\ pc[p] = "idle" /\ source[p] = Absent /\ sink[p] = Absent
    BY DEF MountInv, Has, Call
  <1>2. PICK r \in Requests : request' = [request EXCEPT ![p] = r]
    BY DEF Call
  <1>3. /\ pc' = [pc EXCEPT ![p] = "readFstab"]
        /\ before' = [before EXCEPT ![p] = IF dir[Fstab] = Absent THEN None ELSE Text(Fstab)]
        /\ source' = source /\ sink' = sink /\ entry' = entry /\ mounted' = mounted
        /\ result' = result
        /\ dir' = dir /\ contents' = contents /\ mtab' = mtab /\ now' = now /\ edits' = edits
        /\ meant' = meant /\ backedUp' = backedUp /\ mishaps' = mishaps
    BY DEF Call, Goto, files
  <1>4. MountTypeOK'
    <2>1. (IF dir[Fstab] = Absent THEN None ELSE Text(Fstab)) \in {None} \cup Seq(Lines)
      BY <1>1, Types
    <2> QED
      BY <1>1, <1>2, <1>3, <2>1 DEF MountTypeOK
  <1>5. Harmless
    BY <1>3 DEF Harmless
  <1>6. pc'[p] = "readFstab" /\ request'[p] = r
    BY <1>1, <1>2, <1>3 DEF MountTypeOK
  <1>7. \A q \in Processes \ {p} : Bystander(q)
    BY <1>1, <1>2, <1>3 DEF MountTypeOK, Bystander
  <1>8. Has(p)'
    BY <1>1, <1>3, <1>6 DEF Has, Running, MountInv
  <1>9. ~Copying(p)' /\ MeansWell(p)'
    BY <1>6 DEF Copying, MeansWell
  <1>10. ASSUME before'[p] # None PROVE Follows(p)'
    <2>1. before'[p] = Text(Fstab) /\ dir[Fstab] # Absent
      BY <1>1, <1>3, <1>10 DEF MountTypeOK
    <2>2. Text(Fstab)' = Text(Fstab)
      BY <1>3 DEF Text
    <2>3. result'[p] # "Compliant"
      BY <1>1, <1>3 DEF MountInv, Has
    <2> QED
      BY <1>3, <1>6, <2>1, <2>2, <2>3 DEF Follows
  <1> QED
    BY <1>3, <1>4, <1>5, <1>7, <1>8, <1>9, <1>10, HarmlessKeeps
\* A process reads fstab.
LEMMA ReadFstabKeeps ==
    ASSUME MountInv, NEW p \in Processes, ReadFstab(p)
    PROVE  MountInv'
  <1>0. CASE Fails(p)
    BY <1>0, FailsKeeps DEF ReadFstab
  <1>1. CASE ~Fails(p)
    <2>1. MountTypeOK /\ pc[p] = "readFstab" /\ source[p] = Absent /\ sink[p] = Absent
      BY DEF MountInv, Has, ReadFstab
    <2>2. /\ dir[Fstab] # Absent
          /\ request' = request /\ mounted' = mounted /\ source' = source /\ sink' = sink
          /\ result' = result /\ before' = before
          /\ dir' = dir /\ contents' = contents /\ mtab' = mtab /\ now' = now
          /\ edits' = edits /\ meant' = meant /\ backedUp' = backedUp /\ mishaps' = mishaps
      BY <1>1 DEF ReadFstab, files
    <2>3. PICK step \in {"hangs", "readMtab"}, e \in {None} \cup Parsed :
            /\ pc' = [pc EXCEPT ![p] = step]
            /\ entry' = [entry EXCEPT ![p] = e]
            /\ step = "readMtab" =>
                  e = ParseFstab(Text(Fstab), request[p].point) /\ ~NeverParsed(Text(Fstab))
      <3>1. /\ Text(Fstab) \in Seq(Lines) /\ entry[p] \in {None} \cup Parsed
            /\ entry = [entry EXCEPT ![p] = entry[p]]
        BY <2>1, <2>2, Types DEF MountTypeOK
      <3>2. ParseFstab(Text(Fstab), request[p].point) \in {None} \cup Parsed
        BY <3>1, ParseType
      <3>3. CASE NeverParsed(Text(Fstab))
        <4>1. pc' = [pc EXCEPT ![p] = "hangs"] /\ entry' = entry
          BY <1>1, <3>3 DEF ReadFstab, Goto
        <4> QED
          BY <3>1, <4>1
      <3>4. CASE ~NeverParsed(Text(Fstab))
        <4>1. /\ pc' = [pc EXCEPT ![p] = "readMtab"]
              /\ entry' = [entry EXCEPT ![p] = ParseFstab(Text(Fstab), request[p].point)]
          BY <1>1, <3>4 DEF ReadFstab, Goto
        <4> QED
          BY <3>2, <3>4, <4>1
      <3> QED
        BY <3>3, <3>4
    <2>4. MountTypeOK'
      BY <2>1, <2>2, <2>3 DEF MountTypeOK
    <2>5. Harmless
      BY <2>2 DEF Harmless
    <2>6. pc'[p] = step /\ entry'[p] = e
      BY <2>1, <2>3 DEF MountTypeOK
    <2>7. \A q \in Processes \ {p} : Bystander(q)
      BY <2>1, <2>2, <2>3 DEF MountTypeOK, Bystander
    <2>8. Has(p)'
      BY <2>1, <2>2, <2>6 DEF Has, Running, MountInv
    <2>9. ~Copying(p)' /\ MeansWell(p)'
      BY <2>6 DEF Copying, MeansWell
    <2>10. ASSUME before'[p] # None PROVE Follows(p)'
      <3>1. Text(Fstab) = before[p] /\ result[p] # "Compliant"
        BY <2>1, <2>2, <2>10 DEF MountInv, Has, Follows
      <3>2. Text(Fstab)' = Text(Fstab)
        BY <2>2 DEF Text
      <3> QED
        BY <2>2, <2>3, <2>6, <3>1, <3>2 DEF Follows
    <2> QED
      BY <2>1, <2>2, <2>4, <2>5, <2>7, <2>8, <2>9, <2>10, HarmlessKeeps
  <1> QED
    BY <1>0, <1>1

\* A process reads mtab.
LEMMA ReadMtabKeeps ==
    ASSUME MountInv, NEW p \in Processes, ReadMtab(p)
    PROVE  MountInv'
  <1>0. CASE Fails(p)
    BY <1>0, FailsKeeps DEF ReadMtab
  <1>1. CASE ~Fails(p)
    <2>1. /\ MountTypeOK /\ pc[p] = "readMtab" /\ source[p] = Absent /\ sink[p] = Absent
          /\ request[p] \in Requests
      BY DEF MountInv, Has, ReadMtab, Running
    <2>2. /\ request' = request /\ entry' = entry /\ source' = source /\ sink' = sink
          /\ result' = result /\ before' = before
          /\ dir' = dir /\ contents' = contents /\ mtab' = mtab /\ now' = now
          /\ edits' = edits /\ meant' = meant /\ backedUp' = backedUp /\ mishaps' = mishaps
          /\ mounted' = [mounted EXCEPT ![p] = mtab[request[p].point]]
      BY <1>1 DEF ReadMtab, files
    <2>3. PICK step \in {"openFstab", "remount"} :
            /\ pc' = [pc EXCEPT ![p] = step]
            /\ step = "openFstab" <=> ToChange(p)
      BY <1>1 DEF ReadMtab, Goto, ToChange
    <2>4. MountTypeOK'
      <3>1. request[p].point \in Points
        BY <2>1, MountOptionAssumption
      <3>2. mtab[request[p].point] \in {None} \cup SUBSET (Options \cup {Zero})
        BY <2>1, <3>1 DEF MountTypeOK
      <3> QED
        BY <2>1, <2>2, <2>3, <3>2 DEF MountTypeOK
    <2>5. Harmless
      BY <2>2 DEF Harmless
    <2>6. pc'[p] = step /\ mounted'[p] = mtab[request[p].point]
      BY <2>1, <2>2, <2>3 DEF MountTypeOK
    <2>7. \A q \in Processes \ {p} : Bystander(q)
      BY <2>1, <2>2, <2>3 DEF MountTypeOK, Bystander
    <2>8. Has(p)'
      <3>1. step = "openFstab" => entry[p] # None
        BY <2>3 DEF ToChange
      <3> QED
        BY <2>1, <2>2, <2>6, <3>1 DEF Has, Running, MountInv
    <2>9. ~Copying(p)' /\ MeansWell(p)'
      BY <2>6 DEF Copying, MeansWell
    <2>10. ASSUME before'[p] # None PROVE Follows(p)'
      <3>1. /\ dir[Fstab] # Absent /\ Text(Fstab) = before[p] /\ result[p] # "Compliant"
            /\ entry[p] = ParseFstab(before[p], request[p].point) /\ ~NeverParsed(before[p])
        BY <2>1, <2>2, <2>10 DEF MountInv, Has, Follows
      <3>2. Text(Fstab)' = Text(Fstab) /\ ToChange(p)' = ToChange(p)
        BY <2>2 DEF Text, ToChange
      <3> QED
        BY <2>2, <2>3, <2>6, <3>1, <3>2 DEF Follows
    <2> QED
      BY <2>1, <2>2, <2>4, <2>5, <2>7, <2>8, <2>9, <2>10, HarmlessKeeps
  <1> QED
    BY <1>0, <1>1

\* A process opens fstab for the copy, or cannot.
LEMMA OpenFstabKeeps ==
    ASSUME MountInv, NEW p \in Processes, OpenFstab(p)
    PROVE  MountInv'
  <1>1. /\ MountTypeOK /\ pc[p] = "openFstab" /\ source[p] = Absent /\ sink[p] = Absent
        /\ request[p] \in Requests /\ entry[p] # None
    BY DEF MountInv, Has, OpenFstab, Running
  <1>2. /\ request' = request /\ entry' = entry /\ sink' = sink /\ mounted' = mounted
        /\ result' = result /\ pc' = [pc EXCEPT ![p] = "openTmp"]
        /\ dir' = dir /\ contents' = contents /\ mtab' = mtab /\ now' = now
        /\ edits' = edits /\ meant' = meant /\ backedUp' = backedUp
    BY DEF OpenFstab, files, Goto
  <1>3. PICK i \in Inodes \cup {Absent}, b \in {None} \cup Seq(Lines) :
          /\ source' = [source EXCEPT ![p] = i]
          /\ before' = [before EXCEPT ![p] = b]
          /\ \/ i = dir[Fstab] /\ i # Absent /\ b = before[p] /\ mishaps' = mishaps
             \/ b = None /\ mishaps' = mishaps \cup {"unread"}
    <2>1. /\ before = [before EXCEPT ![p] = before[p]] /\ source = [source EXCEPT ![p] = source[p]]
          /\ before[p] \in {None} \cup Seq(Lines) /\ source[p] \in Inodes \cup {Absent}
          /\ dir[Fstab] \in Inodes \cup {Absent}
      BY <1>1 DEF MountTypeOK, Names
    <2> QED
      BY <2>1 DEF OpenFstab
  <1>4. MountTypeOK'
    BY <1>1, <1>2, <1>3 DEF MountTypeOK
  <1>5. Harmless
    BY <1>2, <1>3 DEF Harmless
  <1>6. pc'[p] = "openTmp" /\ source'[p] = i /\ before'[p] = b
    BY <1>1, <1>2, <1>3 DEF MountTypeOK
  <1>7. \A q \in Processes \ {p} : Bystander(q)
    BY <1>1, <1>2, <1>3 DEF MountTypeOK, Bystander
  <1>8. Has(p)'
    BY <1>1, <1>2, <1>6 DEF Has, Running, MountInv
  <1>9. ~Copying(p)' /\ (mishaps' = {} => MeansWell(p)')
    BY <1>3, <1>6 DEF Copying, MeansWell
  <1>10. ASSUME before'[p] # None PROVE Follows(p)'
    <2>1. /\ dir[Fstab] # Absent /\ Text(Fstab) = before[p] /\ result[p] # "Compliant"
          /\ entry[p] = ParseFstab(before[p], request[p].point) /\ ~NeverParsed(before[p])
          /\ ToChange(p) /\ mounted[p] = mtab[request[p].point]
          /\ b = before[p] /\ i = dir[Fstab]
      BY <1>1, <1>3, <1>6, <1>10 DEF MountInv, Has, Follows
    <2>2. Text(Fstab)' = Text(Fstab) /\ ToChange(p)' = ToChange(p)
      BY <1>2 DEF Text, ToChange
    <2> QED
      BY <1>2, <1>6, <2>1, <2>2 DEF Follows
  <1> QED
    BY <1>1, <1>2, <1>4, <1>5, <1>7, <1>8, <1>9, <1>10, HarmlessKeeps
\* What a remediation that nobody disturbed finds in fstab before the remount.
LEMMA BeforeRemount ==
    ASSUME MountInv, NEW p \in Processes, pc[p] = "remount", before[p] # None, ~Excepted(p)
    PROVE  /\ dir[Fstab] # Absent
           /\ OnlyEntryChanged(before[p], Text(Fstab), request[p])
           /\ CheckOptions(Text(Fstab)[LastEntry(Text(Fstab), request[p].point)].options,
                           request[p])
           /\ EntriesFor(Text(Fstab), request[p].point) # {}
  <1>1. /\ MountTypeOK /\ request[p] \in Requests /\ before[p] \in Seq(Lines)
        /\ dir[Fstab] # Absent
        /\ Text(Fstab) = IF ToChange(p) THEN Rewritten(before[p], entry[p], request[p])
                         ELSE before[p]
        /\ entry[p] = ParseFstab(before[p], request[p].point) /\ ~NeverParsed(before[p])
        /\ Text(Fstab) \in Seq(Lines)
    BY Types DEF MountInv, Has, Follows, Running
  <1>2. /\ Sensible(request[p]) /\ Once(before[p], request[p].point) /\ ~HasIndented(before[p])
    BY DEF Excepted
  <1>3. OnlyEntryChanged(before[p], Text(Fstab), request[p])
    <2>1. CASE ToChange(p)
      BY <1>1, <1>2, <2>1, RewrittenAsAsked
    <2>2. CASE ~ToChange(p)
      <3>1. EntriesFor(before[p], request[p].point) # {}
        BY <1>1, <1>2, OnlyEntry
      <3>2. entry[p] # None
        BY <1>1, <3>1, ParseFound, MountOptionAssumption
      <3>3. CheckOptions(ParseFstab(before[p], request[p].point).options, request[p])
        BY <1>1, <2>2, <3>2 DEF ToChange
      <3> QED
        BY <1>1, <1>2, <2>2, <3>3, UnchangedAsAsked
    <2> QED
      BY <2>1, <2>2
  <1>4. /\ CheckOptions(Text(Fstab)[LastEntry(Text(Fstab), request[p].point)].options, request[p])
        /\ EntriesFor(Text(Fstab), request[p].point) # {}
    BY <1>1, <1>2, <1>3, MountedAsAsked
  <1> QED
    BY <1>1, <1>3, <1>4

\* The remount, or the answer that there is none to do.
LEMMA RemountKeeps ==
    ASSUME MountInv, NEW p \in Processes, Remount(p)
    PROVE  MountInv'
  <1>0. CASE Fails(p) /\ UNCHANGED mtab
    BY <1>0, FailsKeeps DEF Remount
  <1>1. CASE ~(Fails(p) /\ UNCHANGED mtab)
    <2>1. /\ MountTypeOK /\ pc[p] = "remount" /\ source[p] = Absent /\ sink[p] = Absent
          /\ request[p] \in Requests
      BY DEF MountInv, Has, Remount, Running
    <2>2. PICK point : point = request[p].point
      OBVIOUS
    <2>3. point \in Points
      BY <2>1, <2>2, MountOptionAssumption
    <2>4. Answer(p, "Compliant")
      BY <1>1 DEF Remount
    <2>5. /\ pc' = [pc EXCEPT ![p] = "done"]
          /\ result' = [result EXCEPT ![p] = "Compliant"]
          /\ source' = [source EXCEPT ![p] = Absent]
          /\ sink' = [sink EXCEPT ![p] = Absent]
          /\ entry' = [entry EXCEPT ![p] = None]
          /\ mounted' = [mounted EXCEPT ![p] = None]
          /\ request' = [request EXCEPT ![p] = request[p]]
      BY <2>4 DEF Answer, Goto
    <2>6. /\ dir' = dir /\ contents' = contents /\ now' = now /\ edits' = edits
          /\ meant' = meant /\ backedUp' = backedUp /\ mishaps' = mishaps
      BY <1>1 DEF Remount, files
    <2>7. \/ /\ mounted[p] = None \/ CheckOptions(mounted[p], request[p])
             /\ mtab' = mtab /\ before' = before
          \/ /\ mtab' = [mtab EXCEPT ![point] = MountedAs(point)]
             /\ before' = [q \in Processes |-> IF q = p THEN before[q] ELSE None]
      BY <1>1, <2>2 DEF Remount, Disturb
    <2>8. MountedAs(point) \in {None} \cup SUBSET (Options \cup {Zero})
      <3>1. mtab[point] \in {None} \cup SUBSET (Options \cup {Zero})
        BY <2>1, <2>3 DEF MountTypeOK
      <3>2. dir[Fstab] # Absent => Text(Fstab) \in Seq(Lines)
        BY <2>1, Types
      <3> QED
        BY <3>1, <3>2, ParseFound DEF MountedAs
    <2>9. MountTypeOK'
      <3>1. before' \in [Processes -> {None} \cup Seq(Lines)]
        BY <2>1, <2>7 DEF MountTypeOK
      <3>2. mtab' \in [Points -> {None} \cup SUBSET (Options \cup {Zero})]
        BY <2>1, <2>7, <2>8 DEF MountTypeOK
      <3>3. /\ source' \in [Processes -> Inodes \cup {Absent}]
            /\ sink' \in [Processes -> Inodes \cup {Absent}]
            /\ entry' \in [Processes -> {None} \cup Parsed]
            /\ mounted' \in [Processes -> {None} \cup SUBSET (Options \cup {Zero})]
            /\ result' \in [Processes -> {None, "Compliant", "Error"}]
            /\ request' \in [Processes -> {None} \cup Requests]
        BY <2>1, <2>5 DEF MountTypeOK
      <3> QED
        BY <2>1, <2>5, <2>6, <3>1, <3>2, <3>3 DEF MountTypeOK
    <2>10. Harmless
      BY <2>6 DEF Harmless
    <2>11. /\ pc'[p] = "done" /\ source'[p] = Absent /\ sink'[p] = Absent
           /\ before'[p] = before[p] /\ request'[p] = request[p]
      BY <2>1, <2>5, <2>7 DEF MountTypeOK
    <2>12. \A q \in Processes \ {p} : Bystander(q)
      BY <2>1, <2>5, <2>6, <2>7 DEF MountTypeOK, Bystander
    <2>13. Has(p)'
      BY <2>11 DEF Has, Running
    <2>14. ~Copying(p)' /\ MeansWell(p)'
      BY <2>11 DEF Copying, MeansWell
    <2>15. ASSUME before'[p] # None PROVE Follows(p)'
      <3> SUFFICES ASSUME ~Excepted(p)' PROVE Written(p)'
        BY <2>11 DEF Follows
      <3>1. before[p] # None /\ ~Excepted(p)
        BY <2>11, <2>15 DEF Excepted
      <3>2. /\ dir[Fstab] # Absent
            /\ OnlyEntryChanged(before[p], Text(Fstab), request[p])
            /\ CheckOptions(Text(Fstab)[LastEntry(Text(Fstab), point)].options, request[p])
            /\ EntriesFor(Text(Fstab), point) # {}
        BY <2>1, <2>2, <3>1, BeforeRemount
      <3>3. mounted[p] = mtab[point]
        BY <2>1, <2>2, <3>1 DEF MountInv, Follows
      <3>4. mtab'[point] = None \/ CheckOptions(mtab'[point], request[p])
        <4>1. CASE mtab' = mtab /\ (mounted[p] = None \/ CheckOptions(mounted[p], request[p]))
          BY <3>3, <4>1
        <4>2. CASE mtab' = [mtab EXCEPT ![point] = MountedAs(point)]
          <5>1. mtab'[point] = MountedAs(point)
            BY <2>1, <2>3, <4>2 DEF MountTypeOK
          <5>2. MountedAs(point) = Text(Fstab)[LastEntry(Text(Fstab), point)].options
            BY <3>2 DEF MountedAs
          <5> QED
            BY <3>2, <5>1, <5>2
        <4> QED
          BY <2>7, <4>1, <4>2
      <3>5. Audit({point}, FALSE, request[p])'
        BY <2>11, <3>4 DEF Audit
      <3>6. Text(Fstab)' = Text(Fstab)
        BY <2>6 DEF Text
      <3> QED
        BY <2>2, <2>6, <2>11, <3>2, <3>5, <3>6 DEF Written
    <2> QED
      BY <2>9, <2>10, <2>11, <2>12, <2>13, <2>14, <2>15, HarmlessKeeps
  <1> QED
    BY <1>0, <1>1

\* A second passes.
LEMMA TickKeeps ==
    ASSUME MountInv, Tick
    PROVE  MountInv'
  <1>1. /\ dir' = dir /\ contents' = contents /\ mtab' = mtab /\ edits' = edits /\ pc' = pc
        /\ request' = request /\ entry' = entry /\ mounted' = mounted /\ source' = source
        /\ sink' = sink /\ result' = result /\ before' = before /\ meant' = meant
        /\ backedUp' = backedUp /\ mishaps' = mishaps
    BY DEF Tick, files, locals
  <1>2. MountTypeOK'
    <2>1. now' \in Seconds
      BY MountOptionAssumption DEF Tick, MountInv, MountTypeOK, Seconds
    <2> QED
      BY <1>1, <2>1 DEF MountInv, MountTypeOK
  <1>3. \A q \in Processes : Bystander(q)
    BY <1>1 DEF Bystander
  <1>4. \A q \in Processes : Has(q)' /\ (before'[q] # None => Follows(q)')
    BY <1>3, BystanderKeeps DEF MountInv
  <1>5. Apart' /\ Alone' /\ BackupsThere' /\ Whole'
    BY <1>1 DEF MountInv, Apart, Alone, BackupsThere, Whole, Copying, MeansWell, FstabMeant, Text
  <1> QED
    BY <1>2, <1>4, <1>5 DEF MountInv
-----------------------------------------------------------------------------
(***************************************************************************)
(* The steps that change files.                                            *)
(***************************************************************************)

\* An inode that is taken for a new file was not in use.
LEMMA FreshIs ==
    ASSUME NEW i, Fresh(i)
    PROVE  /\ i \in Inodes /\ i # Absent
           /\ \A n \in Names : dir[n] # i
           /\ \A q \in Processes : source[q] # i /\ sink[q] # i
  BY MountOptionAssumption DEF Fresh, Used

\* Who opens the temporary file without noticing anybody is alone with it.
LEMMA SharingIs ==
    ASSUME NEW p \in Processes, "shared" \notin Sharing(p)
    PROVE  \A q \in Processes \ {p} : ~Copying(q)
  BY DEF Sharing, Copying

\* A step that leaves everything but the temporary file alone.
BesideTmp ==
    \A n \in Names \ {Tmp} : dir'[n] = dir[n] /\ (dir[n] # Absent => Text(n)' = Text(n))

\* The backups and fstab are what they were.
LEMMA BesideTmpKeeps ==
    ASSUME MountInv, "shared" \notin mishaps' => BesideTmp, backedUp' = backedUp,
           meant \subseteq meant', mishaps \subseteq mishaps'
    PROVE  BackupsThere' /\ (mishaps' = {} => FstabMeant')
  <1>1. Fstab \in Names \ {Tmp} /\ Seconds \subseteq Names \ {Tmp}
    BY MountOptionAssumption DEF Names
  <1>2. ASSUME mishaps' \cap {"second", "shared"} = {}, NEW t \in backedUp'
        PROVE  \E s \in Seconds : dir'[s] # Absent /\ Text(s)' = t
    <2>1. mishaps \cap {"second", "shared"} = {} /\ "shared" \notin mishaps' /\ t \in backedUp
      BY <1>2
    <2>2. PICK s \in Seconds : dir[s] # Absent /\ Text(s) = t
      BY <2>1 DEF MountInv, BackupsThere
    <2> QED
      BY <1>1, <2>1, <2>2 DEF BesideTmp
  <1>3. ASSUME mishaps' = {} PROVE FstabMeant'
    <2>1. mishaps = {} /\ BesideTmp
      BY <1>3
    <2>2. FstabMeant
      BY <2>1 DEF MountInv, Whole
    <2> QED
      BY <1>1, <2>1, <2>2 DEF BesideTmp, FstabMeant
  <1>4. BackupsThere'
    BY <1>2 DEF BackupsThere
  <1> QED
    BY <1>3, <1>4

\* The temporary file is opened, whether it was there or not.
LEMMA TmpOpened ==
    ASSUME MountInv, NEW p \in Processes, OpenTmp(p), NEW i \in Inodes,
           dir' = [dir EXCEPT ![Tmp] = i], contents' = [contents EXCEPT ![i] = <<>>],
           sink' = [sink EXCEPT ![p] = i], mishaps' = mishaps \cup Sharing(p), Disturb({p}),
           \A n \in Names \ {Tmp} : dir[n] # i
    PROVE  MountInv'
  <1>1. /\ MountTypeOK /\ pc[p] = "openTmp" /\ sink[p] = Absent
        /\ request[p] \in Requests /\ entry[p] # None
    BY DEF MountInv, Has, OpenTmp, Running
  <1>2. /\ request' = request /\ entry' = entry /\ source' = source /\ mounted' = mounted
        /\ result' = result /\ pc' = [pc EXCEPT ![p] = "copy"] /\ mtab' = mtab /\ now' = now
        /\ edits' = edits /\ meant' = meant /\ backedUp' = backedUp
        /\ before' = [q \in Processes |-> IF q = p THEN before[q] ELSE None]
    BY DEF OpenTmp, Goto, Disturb
  <1>3. /\ Tmp \in Names /\ Fstab \in Names \ {Tmp} /\ i # Absent /\ Sharing(p) \subseteq {"shared"}
    BY MountOptionAssumption DEF Names, Sharing
  <1>4. MountTypeOK'
    <2>1. <<>> \in Seq(Lines)
      BY EmptySeq
    <2> QED
      BY <1>1, <1>2, <1>3, <2>1 DEF MountTypeOK
  <1>5. pc'[p] = "copy" /\ sink'[p] = i /\ before'[p] = before[p] /\ dir'[Tmp] = i /\ Text(Tmp)' = <<>>
    BY <1>1, <1>2, <1>3 DEF MountTypeOK, Text
  <1>6. BesideTmp
    BY <1>1, <1>2, <1>3 DEF MountTypeOK, BesideTmp, Text
  <1>7. \A q \in Processes \ {p} : Bystander(q)
    BY <1>1, <1>2 DEF MountTypeOK, Bystander
  <1>8. \A q \in Processes \ {p} : Has(q)' /\ (before'[q] # None => Follows(q)')
    BY <1>7, BystanderKeeps DEF MountInv
  <1>9. Has(p)'
    BY <1>1, <1>2, <1>5 DEF Has, Running, MountInv
  <1>10. Apart'
    <2>1. Apart
      BY DEF MountInv
    <2>2. \A n \in Names : dir'[n] = IF n = Tmp THEN i ELSE dir[n]
      BY <1>1 DEF MountTypeOK
    <2> QED
      BY <2>1, <2>2 DEF Apart
  <1>11. ASSUME "shared" \notin mishaps'
         PROVE  \A q \in Processes \ {p} : ~Copying(q)' /\ sink'[q] = Absent
    <2>1. \A q \in Processes \ {p} : ~Copying(q)
      BY <1>11, SharingIs
    <2> QED
      BY <1>7, <2>1 DEF MountInv, Has, Bystander, Copying
  <1>12. Alone'
    BY <1>5, <1>11 DEF Alone
  <1>13. BackupsThere' /\ (mishaps' = {} => FstabMeant')
    BY <1>2, <1>6, BesideTmpKeeps
  <1>14. ASSUME mishaps' = {}, NEW q \in Processes PROVE MeansWell(q)'
    <2>1. MeansWell(q)
      BY <1>14 DEF MountInv, Whole
    <2>2. CASE q = p
      BY <1>1, <1>2, <1>3, <1>5, <2>1, <2>2 DEF MeansWell, Text
    <2>3. CASE q # p
      BY <1>2, <1>7, <1>11, <1>14, <2>1, <2>3 DEF MeansWell, Bystander, Copying
    <2> QED
      BY <2>2, <2>3
  <1>15. ASSUME before'[p] # None PROVE Follows(p)'
    <2>1. /\ dir[Fstab] # Absent /\ Text(Fstab) = before[p] /\ source[p] = dir[Fstab]
          /\ entry[p] = ParseFstab(before[p], request[p].point) /\ ~NeverParsed(before[p])
          /\ ToChange(p) /\ mounted[p] = mtab[request[p].point] /\ result[p] # "Compliant"
      BY <1>1, <1>5, <1>15 DEF MountInv, Has, Follows
    <2>2. Text(Fstab)' = Text(Fstab) /\ dir'[Fstab] = dir[Fstab] /\ ToChange(p)' = ToChange(p)
      BY <1>2, <1>3, <1>6, <2>1 DEF BesideTmp, ToChange
    <2> QED
      BY <1>2, <1>3, <1>5, <2>1, <2>2 DEF Follows
  <1>16. Whole'
    BY <1>13, <1>14 DEF Whole
  <1> QED
    BY <1>4, <1>8, <1>9, <1>10, <1>12, <1>13, <1>15, <1>16 DEF MountInv

\* A process opens the temporary file, or cannot.
LEMMA OpenTmpKeeps ==
    ASSUME MountInv, NEW p \in Processes, OpenTmp(p)
    PROVE  MountInv'
  <1>1. MountTypeOK /\ Apart /\ Tmp \in Names
    BY DEF MountInv, Names
  <1>2. CASE /\ dir[Tmp] # Absent /\ dir' = dir /\ contents' = [contents EXCEPT ![dir[Tmp]] = <<>>]
             /\ sink' = [sink EXCEPT ![p] = dir[Tmp]] /\ mishaps' = mishaps \cup Sharing(p)
             /\ Disturb({p})
    <2>1. dir[Tmp] \in Inodes /\ dir = [dir EXCEPT ![Tmp] = dir[Tmp]]
      BY <1>1, <1>2 DEF MountTypeOK
    <2>2. \A n \in Names \ {Tmp} : dir[n] # dir[Tmp]
      BY <1>1, <1>2 DEF Apart
    <2> QED
      BY <1>2, <2>1, <2>2, TmpOpened
  <1>3. CASE \E i \in Inodes :
                /\ dir[Tmp] = Absent /\ Fresh(i)
                /\ dir' = [dir EXCEPT ![Tmp] = i] /\ contents' = [contents EXCEPT ![i] = <<>>]
                /\ sink' = [sink EXCEPT ![p] = i] /\ mishaps' = mishaps \cup Sharing(p)
                /\ Disturb({p})
    <2>1. PICK i \in Inodes :
                /\ dir[Tmp] = Absent /\ Fresh(i)
                /\ dir' = [dir EXCEPT ![Tmp] = i] /\ contents' = [contents EXCEPT ![i] = <<>>]
                /\ sink' = [sink EXCEPT ![p] = i] /\ mishaps' = mishaps \cup Sharing(p)
                /\ Disturb({p})
      BY <1>3
    <2>2. \A n \in Names \ {Tmp} : dir[n] # i
      BY <2>1, FreshIs
    <2> QED
      BY <2>1, <2>2, TmpOpened
  <1>4. CASE /\ mishaps' = mishaps \cup Sharing(p) \cup {"unwritten"}
             /\ before' = [q \in Processes |-> None] /\ dir' = dir /\ contents' = contents
             /\ sink' = sink
    <2>1. /\ pc[p] = "openTmp" /\ sink[p] = Absent
          /\ request[p] \in Requests /\ entry[p] # None
      BY DEF MountInv, Has, OpenTmp, Running
    <2>2. /\ request' = request /\ entry' = entry /\ source' = source /\ mounted' = mounted
          /\ result' = result /\ pc' = [pc EXCEPT ![p] = "copy"] /\ mtab' = mtab /\ now' = now
          /\ edits' = edits /\ meant' = meant /\ backedUp' = backedUp
      BY DEF OpenTmp, Goto
    <2>3. MountTypeOK'
      BY <1>1, <1>4, <2>2 DEF MountTypeOK, Sharing
    <2>4. pc'[p] = "copy"
      BY <1>1, <2>2 DEF MountTypeOK
    <2>5. \A q \in Processes \ {p} : Bystander(q)
      BY <1>1, <1>4, <2>2 DEF MountTypeOK, Bystander
    <2>6. \A q \in Processes \ {p} : Has(q)'
      BY <2>5, BystanderKeeps DEF MountInv
    <2>7. Has(p)'
      BY <1>4, <2>1, <2>2, <2>4 DEF Has, Running, MountInv
    <2>8. Apart'
      BY <1>1, <1>4 DEF Apart
    <2>9. Alone'
      <3> SUFFICES ASSUME "shared" \notin mishaps'
                   PROVE  /\ \A a, b \in Processes : Copying(a)' /\ Copying(b)' => a = b
                          /\ \A a \in Processes : sink'[a] # Absent => sink'[a] = dir'[Tmp]
        BY DEF Alone, Copying
      <3>1. \A q \in Processes \ {p} : ~Copying(q)
        BY <1>4, SharingIs
      <3>2. \A q \in Processes \ {p} : ~Copying(q)'
        BY <2>5, <3>1 DEF Bystander, Copying
      <3>3. \A q \in Processes : sink'[q] # Absent => sink[q] = dir[Tmp]
        BY <1>4 DEF MountInv, Alone
      <3> QED
        BY <1>4, <3>2, <3>3
    <2>10. BesideTmp
      BY <1>4 DEF BesideTmp, Text
    <2>11. BackupsThere'
      BY <1>4, <2>2, <2>10, BesideTmpKeeps
    <2>12. Whole'
      BY <1>4 DEF Whole
    <2>13. \A q \in Processes : before'[q] = None
      BY <1>4
    <2> QED
      BY <2>3, <2>6, <2>7, <2>8, <2>9, <2>11, <2>12, <2>13 DEF MountInv
  <1> QED
    BY <1>2, <1>3, <1>4 DEF OpenTmp, files
\* The copy, whole or not.
LEMMA CopyKeeps ==
    ASSUME MountInv, NEW p \in Processes, Copy(p)
    PROVE  MountInv'
  <1>1. /\ MountTypeOK /\ pc[p] = "copy" /\ Copying(p) /\ Apart
        /\ request[p] \in Requests /\ entry[p] \in Parsed
    BY Types DEF MountInv, Has, Copy, Running, Copying
  <1>2. PICK t : t = IF source[p] = Absent THEN <<>>
                     ELSE Rewritten(contents[source[p]], entry[p], request[p])
    OBVIOUS
  <1>3. t \in Seq(Lines)
    <2>1. <<>> \in Seq(Lines)
      BY EmptySeq
    <2>2. source[p] # Absent => contents[source[p]] \in Seq(Lines)
      BY <1>1 DEF MountTypeOK
    <2> QED
      BY <1>1, <1>2, <2>1, <2>2, RewrittenType
  <1>4. /\ pc' = [pc EXCEPT ![p] = "backup"]
        /\ source' = [source EXCEPT ![p] = Absent]
        /\ sink' = [sink EXCEPT ![p] = Absent]
        /\ request' = request /\ entry' = entry /\ mounted' = mounted /\ result' = result
        /\ dir' = dir /\ mtab' = mtab /\ now' = now /\ edits' = edits /\ backedUp' = backedUp
        /\ meant' = IF source[p] = Absent THEN meant ELSE meant \cup {t}
    BY <1>2 DEF Copy, Goto
  <1>5. PICK c \in Seq(Lines) :
        /\ contents' = IF sink[p] = Absent THEN contents ELSE [contents EXCEPT ![sink[p]] = c]
        /\ \/ /\ sink[p] # Absent /\ c = Over(t, contents[sink[p]])
              /\ mishaps' = mishaps
              /\ before' = [q \in Processes |-> IF q = p THEN before[q] ELSE None]
           \/ /\ mishaps' = mishaps \cup {"unwritten"}
              /\ before' = [q \in Processes |-> None]
           \/ sink[p] = Absent /\ mishaps' = mishaps /\ before' = before
    <2>1. sink[p] # Absent => contents[sink[p]] \in Seq(Lines)
      BY <1>1 DEF MountTypeOK
    <2>2. \/ /\ sink[p] # Absent
             /\ contents' = [contents EXCEPT ![sink[p]] = Over(t, contents[sink[p]])]
             /\ Disturb({p}) /\ mishaps' = mishaps
          \/ \E n \in 0..(Len(t) - 1) :
             /\ contents' = IF sink[p] = Absent THEN contents
                            ELSE [contents EXCEPT
                                    ![sink[p]] = Over(SubSeq(t, 1, n), contents[sink[p]])]
             /\ mishaps' = mishaps \cup {"unwritten"} /\ before' = [q \in Processes |-> None]
          \/ sink[p] = Absent /\ contents' = contents /\ mishaps' = mishaps /\ before' = before
      BY <1>2 DEF Copy
    <2>3. CASE /\ sink[p] # Absent
               /\ contents' = [contents EXCEPT ![sink[p]] = Over(t, contents[sink[p]])]
               /\ Disturb({p}) /\ mishaps' = mishaps
      <3>1. before' = [q \in Processes |-> IF q = p THEN before[q] ELSE None]
        BY <2>3 DEF Disturb
      <3>2. Over(t, contents[sink[p]]) \in Seq(Lines)
        BY <1>3, <2>1, <2>3, OverType
      <3> QED
        BY <2>3, <3>1, <3>2
    <2>4. CASE \E n \in 0..(Len(t) - 1) :
                 /\ contents' = IF sink[p] = Absent THEN contents
                                ELSE [contents EXCEPT
                                        ![sink[p]] = Over(SubSeq(t, 1, n), contents[sink[p]])]
                 /\ mishaps' = mishaps \cup {"unwritten"}
                 /\ before' = [q \in Processes |-> None]
      <3>1. PICK n \in 0..(Len(t) - 1) :
                 /\ contents' = IF sink[p] = Absent THEN contents
                                ELSE [contents EXCEPT
                                        ![sink[p]] = Over(SubSeq(t, 1, n), contents[sink[p]])]
                 /\ mishaps' = mishaps \cup {"unwritten"}
                 /\ before' = [q \in Processes |-> None]
        BY <2>4
      <3>2. SubSeq(t, 1, n) \in Seq(Lines)
        BY <1>3, BeginningType
      <3>3. sink[p] # Absent => Over(SubSeq(t, 1, n), contents[sink[p]]) \in Seq(Lines)
        BY <2>1, <3>2, OverType
      <3> QED
        BY <1>3, <3>1, <3>3
    <2>5. CASE sink[p] = Absent /\ contents' = contents /\ mishaps' = mishaps /\ before' = before
      BY <1>3, <2>5
    <2> QED
      BY <2>2, <2>3, <2>4, <2>5
  <1>6. /\ mishaps \subseteq mishaps' /\ Fstab \in Names \ {Tmp} /\ Tmp \in Names
        /\ mishaps' \subseteq mishaps \cup {"unwritten"} /\ meant \subseteq meant'
    BY <1>4, <1>5, MountOptionAssumption DEF Names
  <1>7. MountTypeOK'
    <2>1. /\ before' \in [Processes -> {None} \cup Seq(Lines)]
          /\ contents' \in [Inodes -> Seq(Lines)]
      BY <1>1, <1>5 DEF MountTypeOK
    <2>2. mishaps' \subseteq {"unread", "shared", "unwritten", "second"}
      BY <1>1, <1>5 DEF MountTypeOK
    <2>3. meant' \subseteq Seq(Lines)
      BY <1>1, <1>3, <1>4 DEF MountTypeOK
    <2> QED
      BY <1>1, <1>4, <2>1, <2>2, <2>3 DEF MountTypeOK
  <1>8. pc'[p] = "backup" /\ source'[p] = Absent /\ sink'[p] = Absent
    BY <1>1, <1>4 DEF MountTypeOK
  <1>9. \A q \in Processes \ {p} : Bystander(q)
    <2>1. \A q \in Processes \ {p} :
             before'[q] = None \/ (before'[q] = before[q] /\ contents' = contents)
      BY <1>5
    <2> QED
      BY <1>1, <1>4, <2>1 DEF MountTypeOK, Bystander
  <1>10. \A q \in Processes \ {p} : Has(q)' /\ (before'[q] # None => Follows(q)')
    BY <1>9, BystanderKeeps DEF MountInv
  <1>11. Has(p)'
    BY <1>1, <1>4, <1>8 DEF Has, Running, MountInv
  <1>12. Apart'
    BY <1>1, <1>4 DEF Apart
  <1>13. \A q \in Processes : Copying(q)' <=> Copying(q)
    BY <1>1, <1>8, <1>9 DEF Copying, Bystander
  <1>14. Alone'
    <2>1. \A q \in Processes : sink'[q] # Absent => sink'[q] = sink[q]
      BY <1>8, <1>9 DEF Bystander
    <2> QED
      BY <1>4, <1>6, <1>13, <2>1 DEF MountInv, Alone
  <1>15. ASSUME "shared" \notin mishaps' PROVE BesideTmp
    <2>1. sink[p] # Absent => sink[p] = dir[Tmp]
      BY <1>6, <1>15 DEF MountInv, Alone
    <2>2. \A n \in Names \ {Tmp} : dir[n] # Absent => dir[n] # sink[p] /\ dir[n] \in Inodes
      BY <1>1, <1>6, <2>1 DEF Apart, MountTypeOK
    <2>3. \A i \in Inodes : i # sink[p] => contents'[i] = contents[i]
      BY <1>1, <1>5 DEF MountTypeOK
    <2> QED
      BY <1>4, <2>2, <2>3 DEF BesideTmp, Text
  <1>16. BackupsThere' /\ (mishaps' = {} => FstabMeant')
    BY <1>4, <1>6, <1>15, BesideTmpKeeps
  <1>17. ASSUME mishaps' = {}, NEW q \in Processes PROVE MeansWell(q)'
    <2>1. MeansWell(q) /\ MeansWell(p) /\ mishaps = {}
      BY <1>6, <1>17 DEF MountInv, Whole
    <2>2. CASE q = p
      <3>1. /\ source[p] # Absent /\ sink[p] # Absent /\ contents[sink[p]] = <<>>
            /\ sink[p] = dir[Tmp]
        BY <1>1, <2>1 DEF MeansWell, MountInv, Alone
      <3>2. contents' = [contents EXCEPT ![sink[p]] = t]
        BY <1>3, <1>5, <1>17, <3>1, OverEmpty
      <3>3. Text(Tmp)' = t /\ t \in meant'
        BY <1>1, <1>4, <3>1, <3>2 DEF MountTypeOK, Text
      <3> QED
        BY <1>8, <2>2, <3>3 DEF MeansWell
    <2>3. CASE q # p
      <3>1. ~Copying(q)
        BY <1>1, <2>1, <2>3 DEF MountInv, Alone
      <3> QED
        BY <1>9, <2>1, <2>3, <3>1 DEF MeansWell, Bystander, Copying
    <2> QED
      BY <2>2, <2>3
  <1>18. ASSUME before'[p] # None PROVE Follows(p)'
    <2>1. before'[p] = before[p]
      BY <1>5, <1>18
    <2>2. /\ dir[Fstab] # Absent /\ Text(Fstab) = before[p] /\ source[p] = dir[Fstab]
          /\ entry[p] = ParseFstab(before[p], request[p].point) /\ ~NeverParsed(before[p])
          /\ ToChange(p) /\ mounted[p] = mtab[request[p].point] /\ result[p] # "Compliant"
          /\ dir[Tmp] # Absent /\ sink[p] = dir[Tmp] /\ Text(Tmp) = <<>>
      BY <1>1, <1>18, <2>1 DEF MountInv, Has, Follows
    <2>3. t = Rewritten(before[p], entry[p], request[p])
      BY <1>2, <2>2 DEF Text
    <2>4. contents' = [contents EXCEPT ![sink[p]] = t]
      BY <1>3, <1>5, <1>18, <2>2, OverEmpty DEF Text
    <2>5. Text(Tmp)' = t
      BY <1>1, <1>4, <2>2, <2>4 DEF MountTypeOK, Text
    <2>6. ToChange(p)' = ToChange(p)
      BY <1>4 DEF ToChange
    <2> QED
      BY <1>4, <1>8, <2>1, <2>2, <2>3, <2>5, <2>6 DEF Follows
  <1>19. Whole'
    BY <1>16, <1>17 DEF Whole
  <1> QED
    BY <1>7, <1>10, <1>11, <1>12, <1>14, <1>16, <1>18, <1>19 DEF MountInv

\* The rename of fstab to a backup.
LEMMA BackupKeeps ==
    ASSUME MountInv, NEW p \in Processes, Backup(p)
    PROVE  MountInv'
  <1>0. CASE Fails(p)
    BY <1>0, FailsKeeps DEF Backup
  <1>1. CASE ~Fails(p)
    <2>1. /\ MountTypeOK /\ Apart /\ pc[p] = "backup" /\ source[p] = Absent /\ sink[p] = Absent
          /\ request[p] \in Requests /\ Copying(p)
      BY DEF MountInv, Has, Backup, Running, Copying
    <2>2. /\ dir[Fstab] # Absent
          /\ backedUp' = backedUp \cup {Text(Fstab)}
          /\ mishaps' = IF dir[now] = Absent THEN mishaps ELSE mishaps \cup {"second"}
          /\ dir' = [dir EXCEPT ![now] = dir[Fstab], ![Fstab] = Absent]
          /\ pc' = [pc EXCEPT ![p] = "install"]
          /\ before' = [q \in Processes |-> IF q = p THEN before[q] ELSE None]
          /\ request' = request /\ entry' = entry /\ mounted' = mounted /\ source' = source
          /\ sink' = sink /\ result' = result /\ meant' = meant /\ contents' = contents
          /\ mtab' = mtab /\ now' = now /\ edits' = edits
      BY <1>1 DEF Backup, Goto, Disturb, Renamed, locals
    <2>3. /\ Fstab \in Names /\ Tmp \in Names /\ now \in Names /\ Seconds \subseteq Names
          /\ now # Fstab /\ now # Tmp /\ Tmp # Fstab /\ now \in Seconds
          /\ Fstab \notin Seconds /\ Tmp \notin Seconds
      BY <2>1, MountOptionAssumption DEF Names, MountTypeOK
    <2>4. \A n \in Names : dir'[n] = IF n = now THEN dir[Fstab]
                                     ELSE IF n = Fstab THEN Absent ELSE dir[n]
      BY <2>1, <2>2, <2>3 DEF MountTypeOK
    <2>5. MountTypeOK'
      <3>1. dir' \in [Names -> Inodes \cup {Absent}]
        BY <2>1, <2>2, <2>3 DEF MountTypeOK
      <3>2. backedUp' \subseteq Seq(Lines)
        BY <2>1, <2>2, <2>3, Types DEF MountTypeOK
      <3>3. mishaps' \subseteq {"unread", "shared", "unwritten", "second"}
        BY <2>1, <2>2 DEF MountTypeOK
      <3>4. before' \in [Processes -> {None} \cup Seq(Lines)]
        BY <2>1, <2>2 DEF MountTypeOK
      <3> QED
        BY <2>1, <2>2, <3>1, <3>2, <3>3, <3>4 DEF MountTypeOK
    <2>6. pc'[p] = "install" /\ before'[p] = before[p] /\ mishaps \subseteq mishaps'
      BY <2>1, <2>2 DEF MountTypeOK
    <2>7. \A q \in Processes \ {p} : Bystander(q)
      BY <2>1, <2>2 DEF MountTypeOK, Bystander
    <2>8. \A q \in Processes \ {p} : Has(q)' /\ (before'[q] # None => Follows(q)')
      BY <2>7, BystanderKeeps DEF MountInv
    <2>9. Has(p)'
      BY <2>1, <2>2, <2>6 DEF Has, Running, MountInv
    <2>10. Apart'
      BY <2>1, <2>3, <2>4 DEF Apart
    <2>11. \A q \in Processes : Copying(q)' <=> Copying(q)
      BY <2>1, <2>6, <2>7 DEF Copying, Bystander
    <2>12. Alone'
      BY <2>2, <2>3, <2>4, <2>6, <2>11 DEF MountInv, Alone
    <2>13. ASSUME mishaps' \cap {"second", "shared"} = {}, NEW t \in backedUp'
           PROVE  \E s \in Seconds : dir'[s] # Absent /\ Text(s)' = t
      <3>1. dir[now] = Absent /\ mishaps \cap {"second", "shared"} = {}
        BY <2>2, <2>13
      <3>2. CASE t = Text(Fstab)
        BY <2>2, <2>3, <2>4, <3>2 DEF Text
      <3>3. CASE t \in backedUp
        <4>1. PICK s \in Seconds : dir[s] # Absent /\ Text(s) = t
          BY <3>1, <3>3 DEF MountInv, BackupsThere
        <4>2. dir'[s] = dir[s]
          BY <2>3, <2>4, <3>1, <4>1
        <4> QED
          BY <2>2, <4>1, <4>2 DEF Text
      <3> QED
        BY <2>2, <2>13, <3>2, <3>3
    <2>14. BackupsThere'
      BY <2>13 DEF BackupsThere
    <2>15. ASSUME mishaps' = {} PROVE FstabMeant' /\ \A q \in Processes : MeansWell(q)'
      <3>1. \A q \in Processes : MeansWell(q)
        BY <2>6, <2>15 DEF MountInv, Whole
      <3>2. FstabMeant'
        BY <2>2, <2>3, <2>4 DEF FstabMeant
      <3>3. Text(Tmp)' = Text(Tmp) /\ dir'[Tmp] = dir[Tmp]
        BY <2>2, <2>3, <2>4 DEF Text
      <3>4. MeansWell(p)'
        BY <2>1, <2>2, <2>6, <3>1, <3>3 DEF MeansWell
      <3>5. \A q \in Processes \ {p} : MeansWell(q)'
        BY <2>2, <2>7, <3>1, <3>3 DEF MeansWell, Bystander
      <3> QED
        BY <3>2, <3>4, <3>5
    <2>16. ASSUME before'[p] # None PROVE Follows(p)'
      <3>1. /\ entry[p] = ParseFstab(before[p], request[p].point) /\ ~NeverParsed(before[p])
            /\ ToChange(p) /\ mounted[p] = mtab[request[p].point] /\ result[p] # "Compliant"
            /\ dir[Tmp] # Absent /\ Text(Tmp) = Rewritten(before[p], entry[p], request[p])
        BY <2>1, <2>6, <2>16 DEF MountInv, Has, Follows
      <3>2. Text(Tmp)' = Text(Tmp) /\ dir'[Tmp] = dir[Tmp] /\ ToChange(p)' = ToChange(p)
        BY <2>2, <2>3, <2>4 DEF Text, ToChange
      <3> QED
        BY <2>2, <2>6, <3>1, <3>2 DEF Follows
    <2>17. Whole'
      BY <2>15 DEF Whole
    <2> QED
      BY <2>5, <2>8, <2>9, <2>10, <2>12, <2>14, <2>16, <2>17 DEF MountInv
  <1> QED
    BY <1>0, <1>1
\* The rename of the temporary file to fstab.
LEMMA InstallKeeps ==
    ASSUME MountInv, NEW p \in Processes, Install(p)
    PROVE  MountInv'
  <1>0. CASE Fails(p)
    BY <1>0, FailsKeeps DEF Install
  <1>1. CASE ~Fails(p)
    <2>1. /\ MountTypeOK /\ Apart /\ pc[p] = "install" /\ source[p] = Absent /\ sink[p] = Absent
          /\ request[p] \in Requests /\ Copying(p)
      BY DEF MountInv, Has, Install, Running, Copying
    <2>2. /\ dir[Tmp] # Absent
          /\ dir' = [dir EXCEPT ![Fstab] = dir[Tmp], ![Tmp] = Absent]
          /\ pc' = [pc EXCEPT ![p] = "remount"]
          /\ before' = [q \in Processes |-> IF q = p THEN before[q] ELSE None]
          /\ request' = request /\ entry' = entry /\ mounted' = mounted /\ source' = source
          /\ sink' = sink /\ result' = result /\ meant' = meant /\ contents' = contents
          /\ mtab' = mtab /\ now' = now /\ edits' = edits
          /\ backedUp' = backedUp /\ mishaps' = mishaps
      BY <1>1 DEF Install, Goto, Disturb, Renamed, locals
    <2>3. /\ Fstab \in Names /\ Tmp \in Names /\ Seconds \subseteq Names /\ Tmp # Fstab
          /\ Fstab \notin Seconds /\ Tmp \notin Seconds
      BY MountOptionAssumption DEF Names
    <2>4. \A n \in Names : dir'[n] = IF n = Tmp THEN Absent
                                     ELSE IF n = Fstab THEN dir[Tmp] ELSE dir[n]
      BY <2>1, <2>2, <2>3 DEF MountTypeOK
    <2>5. MountTypeOK'
      <3>1. dir' \in [Names -> Inodes \cup {Absent}]
        BY <2>1, <2>2, <2>3 DEF MountTypeOK
      <3>2. before' \in [Processes -> {None} \cup Seq(Lines)]
        BY <2>1, <2>2 DEF MountTypeOK
      <3> QED
        BY <2>1, <2>2, <3>1, <3>2 DEF MountTypeOK
    <2>6. pc'[p] = "remount" /\ before'[p] = before[p]
      BY <2>1, <2>2 DEF MountTypeOK
    <2>7. \A q \in Processes \ {p} : Bystander(q)
      BY <2>1, <2>2 DEF MountTypeOK, Bystander
    <2>8. \A q \in Processes \ {p} : Has(q)' /\ (before'[q] # None => Follows(q)')
      BY <2>7, BystanderKeeps DEF MountInv
    <2>9. Has(p)'
      BY <2>1, <2>2, <2>6 DEF Has, Running, MountInv
    <2>10. Apart'
      BY <2>1, <2>3, <2>4 DEF Apart
    <2>11. ASSUME "shared" \notin mishaps'
           PROVE  \A q \in Processes : ~Copying(q)' /\ sink'[q] = Absent
      <3>1. \A q \in Processes \ {p} : ~Copying(q)
        BY <2>1, <2>2, <2>11 DEF MountInv, Alone
      <3>2. \A q \in Processes \ {p} : ~Copying(q)' /\ sink'[q] = Absent
        BY <2>7, <3>1 DEF MountInv, Has, Copying, Bystander
      <3> QED
        BY <2>1, <2>2, <2>6, <3>2 DEF Copying
    <2>12. Alone'
      BY <2>11 DEF Alone
    <2>13. ASSUME mishaps' \cap {"second", "shared"} = {}, NEW t \in backedUp'
           PROVE  \E s \in Seconds : dir'[s] # Absent /\ Text(s)' = t
      <3>1. PICK s \in Seconds : dir[s] # Absent /\ Text(s) = t
        BY <2>2, <2>13 DEF MountInv, BackupsThere
      <3>2. dir'[s] = dir[s]
        BY <2>3, <2>4, <3>1
      <3> QED
        BY <2>2, <3>1, <3>2 DEF Text
    <2>14. BackupsThere'
      BY <2>13 DEF BackupsThere
    <2>15. Text(Fstab)' = Text(Tmp) /\ dir'[Fstab] = dir[Tmp]
      BY <2>2, <2>3, <2>4 DEF Text
    <2>16. ASSUME mishaps' = {} PROVE FstabMeant' /\ \A q \in Processes : MeansWell(q)'
      <3>1. \A q \in Processes : MeansWell(q)
        BY <2>2, <2>16 DEF MountInv, Whole
      <3>2. FstabMeant'
        BY <2>1, <2>2, <2>15, <3>1 DEF FstabMeant, MeansWell
      <3>3. \A q \in Processes : ~Copying(q)'
        BY <2>11, <2>16
      <3>4. \A q \in Processes \ {p} : MeansWell(q)'
        BY <2>7, <3>1, <3>3 DEF MeansWell, Bystander, Copying
      <3>5. MeansWell(p)'
        BY <2>6 DEF MeansWell
      <3> QED
        BY <3>2, <3>4, <3>5
    <2>17. ASSUME before'[p] # None PROVE Follows(p)'
      <3>1. /\ entry[p] = ParseFstab(before[p], request[p].point) /\ ~NeverParsed(before[p])
            /\ ToChange(p) /\ mounted[p] = mtab[request[p].point] /\ result[p] # "Compliant"
            /\ Text(Tmp) = Rewritten(before[p], entry[p], request[p])
        BY <2>1, <2>6, <2>17 DEF MountInv, Has, Follows
      <3>2. ToChange(p)' = ToChange(p)
        BY <2>2 DEF ToChange
      <3> QED
        BY <2>2, <2>6, <2>15, <3>1, <3>2 DEF Follows
    <2>18. Whole'
      BY <2>16 DEF Whole
    <2> QED
      BY <2>5, <2>8, <2>9, <2>10, <2>12, <2>14, <2>17, <2>18 DEF MountInv
  <1> QED
    BY <1>0, <1>1

\* An administrator writes another fstab.
LEMMA EditKeeps ==
    ASSUME MountInv, Edit
    PROVE  MountInv'
  <1>1. PICK t \in Texts, i \in Inodes :
        /\ Fresh(i)
        /\ contents' = [contents EXCEPT ![i] = t]
        /\ dir' = [dir EXCEPT ![Fstab] = i]
        /\ meant' = meant \cup {t}
    BY DEF Edit
  <1>2. /\ before' = [q \in Processes |-> None] /\ pc' = pc /\ request' = request
        /\ entry' = entry /\ mounted' = mounted /\ source' = source /\ sink' = sink
        /\ result' = result /\ mtab' = mtab /\ now' = now /\ backedUp' = backedUp
        /\ mishaps' = mishaps /\ edits < MaxEdits /\ edits' = edits + 1
    BY DEF Edit, Disturb, locals
  <1>3. /\ MountTypeOK /\ Apart /\ Fstab \in Names /\ Tmp \in Names /\ Seconds \subseteq Names
        /\ Tmp # Fstab /\ Fstab \notin Seconds
    BY MountOptionAssumption DEF MountInv, Names
  <1>4. /\ i # Absent /\ \A n \in Names : dir[n] # i
        /\ \A q \in Processes : source[q] # i /\ sink[q] # i
    BY <1>1, FreshIs
  <1>5. t \in Seq(Lines)
    BY MountOptionAssumption
  <1>6. MountTypeOK'
    <2>1. edits' \in 0..MaxEdits
      BY <1>2, <1>3, MountOptionAssumption DEF MountTypeOK
    <2>2. before' \in [Processes -> {None} \cup Seq(Lines)]
      BY <1>2
    <2> QED
      BY <1>1, <1>2, <1>3, <1>5, <2>1, <2>2 DEF MountTypeOK
  <1>7. /\ \A n \in Names : dir'[n] = IF n = Fstab THEN i ELSE dir[n]
        /\ \A j \in Inodes : contents'[j] = IF j = i THEN t ELSE contents[j]
    BY <1>1, <1>3 DEF MountTypeOK
  <1>8. \A n \in Names \ {Fstab} : dir'[n] = dir[n] /\ (dir[n] # Absent => Text(n)' = Text(n))
    BY <1>3, <1>4, <1>7 DEF MountTypeOK, Text
  <1>9. dir'[Fstab] = i /\ Text(Fstab)' = t
    BY <1>3, <1>7 DEF Text
  <1>10. Apart'
    BY <1>3, <1>4, <1>7 DEF Apart
  <1>11. Alone'
    BY <1>2, <1>3, <1>8 DEF MountInv, Alone, Copying
  <1>12. ASSUME mishaps' \cap {"second", "shared"} = {}, NEW u \in backedUp'
         PROVE  \E s \in Seconds : dir'[s] # Absent /\ Text(s)' = u
    <2>1. PICK s \in Seconds : dir[s] # Absent /\ Text(s) = u
      BY <1>2, <1>12 DEF MountInv, BackupsThere
    <2> QED
      BY <1>3, <1>8, <2>1
  <1>13. BackupsThere'
    BY <1>12 DEF BackupsThere
  <1>14. FstabMeant'
    BY <1>1, <1>4, <1>9 DEF FstabMeant
  <1>15. ASSUME mishaps' = {}, NEW q \in Processes PROVE MeansWell(q)'
    <2>1. MeansWell(q)
      BY <1>2, <1>15 DEF MountInv, Whole
    <2>2. sink[q] # Absent => contents'[sink[q]] = contents[sink[q]]
      BY <1>3, <1>4, <1>7 DEF MountTypeOK
    <2>3. Text(Tmp) \in meant => Text(Tmp) \in meant'
      BY <1>1
    <2>4. dir'[Tmp] = dir[Tmp] /\ (dir[Tmp] # Absent => Text(Tmp)' = Text(Tmp))
      BY <1>3, <1>8
    <2> QED
      BY <1>2, <2>1, <2>2, <2>3, <2>4 DEF MeansWell
  <1>16. Whole'
    BY <1>14, <1>15 DEF Whole
  <1>17. \A q \in Processes : Has(q)'
    BY <1>2 DEF MountInv, Has, Running
  <1>18. \A q \in Processes : before'[q] = None
    BY <1>2
  <1> QED
    BY <1>6, <1>10, <1>11, <1>13, <1>16, <1>17, <1>18 DEF MountInv

-----------------------------------------------------------------------------
\* The invariant holds at the beginning.
LEMMA MountInitInv ==
    ASSUME MountInit
    PROVE  MountInv
  <1>1. PICK t \in Texts : /\ contents = [i \in Inodes |-> IF i = 1 THEN t ELSE <<>>]
                          /\ meant = {t}
    BY DEF MountInit
  <1>2. /\ t \in Seq(Lines) /\ <<>> \in Seq(Lines) /\ 1 \in Inodes /\ Absent \notin Inodes
        /\ Fstab \in Names
    BY MountOptionAssumption, EmptySeq DEF Names
  <1>3. MountTypeOK
    <2>1. now \in Seconds /\ edits \in 0..MaxEdits
      BY MountOptionAssumption DEF MountInit, Seconds
    <2>2. mtab \in [Points -> {None} \cup SUBSET (Options \cup {Zero})]
      <3>1. mtab \in [Points -> {None} \cup SUBSET Options]
        BY MountOptionAssumption DEF MountInit
      <3> QED
        BY <3>1
    <2>3. contents \in [Inodes -> Seq(Lines)] /\ meant \subseteq Seq(Lines)
      BY <1>1, <1>2
    <2> QED
      BY <1>2, <2>1, <2>2, <2>3 DEF MountInit, MountTypeOK
  <1>4. \A n \in Names : dir[n] = IF n = Fstab THEN 1 ELSE Absent
    BY DEF MountInit
  <1>5. Text(Fstab) = t /\ dir[Fstab] # Absent
    BY <1>1, <1>2, <1>4 DEF Text
  <1>6. Apart
    BY <1>4 DEF Apart
  <1>7. \A p \in Processes : /\ pc[p] = "idle" /\ source[p] = Absent /\ sink[p] = Absent
                             /\ result[p] # "Compliant" /\ before[p] = None
    BY MountOptionAssumption DEF MountInit
  <1>8. Alone
    BY <1>7 DEF Alone, Copying
  <1>9. BackupsThere
    BY DEF MountInit, BackupsThere
  <1>10. Whole
    <2>1. FstabMeant
      BY <1>1, <1>5 DEF FstabMeant
    <2>2. \A p \in Processes : MeansWell(p)
      BY <1>7 DEF MeansWell
    <2> QED
      BY <2>1, <2>2 DEF Whole
  <1>11. \A p \in Processes : Has(p)
    BY <1>7 DEF Has, Running
  <1> QED
    BY <1>3, <1>6, <1>7, <1>8, <1>9, <1>10, <1>11 DEF MountInv

\* Every step keeps it.
LEMMA MountNextInv ==
    ASSUME MountInv, [MountNext]_mountVars
    PROVE  MountInv'
  <1>1. CASE UNCHANGED mountVars
    BY <1>1 DEF mountVars, files, locals, MountInv, MountTypeOK, Apart, Alone, BackupsThere,
                Whole, FstabMeant, MeansWell, Has, Running, Follows, ToChange, Excepted, Written,
                Audit, Text, Copying
  <1>2. CASE \E p \in Processes : Step(p)
    <2>1. PICK p \in Processes : Step(p)
      BY <1>2
    <2>2. CASE Call(p)
      BY <2>2, CallKeeps
    <2>3. CASE ReadFstab(p)
      BY <2>3, ReadFstabKeeps
    <2>4. CASE ReadMtab(p)
      BY <2>4, ReadMtabKeeps
    <2>5. CASE OpenFstab(p)
      BY <2>5, OpenFstabKeeps
    <2>6. CASE OpenTmp(p)
      BY <2>6, OpenTmpKeeps
    <2>7. CASE Copy(p)
      BY <2>7, CopyKeeps
    <2>8. CASE Backup(p)
      BY <2>8, BackupKeeps
    <2>9. CASE Install(p)
      BY <2>9, InstallKeeps
    <2>10. CASE Remount(p)
      BY <2>10, RemountKeeps
    <2>11. CASE Killed(p)
      BY <2>11, FailsKeeps DEF Killed
    <2> QED
      BY <2>1, <2>2, <2>3, <2>4, <2>5, <2>6, <2>7, <2>8, <2>9, <2>10, <2>11 DEF Step
  <1>3. CASE Edit
    BY <1>3, EditKeeps
  <1>4. CASE Tick
    BY <1>4, TickKeeps
  <1> QED
    BY <1>1, <1>2, <1>3, <1>4 DEF MountNext

\* It holds in every reachable state.
LEMMA MountInvariant == MountSpec => []MountInv
  BY MountInitInv, MountNextInv, PTL DEF MountSpec

\* The variables of the remediation of mount options have their types.
THEOREM MountTypeCorrect == MountSpec => []MountTypeOK
  <1>1. MountInv => MountTypeOK
    BY DEF MountInv
  <1> QED
    BY <1>1, MountInvariant, PTL

\* What the invariant says of backups and of fstab.
LEMMA InvRecoverable ==
    ASSUME MountInv
    PROVE  Recoverable
  BY DEF MountInv, BackupsThere, Whole, FstabMeant, Recoverable

\* However many processes remediate at once, whoever is killed and whichever call
\* fails, every fstab that was moved away is there as a backup, and the one that is
\* in place is a whole text that somebody meant, but for the mishaps listed.
THEOREM RecoverableCorrect == MountSpec => []Recoverable
  BY InvRecoverable, MountInvariant, PTL

\* What the invariant says of a remediation that nobody disturbed.
LEMMA InvCompliantIsWritten ==
    ASSUME MountInv
    PROVE  CompliantIsWritten
  <1> SUFFICES ASSUME NEW p \in Processes, Undisturbed(p), ~Excepted(p)
               PROVE  Written(p)
    BY DEF CompliantIsWritten, Excepted, Written
  <1> QED
    BY DEF MountInv, Follows, Undisturbed

\* For any fstab, mount points, options and requests: a remediation that nobody
\* disturbed and that answers Compliant has changed the entry of its mount point as
\* it was asked to and no other line, and the audit that follows agrees.
THEOREM CompliantIsWrittenCorrect == MountSpec => []CompliantIsWritten
  BY InvCompliantIsWritten, MountInvariant, PTL

=============================================================================
