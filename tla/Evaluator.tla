----------------------------- MODULE Evaluator -----------------------------
(***************************************************************************)
(* The evaluation of one rule (lib/Evaluator.cpp, lib/Indicators.cpp and   *)
(* the entry points of lib/LuaEvaluator.cpp).  A rule is a tree of anyOf,  *)
(* allOf and not nodes over built-in procedures and Lua scripts.  The      *)
(* recursion of EvaluateProcedure is a walk over that tree: the nodes that *)
(* are open are its call stack, and they are at the same time the          *)
(* evaluation stack of the IndicatorsTree, which has one node for every    *)
(* rule node that was entered.                                             *)
(***************************************************************************)
EXTENDS Naturals, FiniteSets

CONSTANT Rules      \* the rules a caller may evaluate

Status == {"Compliant", "NonCompliant", "NotApplicable"}
Action == {"Audit", "Remediate"}
Function == {"audit", "remediate"}
Kind == {"anyOf", "allOf", "not", "Lua", "builtin"}

(***************************************************************************)
(* The nodes of a rule are numbered in the order in which the JSON value   *)
(* lists them, so a parent comes before its children and siblings are in   *)
(* order.  fns[n] is the entry of mProcedureMap of a built-in procedure.   *)
(***************************************************************************)
WellFormed(r) ==
    /\ r.nodes \subseteq Nat \ {0}
    /\ 1 \in r.nodes
    /\ r.parent \in [r.nodes -> r.nodes]
    /\ r.kind \in [r.nodes -> Kind]
    /\ r.fns \in [r.nodes -> SUBSET Function]
    /\ \A n \in r.nodes \ {1} :
          /\ r.parent[n] < n
          /\ r.kind[r.parent[n]] \in {"anyOf", "allOf", "not"}
    /\ \A n, m \in r.nodes \ {1} :
          r.kind[r.parent[n]] = "not" /\ r.parent[m] = r.parent[n] => m = n
    /\ \A n \in r.nodes :
          r.kind[n] = "not" => \E m \in r.nodes \ {1} : r.parent[m] = n

ASSUME RulesAssumption == \A r \in Rules : WellFormed(r)

VARIABLES
    rule,           \* the rule under evaluation
    phase,          \* whether the call runs, has returned a status, or an Error
    state,          \* new, open or done, for every node
    act,            \* the Action EvaluateProcedure was called with
    status,         \* Node::status of the node's indicator
    called          \* the procedure functions executed at a leaf

vars == <<rule, phase, state, act, status, called>>

Nodes == rule.nodes
Children(n) == {m \in Nodes \ {1} : rule.parent[m] = n}
Back == {n \in Nodes : state[n] = "open"
                       /\ \A m \in Children(n) : state[m] # "open"}

TypeOK ==
    /\ rule \in Rules
    /\ phase \in {"running", "done", "error"}
    /\ state \in [Nodes -> {"new", "open", "done"}]
    /\ act \in [Nodes -> Action]
    /\ status \in [Nodes -> Status]
    /\ called \in [Nodes -> SUBSET Function]

\* ExecuteAudit or ExecuteRemediation enters the root.
Init ==
    /\ rule \in Rules
    /\ phase = "running"
    /\ state = [n \in Nodes |-> IF n = 1 THEN "open" ELSE "new"]
    /\ \E a \in Action : act = [n \in Nodes |-> a]
    /\ status = [n \in Nodes |-> "NonCompliant"]
    /\ called = [n \in Nodes |-> {}]

action == act[1]

-----------------------------------------------------------------------------
\* Mutant: a list or a not returns without a Pop.
ReturnWithoutPop(n, s) ==
    /\ state' = [state EXCEPT ![n] = IF Children(n) # {} THEN "open" ELSE "done"]
    /\ status' = [status EXCEPT ![n] = s]
    /\ phase' = IF n = 1 THEN "done" ELSE phase

\* Mutant: a list evaluates a NotApplicable child again.
ReturnAgain(n, s) ==
    /\ state' = [state EXCEPT ![n] = IF s = "NotApplicable" /\ n # 1 THEN "new" ELSE "done"]
    /\ status' = [status EXCEPT ![n] = s]
    /\ phase' = IF n = 1 THEN "done" ELSE phase

\* mIndicators.Back().status = result; mIndicators.Pop(); return result
Return(n, s) ==
    /\ state' = [state EXCEPT ![n] = "done"]
    /\ status' = [status EXCEPT ![n] = s]
    /\ phase' = IF n = 1 THEN "done" ELSE phase

\* Every caller passes an Error on at once and leaves its indicator pushed.
Fail ==
    /\ phase' = "error"
    /\ UNCHANGED <<state, status>>

\* The status that settles a list, and the one of a list that ran out.
Decisive(k) == IF k = "anyOf" THEN "Compliant" ELSE "NonCompliant"
Neutral(k) == IF k = "anyOf" THEN "NonCompliant" ELSE "Compliant"

Done(n) == {m \in Children(n) : state[m] = "done"}
Decided(n) == \E m \in Done(n) : status[m] = Decisive(rule.kind[n])

Accumulated(n) ==
    IF \E m \in Done(n) : status[m] = "NotApplicable"
    THEN "NotApplicable" ELSE Neutral(rule.kind[n])

\* Mutant: not hands its own action down.
EnterInheriting(n) ==
    \E m \in Children(n) :
        /\ state[m] = "new"
        /\ \A k \in Children(n) : k < m => state[k] # "new"
        /\ state' = [state EXCEPT ![m] = "open"]
        /\ act' = [act EXCEPT ![m] = act[n]]
        /\ UNCHANGED <<rule, phase, status, called>>

\* EvaluateProcedure of the next child; below not the action is always Audit.
Enter(n) ==
    \E m \in Children(n) :
        /\ state[m] = "new"
        /\ \A k \in Children(n) : k < m => state[k] # "new"
        /\ state' = [state EXCEPT ![m] = "open"]
        /\ act' = [act EXCEPT ![m] = IF rule.kind[n] = "not" THEN "Audit" ELSE act[n]]
        /\ UNCHANGED <<rule, phase, status, called>>

\* Mutant: a list looks at the accumulated status only after its last child.
EvaluateListFully(n) ==
    /\ rule.kind[n] \in {"anyOf", "allOf"}
    /\ \/ Enter(n)
       \/ /\ Done(n) = Children(n)
          /\ Return(n, IF Decided(n) THEN Decisive(rule.kind[n]) ELSE Accumulated(n))
          /\ UNCHANGED <<rule, act, called>>

\* Mutant: NotApplicable settles a list.
EvaluateListNotApplicable(n) ==
    /\ rule.kind[n] \in {"anyOf", "allOf"}
    /\ \/ /\ ~Decided(n) /\ Accumulated(n) # "NotApplicable"
          /\ Enter(n)
       \/ /\ Decided(n) \/ Accumulated(n) = "NotApplicable" \/ Done(n) = Children(n)
          /\ Return(n, IF Decided(n) THEN Decisive(rule.kind[n]) ELSE Accumulated(n))
          /\ UNCHANGED <<rule, act, called>>

EvaluateList(n) ==
    /\ rule.kind[n] \in {"anyOf", "allOf"}
    /\ \/ /\ ~Decided(n)
          /\ Enter(n)
       \/ /\ Decided(n)
          /\ Return(n, Decisive(rule.kind[n]))
          /\ UNCHANGED <<rule, act, called>>
       \/ /\ ~Decided(n)
          /\ Done(n) = Children(n)
          /\ Return(n, Accumulated(n))
          /\ UNCHANGED <<rule, act, called>>

Negation(s) == CASE s = "Compliant" -> "NonCompliant"
                 [] s = "NonCompliant" -> "Compliant"
                 [] OTHER -> s

EvaluateNot(n) ==
    /\ rule.kind[n] = "not"
    /\ \/ Enter(n)
       \/ \E m \in Done(n) :
             /\ Return(n, Negation(status[m]))
             /\ UNCHANGED <<rule, act, called>>

\* What fn(arguments, mIndicators, mContext) may answer.
Execute(n, f) ==
    /\ called' = [called EXCEPT ![n] = @ \cup {f}]
    /\ \/ \E s \in Status : Return(n, s)
       \/ Fail
    /\ UNCHANGED <<rule, act>>

\* Mutant: the remediation function is taken whenever there is one.
EvaluateBuiltinEager(n) ==
    /\ rule.kind[n] = "builtin"
    /\ \/ Fail /\ UNCHANGED <<rule, act, called>>
       \/ "remediate" \in rule.fns[n] /\ Execute(n, "remediate")
       \/ "remediate" \notin rule.fns[n] /\ "audit" \in rule.fns[n] /\ Execute(n, "audit")

\* The function for the action, or for a remediation without one the audit
\* function; an Error when the arguments are unusable, the procedure is unknown
\* or there is no function.
EvaluateBuiltinProcedure(n) ==
    /\ rule.kind[n] = "builtin"
    /\ \/ Fail /\ UNCHANGED <<rule, act, called>>
       \/ /\ act[n] = "Remediate" /\ "remediate" \in rule.fns[n]
          /\ Execute(n, "remediate")
       \/ /\ act[n] = "Audit" \/ "remediate" \notin rule.fns[n]
          /\ "audit" \in rule.fns[n]
          /\ Execute(n, "audit")

\* A script calls ce.Audit<Procedure> or ce.Remediate<Procedure>: the latter is a
\* Lua error unless the script runs as a remediation.
LuaProcedureWrapper(n) ==
    \E f \in Function :
        /\ f \notin called[n]
        /\ \/ /\ f = "audit" \/ act[n] = "Remediate"
              /\ called' = [called EXCEPT ![n] = @ \cup {f}]
              /\ \/ UNCHANGED <<phase, state, status>>
                 \/ Fail
           \/ /\ f = "remediate" /\ act[n] # "Remediate"
              /\ Fail
              /\ UNCHANGED called
        /\ UNCHANGED <<rule, act>>

\* A script returns a boolean, never NotApplicable, or ends in an Error.
EvaluateLua(n) ==
    /\ rule.kind[n] = "Lua"
    /\ \/ LuaProcedureWrapper(n)
       \/ /\ \/ \E s \in {"Compliant", "NonCompliant"} : Return(n, s)
             \/ Fail
          /\ UNCHANGED <<rule, act, called>>

EvaluateProcedure ==
    /\ phase = "running"
    /\ \E n \in Back : \/ EvaluateList(n)
                       \/ EvaluateNot(n)
                       \/ EvaluateBuiltinProcedure(n)
                       \/ EvaluateLua(n)

Finished ==
    /\ phase # "running"
    /\ UNCHANGED vars

Next == EvaluateProcedure \/ Finished

Spec == Init /\ [][Next]_vars

\* The engine is one thread; a procedure or script returns at some time.
FairSpec == Spec /\ WF_vars(EvaluateProcedure)

-----------------------------------------------------------------------------
(***************************************************************************)
(* Properties.                                                             *)
(***************************************************************************)

\* n and the nodes above it: what every set closed under parent holds.
Path(n) ==
    {a \in Nodes : \A S \in SUBSET Nodes :
        n \in S /\ (\A m \in S \ {1} : rule.parent[m] \in S) => a \in S}

\* A remediation function runs only when a remediation was asked for, and never
\* anywhere below a not ("NOT can be only used as an audit!", Evaluator.cpp),
\* whatever the nesting, and Lua scripts included.
RemediatesOnlyWhenAsked ==
    \A n \in Nodes : "remediate" \in called[n] =>
        /\ action = "Remediate"
        /\ \A a \in Path(n) : rule.kind[a] # "not"

\* The assertion of NestedListFormatter::FormatNode: below anyOf, an indicator
\* that is not the last one is never Compliant; below allOf, never NonCompliant.
\* It holds at any time, so also for the tree an Error leaves behind.
LastDecides ==
    \A n \in Nodes : rule.kind[n] \in {"anyOf", "allOf"} =>
        \A m \in Children(n) :
            (\E k \in Children(n) : k > m /\ state[k] # "new") =>
                state[m] = "done" /\ status[m] # Decisive(rule.kind[n])

\* The evaluation stack: the indicators that are pushed and not yet popped are
\* the nodes on the path to the one being evaluated, and they are all popped
\* when a status is returned.
StackIsPath ==
    /\ phase = "done" <=> \A n \in Nodes : state[n] # "open"
    /\ \A n \in Nodes : state[n] = "open" =>
          \A a \in Path(n) : state[a] = "open"
    /\ Cardinality(Back) <= 1

\* The statuses the nodes may have by the strong three-valued logic, in which
\* NotApplicable is the middle value: any for a leaf, and for the others what
\* follows from the nodes below.
Meanings ==
    {value \in [Nodes -> Status] :
        \A n \in Nodes :
            LET below == {value[m] : m \in Children(n)} IN
            /\ rule.kind[n] = "anyOf" =>
                  value[n] = IF "Compliant" \in below THEN "Compliant"
                             ELSE IF "NotApplicable" \in below THEN "NotApplicable"
                             ELSE "NonCompliant"
            /\ rule.kind[n] = "allOf" =>
                  value[n] = IF "NonCompliant" \in below THEN "NonCompliant"
                             ELSE IF "NotApplicable" \in below THEN "NotApplicable"
                             ELSE "Compliant"
            /\ rule.kind[n] = "not" => \A s \in below : value[n] = Negation(s)}

Leaves == {n \in Nodes : rule.kind[n] \in {"Lua", "builtin"}}

\* The leaves that were evaluated have the statuses they returned.
Agrees(value) == \A n \in Leaves : state[n] = "done" => value[n] = status[n]

\* The status returned is the meaning of the rule, and no value of a leaf that
\* EvaluateList skipped would have changed it.
SkippedLeavesDoNotMatter ==
    phase = "done" => \A value \in Meanings : Agrees(value) => value[1] = status[1]

\* Every evaluation ends, however the rule is nested.
Terminates == <>(phase # "running")

=============================================================================
