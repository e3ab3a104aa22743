---------------------------- MODULE KompliProofs ----------------------------
(***************************************************************************)
(* Proofs that a run of KompliSession keeps its properties for any plans,  *)
(* documents, rules, procedures and values, and whatever the plan command  *)
(* and other writers leave in the plan file.                               *)
(***************************************************************************)
EXTENDS KompliSession, FiniteSetTheorems, SequenceTheorems, WellFoundedInduction, TLAPS

-----------------------------------------------------------------------------
(***************************************************************************)
(* The inductive invariant.                                                *)
(***************************************************************************)
InputIsText == \E S : input_ \in Seq(S)

Early == {"idle", "read", "files", "load", "validate"}
InRule == {"procedure", "audit", "remediate", "enforce"}
InLoop == InRule \cup {"rule"}
Running == InLoop \cup {"finish"}

\* Up to the validation nothing was done, and the documents are those of the plan.
NothingDone ==
    /\ pc \in Early =>
        /\ evaluations = << >> /\ rules = << >> /\ b = 1 /\ i = 1
        /\ ~hasError /\ evaluatedRules = 0 /\ status = "Compliant"
    /\ pc \in {"idle", "read"} => plan = NoPlan
    /\ pc \in {"idle", "read", "files"} => documents = << >>
    /\ pc = "load" => Len(documents) < Len(plan)
    /\ pc = "validate" => Len(documents) = Len(plan)

OneIdentityEach ==
    \A m, n \in DOMAIN documents : documents[m].identity = documents[n].identity => m = n

Validated ==
    pc \in Running \/ evaluations # << >> => Len(documents) = Len(plan) /\ ValidPlan

\* The next rule is one of the documents, and after the last there is none.
Position ==
    /\ pc \in InLoop => b \in 1 .. Len(plan) /\ i \in 1 .. Len(documents[b].resources)
    /\ pc = "finish" => b = Len(plan) + 1 /\ i = 1

\* The rule that is under way is one of the plan, with the plan's parameters.
Chosen ==
    pc \in InRule =>
        /\ entry.id \in DOMAIN plan[b].rules
        /\ procedure = Overridden(entry.procedure, planned.parameters)
        /\ pc # "procedure" => pc = planned.mode

\* What the engine holds for it is its own procedure, whatever was there before.
IsSet ==
    pc \in {"audit", "remediate"} =>
        mDatabase[entry.ruleName] =
            [payload |-> procedure, parameters |-> procedure.parameters]

\* The status is that of the reported rules, and a rule that was counted and is not
\* under way was reported, unless one failed.
Accumulated ==
    /\ status = IF "NonCompliant" \in ReportedStatuses THEN "NonCompliant"
                ELSE IF "NotApplicable" \in ReportedStatuses THEN "NotApplicable"
                ELSE "Compliant"
    /\ ReportedStatuses # {} => evaluatedRules > 0
    /\ pc \in InRule /\ planned.mode # "enforce" => evaluatedRules > 0
    /\ pc \in {"rule", "finish"} /\ ~hasError /\ evaluatedRules > 0 => ReportedStatuses # {}

\* The entry of the m-th rule of the n-th document is that rule's.
Reported(n, m) ==
    LET id == documents[n].resources[m].id
    IN  /\ EntryOf(n, m).id = id
        /\ EntryOf(n, m).status = "Skipped" <=> id \notin DOMAIN plan[n].rules

\* Unless one failed, the rules before the next one are reported, each at its place.
ReportedSoFar ==
    pc \in Running /\ ~hasError =>
        /\ IsFiniteSet(Before(b, i)) /\ Len(rules) = Cardinality(Before(b, i))
        /\ \A n, m \in Nat : <<n, m>> \in Before(b, i) => Reported(n, m)

NotEnded == pc # "done" => overall = Unknown /\ exit = Unknown

Inv ==
    /\ TypeOK /\ InputIsText /\ NothingDone /\ OneIdentityEach /\ Validated /\ Position
    /\ Chosen /\ IsSet /\ Accumulated /\ ReportedSoFar /\ NotEnded
    /\ EvaluatesThePlan /\ CompleteResult /\ OverallStatus

-----------------------------------------------------------------------------
\* The session begins without a plan, and with nothing done.
LEMMA InitInv == InitSession => Inv
<1> SUFFICES ASSUME InitSession PROVE Inv
  OBVIOUS
<1>1. /\ plan = << >> /\ pc = "idle" /\ continueOnError \in BOOLEAN
      /\ documents = << >> /\ b = 1 /\ i = 1 /\ procedure = Unknown
      /\ status = "Compliant" /\ hasError = FALSE /\ evaluatedRules = 0
      /\ rules = << >> /\ evaluations = << >> /\ exit = Unknown /\ overall = Unknown
      /\ mDatabase = [r \in Rules |-> NoProcedure] /\ input_ = << >>
  BY DEF InitSession, InitRun, NoPlan
<1>2. TypeOK
  <2>1. DatabaseType
    BY <1>1 DEF DatabaseType
  <2>2. Len(documents) = 0 /\ Len(plan) = 0
    BY <1>1
  <2>3. b \in 1 .. Len(plan) + 1
    BY <1>1, <2>2
  <2>4. documents \in Seq(Documents) /\ Len(documents) <= Len(plan)
    BY <1>1, <2>2
  <2>5. plan \in Seq(PlanBenchmark) /\ rules \in Seq(RuleResult) /\ evaluations \in Seq(Evaluation)
    BY <1>1
  <2>6. i \in Nat \ {0} /\ evaluatedRules \in Nat
    BY <1>1
  <2>7. status \in Statuses /\ exit \in {0, 1, Unknown} /\ overall \in Statuses \cup {Unknown}
    BY <1>1 DEF Statuses
  <2>8. pc \in Steps /\ procedure \in ProcedurePayload \cup {Unknown} /\ hasError \in BOOLEAN
    BY <1>1 DEF Steps
  <2> QED
    BY <1>1, <2>1, <2>3, <2>4, <2>5, <2>6, <2>7, <2>8 DEF TypeOK
<1>3. InputIsText /\ NothingDone /\ OneIdentityEach /\ Validated /\ Position
      /\ Chosen /\ IsSet /\ ReportedSoFar /\ NotEnded /\ EvaluatesThePlan
  BY <1>1 DEF InputIsText, NothingDone, OneIdentityEach, Validated, Position, Chosen,
              IsSet, ReportedSoFar, NotEnded, EvaluatesThePlan, Early, InRule, InLoop,
              Running, NoPlan
<1>4. ReportedStatuses = {}
  BY <1>1 DEF ReportedStatuses
<1>5. Accumulated /\ CompleteResult /\ OverallStatus
  BY <1>1, <1>4, RunAssumption DEF Accumulated, CompleteResult, OverallStatus, InRule
<1> QED
  BY <1>2, <1>3, <1>5 DEF Inv

\* The order of the rules is that of the documents.
LEMMA SameOrder ==
    ASSUME UNCHANGED documents
    PROVE  Positions' = Positions /\ \A n, m : Before(n, m)' = Before(n, m)
  BY DEF Before, Positions

\* A step that leaves the run as it is keeps the invariant.
LEMMA UnchangedInv ==
    ASSUME Inv, UNCHANGED vars, InputIsText'
    PROVE  Inv'
<1>1. /\ UNCHANGED <<plan, continueOnError, pc, documents, b, i, procedure, status, hasError>>
      /\ UNCHANGED <<evaluatedRules, rules, evaluations, mDatabase, exit, overall>>
  BY DEF vars, input, runVars
<1>2. TypeOK' /\ NothingDone' /\ OneIdentityEach' /\ NotEnded'
  BY <1>1 DEF Inv, TypeOK, NothingDone, OneIdentityEach, NotEnded, DatabaseType
<1>3. Validated' /\ Position' /\ Chosen' /\ IsSet'
  BY <1>1 DEF Inv, Validated, ValidPlan, Position, Chosen, IsSet, entry, planned
<1>4. EvaluatesThePlan'
  BY <1>1 DEF Inv, EvaluatesThePlan
<1>5. Accumulated' /\ OverallStatus'
  BY <1>1 DEF Inv, Accumulated, OverallStatus, ReportedStatuses, planned, entry
<1>6. /\ Before(b, i)' = Before(b, i)
      /\ Positions' = Positions
      /\ \A n, m : EntryOf(n, m)' = EntryOf(n, m)
      /\ \A n, m : Reported(n, m)' = Reported(n, m)
  BY <1>1, SameOrder DEF EntryOf, Reported
<1>7. ReportedSoFar' /\ CompleteResult'
  BY <1>1, <1>6 DEF Inv, ReportedSoFar, CompleteResult
<1> QED
  BY <1>2, <1>3, <1>4, <1>5, <1>7 DEF Inv

\* A position is one of a rule.
LEMMA PositionsAre ==
    ASSUME NEW p
    PROVE  p \in Positions <=>
            \E n \in DOMAIN documents : \E m \in DOMAIN documents[n].resources : p = <<n, m>>
<1> DEFINE P(n) == {n} \X DOMAIN documents[n].resources
<1>1. \A n : p \in P(n) <=> \E m \in DOMAIN documents[n].resources : p = <<n, m>>
  OBVIOUS
<1>2. p \in Positions <=> \E n \in DOMAIN documents : p \in P(n)
  BY Zenon DEF Positions
<1> HIDE DEF P
<1> QED
  BY <1>1, <1>2

\* A run that is refused, at whatever step, reports nothing (main returns 1).
LEMMA RefuseInv ==
    ASSUME Inv, pc # "done", Refuse, InputIsText', DatabaseType',
           UNCHANGED <<plan, continueOnError, documents, b, i, procedure, status, hasError>>,
           UNCHANGED <<evaluatedRules, rules>>,
           evaluations' \in Seq(Evaluation), EvaluatesThePlan',
           evaluations' # << >> => Len(documents) = Len(plan) /\ ValidPlan
    PROVE  Inv'
<1>1. pc' = "done" /\ exit' = 1 /\ overall' = overall /\ overall = Unknown
  BY DEF Refuse, Inv, NotEnded
<1>2. TypeOK'
  BY <1>1 DEF Inv, TypeOK, Steps
<1>3. NothingDone' /\ OneIdentityEach' /\ NotEnded' /\ Position' /\ Chosen' /\ IsSet'
  BY <1>1 DEF Inv, NothingDone, OneIdentityEach, NotEnded, Position, Chosen, IsSet, Early,
              InLoop, InRule
<1>4. Validated'
  BY <1>1 DEF Validated, ValidPlan, Running, InLoop, InRule
<1>5. Accumulated' /\ OverallStatus'
  BY <1>1 DEF Inv, Accumulated, OverallStatus, ReportedStatuses, InRule
<1>6. ReportedSoFar' /\ CompleteResult'
  BY <1>1 DEF ReportedSoFar, CompleteResult, Running, InLoop, InRule
<1> QED
  BY <1>2, <1>3, <1>4, <1>5, <1>6 DEF Inv

\* The loop visits the rules in document order, each once.
LEMMA NextRuleOrder ==
    ASSUME TypeOK, Validated, Position, pc \in InLoop, NextRule,
           UNCHANGED <<plan, documents>>
    PROVE  /\ pc' \in {"rule", "finish"} /\ b' \in 1 .. Len(plan) + 1 /\ i' \in Nat \ {0}
           /\ Position'
           /\ <<b, i>> \notin Before(b, i)
           /\ Before(b, i)' = Before(b, i) \cup {<<b, i>>}
<1>1. /\ b \in 1 .. Len(plan) /\ i \in 1 .. Len(documents[b].resources)
      /\ Len(documents) = Len(plan)
      /\ Len(plan) \in Nat
  BY DEF Position, Validated, Running, TypeOK
<1>2. \A n \in 1 .. Len(plan) : /\ Len(documents[n].resources) \in Nat \ {0}
                                /\ DOMAIN documents[n].resources = 1 .. Len(documents[n].resources)
  <2> SUFFICES ASSUME NEW n \in 1 .. Len(plan)
               PROVE  /\ Len(documents[n].resources) \in Nat \ {0}
                      /\ DOMAIN documents[n].resources = 1 .. Len(documents[n].resources)
    OBVIOUS
  <2>1. documents[n] \in Documents
    BY <1>1 DEF TypeOK
  <2>2. documents[n].resources \in Seq(ResourceType) /\ documents[n].resources # << >>
    BY <2>1, PlanAssumption DEF IsDocument
  <2>3. PICK r : r = documents[n].resources
    OBVIOUS
  <2>4. Len(r) \in Nat \ {0} /\ DOMAIN r = 1 .. Len(r)
    BY <2>2, <2>3
  <2> QED
    BY <2>3, <2>4
<1>3. PICK R \in Nat : /\ R = Len(documents[b].resources)
                        /\ i \in 1 .. R /\ DOMAIN documents[b].resources = 1 .. R
  BY <1>1, <1>2
<1>4. \/ i < R /\ i' = i + 1 /\ b' = b /\ pc' = "rule"
      \/ i = R /\ i' = 1 /\ b' = b + 1 /\ pc' = IF b < Len(plan) THEN "rule" ELSE "finish"
  BY <1>3 DEF NextRule
<1>5. Position'
  BY <1>1, <1>2, <1>3, <1>4 DEF Position, InLoop, InRule
<1>6. <<b, i>> \notin Before(b, i)
  BY <1>1 DEF Before
<1>7. DOMAIN documents = 1 .. Len(plan)
  BY <1>1 DEF TypeOK
<1>8. \A p \in Positions : /\ p[1] \in 1 .. Len(plan) /\ p[2] \in Nat \ {0}
                            /\ p = <<p[1], p[2]>> /\ (p[1] = b => p[2] <= R)
  BY <1>2, <1>3, <1>7, PositionsAre
<1>9. <<b, i>> \in Positions
  BY <1>1, <1>3, <1>7, PositionsAre
<1>10. ASSUME NEW p \in Positions
       PROVE  (p[1] < b' \/ (p[1] = b' /\ p[2] < i'))
                <=> p[1] < b \/ (p[1] = b /\ p[2] < i) \/ p = <<b, i>>
  <2>1. PICK x \in 1 .. Len(plan), y \in Nat \ {0} :
            p[1] = x /\ p[2] = y /\ p = <<x, y>> /\ (x = b => y <= R)
    BY <1>8
  <2>2. p = <<b, i>> <=> x = b /\ y = i
    BY <2>1
  <2>3. (x < b' \/ (x = b' /\ y < i')) <=> x < b \/ (x = b /\ y < i) \/ (x = b /\ y = i)
    BY <1>1, <1>3, <1>4, <2>1
  <2> QED
    BY <2>1, <2>2, <2>3
<1>11. Before(b, i)' = {p \in Positions : p[1] < b' \/ (p[1] = b' /\ p[2] < i')}
  BY SameOrder DEF Before
<1>12. ASSUME NEW p PROVE p \in Before(b, i)' <=> p \in Before(b, i) \/ p = <<b, i>>
  BY <1>9, <1>10, <1>11 DEF Before
<1> QED
  BY <1>1, <1>3, <1>4, <1>5, <1>6, <1>12

\* A rule that fails ends the run or is passed over, and the exit code will tell.
LEMMA FailInv ==
    ASSUME Inv, pc \in InLoop, Fail, input_' = input_, DatabaseType',
           UNCHANGED <<plan, continueOnError, documents, procedure, status>>,
           UNCHANGED <<evaluatedRules, rules>>,
           evaluations' \in Seq(Evaluation), EvaluatesThePlan'
    PROVE  Inv'
<1>1. Len(documents) = Len(plan) /\ ValidPlan
  BY DEF Inv, Validated, Running
<1>2. InputIsText'
  BY DEF Inv, InputIsText
<1>3. CASE ~continueOnError
  <2>1. Refuse /\ UNCHANGED <<hasError, b, i>>
    BY <1>3 DEF Fail
  <2>2. pc # "done"
    BY DEF InLoop, InRule
  <2> QED
    BY <1>1, <1>2, <2>1, <2>2, RefuseInv
<1>4. CASE continueOnError
  <2>1. hasError' = TRUE /\ NextRule /\ exit' = exit /\ overall' = overall
    BY <1>4 DEF Fail
  <2>2. pc' \in {"rule", "finish"} /\ b' \in 1 .. Len(plan) + 1 /\ i' \in Nat \ {0} /\ Position'
    BY <2>1, NextRuleOrder DEF Inv
  <2>3. overall = Unknown /\ exit = Unknown
    BY DEF Inv, NotEnded, InLoop, InRule
  <2>4. TypeOK'
    BY <2>1, <2>2 DEF Inv, TypeOK, Steps
  <2>5. NothingDone' /\ OneIdentityEach' /\ NotEnded' /\ Chosen' /\ IsSet'
    BY <2>1, <2>2, <2>3 DEF Inv, NothingDone, OneIdentityEach, NotEnded, Chosen, IsSet,
                            Early, InRule
  <2>6. Validated'
    BY <1>1 DEF Validated, ValidPlan
  <2>7. Accumulated' /\ OverallStatus'
    BY <2>1, <2>2, <2>3 DEF Inv, Accumulated, OverallStatus, ReportedStatuses, InRule
  <2>8. ReportedSoFar' /\ CompleteResult'
    BY <2>1, <2>3, RunAssumption DEF ReportedSoFar, CompleteResult
  <2> QED
    BY <1>2, <2>2, <2>4, <2>5, <2>6, <2>7, <2>8 DEF Inv
<1> QED
  BY <1>3, <1>4 DEF Inv, TypeOK

\* What the loop reads of a document.
LEMMA DocumentType ==
    ASSUME TypeOK, NEW n \in DOMAIN documents
    PROVE  /\ documents[n].resources \in Seq(ResourceType)
           /\ DOMAIN documents[n].resources = 1 .. Len(documents[n].resources)
           /\ Len(documents[n].resources) \in Nat \ {0}
           /\ \A j, k \in DOMAIN documents[n].resources :
                documents[n].resources[j].id = documents[n].resources[k].id => j = k
<1>1. documents[n] \in Documents
  BY DEF TypeOK
<1>2. /\ documents[n].resources \in Seq(ResourceType) /\ documents[n].resources # << >>
      /\ \A j, k \in DOMAIN documents[n].resources :
            documents[n].resources[j].id = documents[n].resources[k].id => j = k
  BY <1>1, PlanAssumption DEF IsDocument
<1>3. PICK r : r = documents[n].resources
  OBVIOUS
<1>4. Len(r) \in Nat \ {0} /\ DOMAIN r = 1 .. Len(r)
  BY <1>2, <1>3
<1> QED
  BY <1>2, <1>3, <1>4

\* The rule and the plan for it.
LEMMA EntryType ==
    ASSUME TypeOK, Validated, Position, pc \in InLoop
    PROVE  /\ b \in DOMAIN plan /\ b \in DOMAIN documents
           /\ i \in DOMAIN documents[b].resources
           /\ entry \in ResourceType /\ plan[b] \in PlanBenchmark
           /\ entry.procedure \in ProcedurePayload
<1>1. b \in DOMAIN plan /\ b \in DOMAIN documents
  BY DEF TypeOK, Validated, Position, Running
<1>2. i \in DOMAIN documents[b].resources
  BY <1>1, DocumentType DEF Position
<1>3. entry \in ResourceType
  BY <1>1, <1>2, DocumentType DEF entry
<1>4. plan[b] \in PlanBenchmark
  BY <1>1 DEF TypeOK
<1> QED
  BY <1>1, <1>2, <1>3, <1>4, EngineAssumption DEF ResourceType

\* A rule before another has fewer rules before it.
LEMMA BeforeOrder ==
    ASSUME TypeOK, b \in Nat, IsFiniteSet(Before(b, i)),
           NEW n, NEW m, <<n, m>> \in Before(b, i)
    PROVE  /\ Cardinality(Before(n, m)) \in Nat
           /\ Cardinality(Before(n, m)) < Cardinality(Before(b, i))
<1>1. \A p \in Positions : p[1] \in Nat /\ p[2] \in Nat
  <2> SUFFICES ASSUME NEW p \in Positions PROVE p[1] \in Nat /\ p[2] \in Nat
    OBVIOUS
  <2>1. PICK k \in DOMAIN documents : \E l \in DOMAIN documents[k].resources : p = <<k, l>>
    BY PositionsAre
  <2>2. PICK l \in DOMAIN documents[k].resources : p = <<k, l>>
    BY <2>1
  <2>3. k \in Nat /\ l \in Nat
    BY <2>1, DocumentType DEF TypeOK
  <2> QED
    BY <2>2, <2>3
<1>2. <<n, m>> \in Positions /\ n \in Nat /\ m \in Nat /\ (n < b \/ (n = b /\ m < i))
  BY <1>1 DEF Before
<1>3. i \in Nat
  BY DEF TypeOK
<1>4. Before(n, m) \subseteq Before(b, i)
  BY <1>1, <1>2, <1>3 DEF Before
<1>5. <<n, m>> \notin Before(n, m)
  BY <1>2 DEF Before
<1>6. Before(n, m) # Before(b, i)
  BY <1>5
<1> HIDE DEF Before
<1>7. IsFiniteSet(Before(n, m)) /\ Cardinality(Before(n, m)) <= Cardinality(Before(b, i))
      /\ Cardinality(Before(n, m)) # Cardinality(Before(b, i))
  BY <1>4, <1>6, FS_Subset
<1> QED
  BY <1>7, FS_CardinalityType

\* A result that is reported takes its rule's place (AddEntry of the formatter).
LEMMA AddInv ==
    ASSUME Inv, pc \in InLoop, NEW s \in Statuses \cup {"Skipped"},
           NEW action \in {"Audit", "Remediation", "none"},
           AddEntry(s, action), input_' = input_, DatabaseType',
           UNCHANGED <<plan, continueOnError, documents, procedure, evaluatedRules>>,
           evaluations' \in Seq(Evaluation), EvaluatesThePlan',
           s = "Skipped" <=> entry.id \notin DOMAIN plan[b].rules,
           status' = IF s = "Skipped" THEN status ELSE CombineAllOf(status, s),
           s # "Skipped" => evaluatedRules > 0
    PROVE  Inv'
<1> DEFINE e == [id |-> entry.id, status |-> s, action |-> action]
<1>1. /\ rules' = Append(rules, e) /\ NextRule
      /\ hasError' = hasError /\ exit' = exit /\ overall' = overall
      /\ overall = Unknown /\ exit = Unknown
  BY DEF AddEntry, Inv, NotEnded, InLoop, InRule
<1>2. Len(documents) = Len(plan) /\ ValidPlan
  BY DEF Inv, Validated, Running
<1>3. /\ pc' \in {"rule", "finish"} /\ b' \in 1 .. Len(plan) + 1 /\ i' \in Nat \ {0}
      /\ Position' /\ <<b, i>> \notin Before(b, i)
      /\ Before(b, i)' = Before(b, i) \cup {<<b, i>>}
  BY <1>1, NextRuleOrder DEF Inv
<1>4. /\ b \in DOMAIN documents /\ i \in DOMAIN documents[b].resources
      /\ e \in RuleResult
  BY EntryType DEF Inv, RuleResult, ResourceType
<1>5. PICK x : x = e
  OBVIOUS
<1>6. /\ x.id = documents[b].resources[i].id /\ x.status = s /\ x \in RuleResult
      /\ rules' = Append(rules, x)
  BY <1>1, <1>4, <1>5 DEF entry
<1> HIDE DEF e
<1>7. /\ rules' \in Seq(RuleResult) /\ Len(rules') = Len(rules) + 1 /\ Len(rules) \in Nat
      /\ \A k \in 1 .. Len(rules) : rules'[k] = rules[k]
      /\ rules'[Len(rules) + 1] = x
  BY <1>6, AppendProperties DEF Inv, TypeOK
<1>8. ReportedStatuses' = ReportedStatuses \cup ({s} \ {"Skipped"})
  <2>1. DOMAIN rules' = DOMAIN rules \cup {Len(rules) + 1} /\ DOMAIN rules = 1 .. Len(rules)
    BY <1>7 DEF Inv, TypeOK
  <2>2. \A k \in DOMAIN rules : rules'[k] = rules[k]
    BY <1>7, <2>1
  <2>3. rules'[Len(rules) + 1].status = s
    BY <1>6, <1>7
  <2> QED
    BY <2>1, <2>2, <2>3 DEF ReportedStatuses
<1>9. InputIsText' /\ NothingDone' /\ OneIdentityEach' /\ NotEnded' /\ Chosen' /\ IsSet'
  BY <1>1, <1>3 DEF Inv, InputIsText, NothingDone, OneIdentityEach, NotEnded, Chosen, IsSet,
                    Early, InRule
<1>10. Validated'
  BY <1>2 DEF Validated, ValidPlan
<1>11. TypeOK'
  <2>1. status' \in Statuses
    BY DEF Inv, TypeOK, Statuses, CombineAllOf
  <2> QED
    BY <1>1, <1>3, <1>7, <2>1 DEF Inv, TypeOK, Steps
<1>12. Accumulated'
  <2>1. PICK R, Q : R = ReportedStatuses /\ Q = ReportedStatuses'
    OBVIOUS
  <2>2. Q = R \cup ({s} \ {"Skipped"})
    BY <1>8, <2>1
  <2>3. /\ status = IF "NonCompliant" \in R THEN "NonCompliant"
                    ELSE IF "NotApplicable" \in R THEN "NotApplicable" ELSE "Compliant"
        /\ R # {} => evaluatedRules > 0
        /\ pc = "rule" /\ ~hasError /\ evaluatedRules > 0 => R # {}
    BY <2>1 DEF Inv, Accumulated
  <2>4. status' = IF "NonCompliant" \in Q THEN "NonCompliant"
                  ELSE IF "NotApplicable" \in Q THEN "NotApplicable" ELSE "Compliant"
    <3>1. CASE s = "Skipped"
      BY <2>2, <2>3, <3>1
    <3>2. CASE s = "Compliant"
      BY <2>2, <2>3, <3>2 DEF CombineAllOf
    <3>3. CASE s = "NonCompliant"
      BY <2>2, <2>3, <3>3 DEF CombineAllOf
    <3>4. CASE s = "NotApplicable"
      BY <2>2, <2>3, <3>4 DEF CombineAllOf
    <3> QED
      BY <3>1, <3>2, <3>3, <3>4 DEF Statuses
  <2>5. Q # {} => evaluatedRules > 0
    BY <2>2, <2>3
  <2>6. ~hasError /\ evaluatedRules > 0 => Q # {}
    <3>1. s = "Skipped" => pc = "rule"
      BY DEF Inv, Chosen, InLoop, entry
    <3> QED
      BY <2>2, <2>3, <3>1
  <2> QED
    BY <1>1, <1>3, <2>1, <2>4, <2>5, <2>6 DEF Accumulated, InRule
<1>13. CompleteResult' /\ OverallStatus'
  BY <1>1, RunAssumption DEF CompleteResult, OverallStatus
<1>14. ReportedSoFar'
  <2> SUFFICES ASSUME ~hasError
               PROVE  /\ IsFiniteSet(Before(b, i)') /\ Len(rules') = Cardinality(Before(b, i)')
                      /\ \A n, m \in Nat : <<n, m>> \in Before(b, i)' => Reported(n, m)'
    BY <1>1 DEF ReportedSoFar
  <2>1. /\ IsFiniteSet(Before(b, i)) /\ Len(rules) = Cardinality(Before(b, i))
        /\ \A n, m \in Nat : <<n, m>> \in Before(b, i) => Reported(n, m)
    BY DEF Inv, ReportedSoFar, Running
  <2>2. /\ IsFiniteSet(Before(b, i)')
        /\ Cardinality(Before(b, i)') = Cardinality(Before(b, i)) + 1
    BY <1>3, <2>1, FS_AddElement
  <2>3. ASSUME NEW n \in Nat, NEW m \in Nat, <<n, m>> \in Before(b, i)
        PROVE  Reported(n, m)'
    <3>1. PICK c : c = Cardinality(Before(n, m))
      OBVIOUS
    <3>2. c \in Nat /\ c + 1 \in 1 .. Len(rules)
      <4>1. b \in Nat /\ TypeOK
        BY <1>4 DEF Inv, TypeOK
      <4>2. c \in Nat /\ c < Cardinality(Before(b, i))
        BY <2>1, <2>3, <3>1, <4>1, BeforeOrder
      <4> QED
        BY <1>7, <2>1, <4>2
    <3>3. EntryOf(n, m)' = rules'[c + 1] /\ EntryOf(n, m) = rules[c + 1]
      BY <3>1, SameOrder DEF EntryOf
    <3>4. EntryOf(n, m)' = EntryOf(n, m)
      BY <1>7, <3>2, <3>3
    <3>5. Reported(n, m)
      BY <2>1, <2>3
    <3> QED
      BY <3>4, <3>5 DEF Reported
  <2>4. ASSUME NEW n \in Nat, NEW m \in Nat, n = b, m = i
        PROVE  Reported(n, m)'
    <3>1. Before(n, m)' = Before(n, m) /\ Before(n, m) = Before(b, i)
      BY <2>4, SameOrder
    <3>2. EntryOf(n, m)' = x
      BY <1>7, <2>1, <3>1 DEF EntryOf
    <3> QED
      BY <1>6, <2>4, <3>2 DEF Reported, entry
  <2> QED
    BY <1>3, <1>7, <2>1, <2>2, <2>3, <2>4
<1> QED
  BY <1>3, <1>9, <1>10, <1>11, <1>12, <1>13, <1>14 DEF Inv

-----------------------------------------------------------------------------
\* The run is refused before or after the loop: files that are named twice, a file that
\* does not load, a plan that does not hold, or a failure of the formatter.
LEMMA RefusedInv ==
    ASSUME Inv, pc \in {"files", "load", "validate", "finish"}, Refuse, input_' = input_,
           UNCHANGED <<input, documents, runVars>>
    PROVE  Inv'
<1>1. /\ UNCHANGED <<plan, continueOnError, documents, b, i, procedure, status, hasError>>
      /\ UNCHANGED <<evaluatedRules, rules, evaluations, mDatabase>>
  BY DEF input, runVars
<1>2. evaluations # << >> => Len(documents) = Len(plan) /\ ValidPlan
  BY DEF Inv, Validated
<1>3. InputIsText' /\ DatabaseType' /\ EvaluatesThePlan' /\ evaluations' \in Seq(Evaluation)
  BY <1>1 DEF Inv, InputIsText, TypeOK, DatabaseType, EvaluatesThePlan
<1> QED
  BY <1>1, <1>2, <1>3, RefuseInv

\* A step before the loop changes at most the documents.
LEMMA EarlyInv ==
    ASSUME Inv, pc \in {"files", "load"}, pc' \in {"load", "validate"},
           UNCHANGED <<input, runVars, exit, overall>>, input_' = input_,
           documents' \in Seq(Documents), Len(documents') <= Len(plan), OneIdentityEach',
           pc' = "load" => Len(documents') < Len(plan),
           pc' = "validate" => Len(documents') = Len(plan)
    PROVE  Inv'
<1>1. /\ UNCHANGED <<plan, continueOnError, b, i, procedure, status, hasError>>
      /\ UNCHANGED <<evaluatedRules, rules, evaluations, mDatabase, exit, overall>>
      /\ evaluations = << >> /\ rules = << >> /\ b = 1 /\ i = 1
      /\ ~hasError /\ evaluatedRules = 0 /\ status = "Compliant"
      /\ overall = Unknown /\ exit = Unknown
  BY DEF input, runVars, Inv, NothingDone, Early, NotEnded
<1>2. TypeOK'
  BY <1>1 DEF Inv, TypeOK, Steps, DatabaseType
<1>3. InputIsText' /\ NothingDone' /\ NotEnded' /\ Validated' /\ Position' /\ Chosen' /\ IsSet'
      /\ ReportedSoFar' /\ EvaluatesThePlan'
  BY <1>1 DEF Inv, InputIsText, NothingDone, NotEnded, Validated, Position, Chosen, IsSet,
              ReportedSoFar, EvaluatesThePlan, Early, InRule, InLoop, Running
<1>4. ReportedStatuses' = {}
  BY <1>1 DEF ReportedStatuses
<1>5. Accumulated' /\ CompleteResult' /\ OverallStatus'
  BY <1>1, <1>4, RunAssumption DEF Accumulated, CompleteResult, OverallStatus, InRule
<1> QED
  BY <1>2, <1>3, <1>5 DEF Inv

\* CheckUniqueBenchmarkFiles
LEMMA CheckFilesInv == ASSUME Inv, plan # NoPlan, CheckFiles, input_' = input_ PROVE Inv'
<1>1. CASE Refuse
  BY <1>1, RefusedInv DEF CheckFiles
<1>2. CASE pc' = "load" /\ UNCHANGED <<exit, overall>>
  <2>1. pc = "files" /\ documents' = documents /\ documents = << >>
        /\ UNCHANGED <<input, runVars, exit, overall>>
    BY <1>2 DEF CheckFiles, Inv, NothingDone
  <2>2. Len(documents') < Len(plan) /\ documents' \in Seq(Documents)
    BY <2>1 DEF Inv, TypeOK, NoPlan
  <2>3. OneIdentityEach' /\ Len(documents') <= Len(plan)
    BY <2>1 DEF Inv, TypeOK, OneIdentityEach
  <2> QED
    BY <1>2, <2>1, <2>2, <2>3, EarlyInv
<1> QED
  BY <1>1, <1>2 DEF CheckFiles

\* The next document is loaded, and its identity is new.
LEMMA LoadInv == ASSUME Inv, NEW d \in Documents, Load(d), input_' = input_ PROVE Inv'
<1>1. /\ pc = "load" /\ documents' = Append(documents, d)
      /\ pc' = IF Len(documents') = Len(plan) THEN "validate" ELSE "load"
      /\ UNCHANGED <<input, runVars, exit, overall>>
      /\ \A n \in DOMAIN documents : documents[n].identity # d.identity
  BY DEF Load
<1>2. /\ documents \in Seq(Documents) /\ Len(documents) < Len(plan)
      /\ Len(plan) \in Nat /\ Len(documents) \in Nat
  BY <1>1 DEF Inv, TypeOK, NothingDone
<1>3. /\ documents' \in Seq(Documents) /\ Len(documents') = Len(documents) + 1
      /\ \A k \in 1 .. Len(documents) : documents'[k] = documents[k]
      /\ documents'[Len(documents) + 1] = d
  BY <1>1, <1>2, AppendProperties
<1>4. OneIdentityEach'
  BY <1>1, <1>2, <1>3 DEF Inv, OneIdentityEach
<1>5. Len(documents') <= Len(plan) /\ (Len(documents') # Len(plan) => Len(documents') < Len(plan))
  BY <1>2, <1>3
<1> QED
  BY <1>1, <1>3, <1>4, <1>5, EarlyInv

\* ValidatePlanForRun: the loop begins with the first rule of the first document.
LEMMA ValidateInv == ASSUME Inv, plan # NoPlan, Validate, input_' = input_ PROVE Inv'
<1>1. CASE Refuse
  BY <1>1, RefusedInv DEF Validate
<1>2. CASE ValidPlan /\ pc' = "rule" /\ UNCHANGED <<exit, overall>>
  <2>1. /\ UNCHANGED <<plan, continueOnError, b, i, procedure, status, hasError>>
        /\ UNCHANGED <<evaluatedRules, rules, evaluations, mDatabase, exit, overall, documents>>
        /\ evaluations = << >> /\ rules = << >> /\ b = 1 /\ i = 1
        /\ ~hasError /\ evaluatedRules = 0 /\ status = "Compliant"
        /\ overall = Unknown /\ exit = Unknown /\ Len(documents) = Len(plan)
    BY <1>2 DEF Validate, input, runVars, Inv, NothingDone, Early, NotEnded
  <2>2. TypeOK'
    BY <1>2, <2>1 DEF Inv, TypeOK, Steps, DatabaseType
  <2>3. 1 \in DOMAIN documents /\ 1 \in 1 .. Len(plan)
    BY <2>1 DEF Inv, TypeOK, NoPlan
  <2>4. 1 \in 1 .. Len(documents[1].resources)
    BY <2>3, DocumentType DEF Inv
  <2>5. Position'
    BY <1>2, <2>1, <2>3, <2>4 DEF Position
  <2>6. Validated'
    BY <1>2, <2>1 DEF Validated, ValidPlan
  <2>7. InputIsText' /\ NothingDone' /\ NotEnded' /\ Chosen' /\ IsSet' /\ EvaluatesThePlan'
        /\ OneIdentityEach'
    BY <1>2, <2>1 DEF Inv, InputIsText, NothingDone, NotEnded, Chosen, IsSet,
                EvaluatesThePlan, OneIdentityEach, Early, InRule
  <2>8. ReportedStatuses' = {}
    BY <2>1 DEF ReportedStatuses
  <2>9. Accumulated' /\ CompleteResult' /\ OverallStatus'
    BY <1>2, <2>1, <2>8, RunAssumption
       DEF Accumulated, CompleteResult, OverallStatus, InRule
  <2>10. Before(1, 1) = {}
    <3>1. ASSUME NEW p \in Positions PROVE ~(p[1] < 1 \/ (p[1] = 1 /\ p[2] < 1))
      <4>1. PICK n \in DOMAIN documents : \E m \in DOMAIN documents[n].resources : p = <<n, m>>
        BY PositionsAre
      <4>2. PICK m \in DOMAIN documents[n].resources : p = <<n, m>>
        BY <4>1
      <4>3. n \in Nat \ {0} /\ m \in Nat \ {0}
        BY <4>1, DocumentType DEF Inv, TypeOK
      <4> QED
        BY <4>2, <4>3
    <3> QED
      BY <3>1 DEF Before
  <2>11. ReportedSoFar'
    <3>1. Before(b, i)' = {}
      BY <2>1, <2>10, SameOrder
    <3>2. IsFiniteSet({}) /\ Cardinality({}) = 0 /\ Len(rules') = 0
      BY <2>1, FS_EmptySet
    <3> QED
      BY <3>1, <3>2 DEF ReportedSoFar
  <2> QED
    BY <2>2, <2>5, <2>6, <2>7, <2>9, <2>11 DEF Inv
<1> QED
  BY <1>1, <1>2 DEF Validate

\* A rule that is not in the plan is reported as skipped.
LEMMA SkipInv ==
    ASSUME Inv, NEW formatted \in BOOLEAN, Skip(formatted), input_' = input_
    PROVE  Inv'
<1>1. /\ pc = "rule" /\ pc \in InLoop /\ entry.id \notin DOMAIN plan[b].rules
      /\ UNCHANGED <<plan, continueOnError, documents, procedure, status, evaluatedRules>>
      /\ evaluations' = evaluations /\ mDatabase' = mDatabase
  BY DEF Skip, input, InLoop
<1>2. DatabaseType' /\ EvaluatesThePlan' /\ evaluations' \in Seq(Evaluation)
  BY <1>1 DEF Inv, TypeOK, DatabaseType, EvaluatesThePlan
<1>3. CASE formatted
  <2>1. AddEntry("Skipped", "none")
    BY <1>3 DEF Skip
  <2> QED
    BY <1>1, <1>2, <2>1, AddInv
<1>4. CASE ~formatted
  <2>1. Fail /\ UNCHANGED rules
    BY <1>4 DEF Skip
  <2> QED
    BY <1>1, <1>2, <2>1, FailInv
<1> QED
  BY <1>3, <1>4

\* A rule that fails before it is evaluated: its parameters, or its mode.
LEMMA FailedInv ==
    ASSUME Inv, FailOverride \/ Enforce, input_' = input_
    PROVE  Inv'
<1>1. /\ pc \in InLoop /\ Fail
      /\ UNCHANGED <<plan, continueOnError, documents, procedure, status>>
      /\ UNCHANGED <<evaluatedRules, rules, evaluations, mDatabase>>
  BY DEF FailOverride, Enforce, input, InLoop, InRule
<1>2. DatabaseType' /\ EvaluatesThePlan' /\ evaluations' \in Seq(Evaluation)
  BY <1>1 DEF Inv, TypeOK, DatabaseType, EvaluatesThePlan
<1> QED
  BY <1>1, <1>2, FailInv

\* The plan for a rule it names.
LEMMA PlannedType ==
    ASSUME TypeOK, Validated, Position, pc \in InLoop, entry.id \in DOMAIN plan[b].rules
    PROVE  /\ planned.mode \in Modes /\ planned.parameters \in ProcedureParameters
           /\ Overridden(entry.procedure, planned.parameters) \in ProcedurePayload
<1>1. plan[b] \in PlanBenchmark /\ entry.procedure \in ProcedurePayload
  BY EntryType
<1>2. planned \in RuleMode
  <2>1. PICK D \in SUBSET Ids : plan[b].rules \in [D -> RuleMode]
    BY <1>1 DEF PlanBenchmark
  <2> QED
    BY <2>1 DEF planned
<1>3. planned.mode \in Modes /\ planned.parameters \in ProcedureParameters
  BY <1>2 DEF RuleMode
<1>4. ASSUME NEW p \in ProcedurePayload, NEW q \in ProcedureParameters
      PROVE  Overridden(p, q) \in ProcedurePayload
  <2>1. PICK D \in SUBSET Keys : p.parameters \in [D -> Values]
    BY DEF ProcedurePayload, ProcedureParameters
  <2>2. PICK E \in SUBSET Keys : q \in [E -> Values]
    BY DEF ProcedureParameters
  <2>3. PICK f : f = [k \in DOMAIN p.parameters \cup DOMAIN q |->
                        IF k \in DOMAIN q THEN q[k] ELSE p.parameters[k]]
    OBVIOUS
  <2>4. f \in [D \cup E -> Values]
    BY <2>1, <2>2, <2>3
  <2>5. f \in ProcedureParameters
    BY <2>4 DEF ProcedureParameters
  <2>6. Overridden(p, q) = [p EXCEPT !.parameters = f]
    BY <2>3 DEF Overridden
  <2> QED
    BY <2>5, <2>6 DEF ProcedurePayload
<1> QED
  BY <1>1, <1>3, <1>4

\* A rule of the plan gets the plan's parameters, and is counted.
LEMMA BeginInv == ASSUME Inv, Begin, input_' = input_ PROVE Inv'
<1>1. /\ pc = "rule" /\ entry.id \in DOMAIN plan[b].rules
      /\ procedure' = Overridden(entry.procedure, planned.parameters)
      /\ evaluatedRules' = IF planned.mode # "enforce" THEN evaluatedRules + 1
                                                       ELSE evaluatedRules
      /\ pc' = "procedure"
      /\ UNCHANGED <<plan, continueOnError, documents, b, i, status, hasError>>
      /\ UNCHANGED <<rules, evaluations, exit, overall, mDatabase>>
  BY DEF Begin, input
<1>2. /\ TypeOK /\ Validated /\ Position /\ pc \in InLoop
      /\ overall = Unknown /\ exit = Unknown
  BY <1>1 DEF Inv, InLoop, NotEnded
<1>3. procedure' \in ProcedurePayload
  BY <1>1, <1>2, PlannedType
<1>4. TypeOK'
  BY <1>1, <1>2, <1>3 DEF TypeOK, Steps, DatabaseType
<1>5. InputIsText' /\ NothingDone' /\ NotEnded' /\ IsSet' /\ OneIdentityEach'
  BY <1>1, <1>2 DEF Inv, InputIsText, NothingDone, NotEnded, IsSet, OneIdentityEach, Early
<1>6. EvaluatesThePlan'
  BY <1>1 DEF Inv, EvaluatesThePlan
<1>7. Validated' /\ Position'
  BY <1>1 DEF Inv, Validated, ValidPlan, Position, Running, InLoop, InRule
<1>8. Chosen'
  BY <1>1 DEF Chosen, entry, planned
<1>9. ReportedStatuses' = ReportedStatuses /\ (planned.mode)' = planned.mode
  BY <1>1 DEF ReportedStatuses, planned, entry
<1>10. evaluatedRules \in Nat
  BY DEF Inv, TypeOK
<1>11. Accumulated'
  BY <1>1, <1>9, <1>10 DEF Inv, Accumulated, InRule
<1>12. CompleteResult' /\ OverallStatus'
  BY <1>1, <1>2, RunAssumption DEF CompleteResult, OverallStatus
<1>13. /\ Before(b, i)' = Before(b, i)
       /\ \A n, m : EntryOf(n, m)' = EntryOf(n, m)
       /\ \A n, m : Reported(n, m)' = Reported(n, m)
  BY <1>1, SameOrder DEF EntryOf, Reported
<1>14. ReportedSoFar'
  BY <1>1, <1>13 DEF Inv, ReportedSoFar, Running, InLoop, InRule
<1> QED
  BY <1>4, <1>5, <1>6, <1>7, <1>8, <1>11, <1>12, <1>14 DEF Inv

\* The engine holds what was set, or the rule fails.
LEMMA SetRuleProcedureInv == ASSUME Inv, SetRuleProcedure, input_' = input_ PROVE Inv'
<1>1. /\ pc = "procedure" /\ SetProcedure(entry.ruleName, procedure)
      /\ UNCHANGED <<plan, continueOnError, documents, procedure, status, evaluatedRules>>
      /\ UNCHANGED <<rules, evaluations>>
  BY DEF SetRuleProcedure, input
<1>2. /\ TypeOK /\ Validated /\ Position /\ pc \in InLoop
      /\ overall = Unknown /\ exit = Unknown
  BY <1>1 DEF Inv, InLoop, InRule, NotEnded
<1>3. /\ entry.id \in DOMAIN plan[b].rules
      /\ procedure = Overridden(entry.procedure, planned.parameters)
  BY <1>1 DEF Inv, Chosen, InRule
<1>4. procedure \in ProcedurePayload /\ planned.mode \in Modes /\ entry.ruleName \in Rules
  BY <1>2, <1>3, PlannedType, EntryType DEF ResourceType
<1>5. /\ DatabaseType'
      /\ procedure.valid => mDatabase'[entry.ruleName] =
            [payload |-> procedure, parameters |-> procedure.parameters]
  <2>1. [payload |-> procedure, parameters |-> procedure.parameters] \in Entry
    BY <1>4 DEF Entry, ProcedurePayload
  <2> QED
    BY <1>1, <1>2, <1>4, <2>1 DEF SetProcedure, TypeOK, DatabaseType
<1>6. EvaluatesThePlan' /\ evaluations' \in Seq(Evaluation)
  BY <1>1 DEF Inv, TypeOK, EvaluatesThePlan
<1>7. CASE ~procedure.valid
  <2>1. Fail
    BY <1>7 DEF SetRuleProcedure
  <2> QED
    BY <1>1, <1>2, <1>5, <1>6, <2>1, FailInv
<1>8. CASE procedure.valid
  <2>1. pc' = planned.mode /\ UNCHANGED <<b, i, hasError, exit, overall>>
    BY <1>8 DEF SetRuleProcedure
  <2>2. pc' \in {"audit", "remediate", "enforce"}
    BY <1>4, <2>1 DEF Modes
  <2>3. TypeOK'
    BY <1>1, <1>2, <1>5, <2>1, <2>2 DEF TypeOK, Steps
  <2>4. InputIsText' /\ NothingDone' /\ NotEnded' /\ OneIdentityEach'
    BY <1>1, <1>2, <2>1, <2>2 DEF Inv, InputIsText, NothingDone, NotEnded, OneIdentityEach,
                                  Early
  <2>5. Validated' /\ Position'
    BY <1>1, <1>2, <2>1, <2>2 DEF Validated, ValidPlan, Position, Running, InLoop, InRule
  <2>6. Chosen' /\ IsSet'
    BY <1>1, <1>3, <1>5, <1>8, <2>1, <2>2 DEF Chosen, IsSet, entry, planned
  <2>7. ReportedStatuses' = ReportedStatuses /\ (planned.mode)' = planned.mode
    BY <1>1, <2>1 DEF ReportedStatuses, planned, entry
  <2>8. Accumulated'
    BY <1>1, <2>1, <2>2, <2>7 DEF Inv, Accumulated, InRule
  <2>9. CompleteResult' /\ OverallStatus'
    BY <1>2, <2>1, RunAssumption DEF CompleteResult, OverallStatus
  <2>10. /\ Before(b, i)' = Before(b, i)
         /\ \A n, m : EntryOf(n, m)' = EntryOf(n, m)
         /\ \A n, m : Reported(n, m)' = Reported(n, m)
    BY <1>1, <2>1, SameOrder DEF EntryOf, Reported
  <2>11. ReportedSoFar'
    BY <1>1, <2>1, <2>10 DEF Inv, ReportedSoFar, Running, InLoop, InRule
  <2> QED
    BY <1>6, <2>3, <2>4, <2>5, <2>6, <2>8, <2>9, <2>11 DEF Inv
<1> QED
  BY <1>7, <1>8

\* Without user parameters the ones of the procedure stay (the payload "{}").
LEMMA EmptyPayloadKeeps ==
    ASSUME NEW parameters \in ProcedureParameters
    PROVE  UpdateUserParameters(parameters, EmptyPayload) = parameters
<1>1. PICK D \in SUBSET Keys : parameters \in [D -> Values]
  BY DEF ProcedureParameters
<1>2. \A k : ~Reached(parameters, EmptyPayload, k)
  BY DEF Reached, EmptyPayload
<1> QED
  BY <1>1, <1>2 DEF UpdateUserParameters

\* The engine evaluates what was set for the rule, and that is what the plan asks for.
LEMMA EvaluateCorrect ==
    ASSUME Inv, pc \in {"audit", "remediate"}, NEW object \in {"audit", "remediate"},
           NEW remediates \in BOOLEAN, remediates <=> pc = "remediate",
           UpdateParameters(entry.ruleName, EmptyPayload), Evaluate(object, remediates),
           UNCHANGED <<plan, documents>>
    PROVE  DatabaseType' /\ evaluations' \in Seq(Evaluation) /\ EvaluatesThePlan'
<1>1. /\ TypeOK /\ Validated /\ Position /\ pc \in InLoop /\ evaluations \in Seq(Evaluation)
      /\ EvaluatesThePlan
  BY DEF Inv, InLoop, InRule, TypeOK
<1>2. /\ entry.id \in DOMAIN plan[b].rules /\ planned.mode = pc
      /\ procedure = Overridden(entry.procedure, planned.parameters)
      /\ mDatabase[entry.ruleName] = [payload |-> procedure, parameters |-> procedure.parameters]
  BY DEF Inv, Chosen, IsSet, InRule
<1>3. /\ procedure \in ProcedurePayload /\ procedure.parameters \in ProcedureParameters
      /\ entry \in ResourceType /\ entry.ruleName \in Rules /\ entry.id \in Ids
      /\ b \in DOMAIN plan /\ b \in DOMAIN documents /\ i \in DOMAIN documents[b].resources
  BY <1>1, <1>2, PlannedType, EntryType DEF ResourceType, ProcedurePayload
<1>4. PICK r, x : r = entry.ruleName /\ x = [payload |-> procedure, parameters |-> procedure.parameters]
  OBVIOUS
<1>5. x \in Entry /\ x # NoProcedure /\ mDatabase[r] = x /\ Known(r) /\ r \in Rules
  BY <1>2, <1>3, <1>4, EngineAssumption DEF Entry, Known
<1>6. mDatabase' = [mDatabase EXCEPT ![r] = [@ EXCEPT !.parameters = procedure.parameters]]
  <2>1. mDatabase[r].parameters = procedure.parameters
    BY <1>2, <1>4
  <2>2. PICK v : v = UpdateUserParameters(mDatabase[r].parameters, EmptyPayload)
    OBVIOUS
  <2>3. v = procedure.parameters
    BY <1>3, <2>1, <2>2, EmptyPayloadKeeps
  <2>4. mDatabase' = [mDatabase EXCEPT ![r] = [@ EXCEPT !.parameters = v]]
    BY <1>4, <1>5, <2>2 DEF UpdateParameters
  <2> QED
    BY <2>3, <2>4
<1>7. mDatabase'[r] = x
  BY <1>1, <1>4, <1>5, <1>6 DEF TypeOK, DatabaseType
<1>8. DatabaseType'
  BY <1>1, <1>5, <1>6, <1>7 DEF TypeOK, DatabaseType
<1>9. PICK e : e = [block |-> b, id |-> entry.id, object |-> object, payload |-> procedure,
                    parameters |-> procedure.parameters, remediates |-> remediates]
  OBVIOUS
<1>10. evaluations' = Append(evaluations, e)
  BY <1>2, <1>4, <1>7, <1>9 DEF Evaluate
<1>11. e \in Evaluation
  BY <1>1, <1>3, <1>9 DEF Evaluation, TypeOK
<1>12. /\ evaluations' \in Seq(Evaluation) /\ Len(evaluations') = Len(evaluations) + 1
       /\ \A k \in 1 .. Len(evaluations) : evaluations'[k] = evaluations[k]
       /\ evaluations'[Len(evaluations) + 1] = e
  BY <1>1, <1>10, <1>11, AppendProperties
<1>13. DOMAIN evaluations' = DOMAIN evaluations \cup {Len(evaluations) + 1}
       /\ \A k \in DOMAIN evaluations : evaluations'[k] = evaluations[k]
  BY <1>1, <1>12
<1> DEFINE AsAsked(f) ==
      LET asked == plan[f.block].rules
      IN  /\ f.id \in DOMAIN asked
          /\ asked[f.id].mode = (IF f.remediates THEN "remediate" ELSE "audit")
          /\ \E m \in DOMAIN documents[f.block].resources :
                LET s == documents[f.block].resources[m]
                    p == Overridden(s.procedure, asked[f.id].parameters)
                IN  s.id = f.id /\ f.payload = p /\ f.parameters = p.parameters
<1>14. AsAsked(e)
  BY <1>2, <1>3, <1>9 DEF entry, planned
<1>15. \A k \in DOMAIN evaluations : AsAsked(evaluations[k])
  BY <1>1 DEF EvaluatesThePlan
<1>16. EvaluatesThePlan' <=> \A k \in DOMAIN evaluations' : AsAsked(evaluations'[k])
  BY DEF EvaluatesThePlan
<1> HIDE DEF AsAsked
<1>17. EvaluatesThePlan'
  BY <1>12, <1>13, <1>14, <1>15, <1>16
<1> QED
  BY <1>8, <1>12, <1>17

\* The outcome is reported as the rule's, or the rule fails.
LEMMA ConcludeInv ==
    ASSUME Inv, pc \in {"audit", "remediate"}, NEW outcome, NEW formatted \in BOOLEAN,
           NEW action \in {"Audit", "Remediation"}, Conclude(outcome, formatted, action),
           DatabaseType', evaluations' \in Seq(Evaluation), EvaluatesThePlan',
           UNCHANGED <<input, documents, procedure, evaluatedRules>>, input_' = input_
    PROVE  Inv'
<1>1. /\ pc \in InLoop /\ entry.id \in DOMAIN plan[b].rules /\ planned.mode = pc
      /\ evaluatedRules > 0 /\ UNCHANGED <<plan, continueOnError>>
  BY DEF Inv, Chosen, Accumulated, InLoop, InRule, input
<1>2. CASE outcome \in Statuses /\ formatted
  <2>1. AddEntry(outcome, action) /\ status' = CombineAllOf(status, outcome)
    BY <1>2 DEF Conclude
  <2>2. outcome # "Skipped" /\ outcome \in Statuses \cup {"Skipped"}
    BY <1>2 DEF Statuses
  <2> QED
    BY <1>1, <2>1, <2>2, AddInv
<1>3. CASE ~(outcome \in Statuses /\ formatted)
  <2>1. Fail /\ UNCHANGED <<rules, status>>
    BY <1>3 DEF Conclude
  <2> QED
    BY <1>1, <2>1, FailInv
<1> QED
  BY <1>2, <1>3

\* An audit reports the outcome of the evaluation it ran, or fails.
LEMMA AuditInv ==
    ASSUME Inv, NEW outcome, NEW formatted \in BOOLEAN, Audit(outcome, formatted),
           input_' = input_
    PROVE  Inv'
<1>1. /\ pc = "audit" /\ UpdateParameters(entry.ruleName, EmptyPayload)
      /\ Evaluate("audit", FALSE) /\ Conclude(outcome, formatted, "Audit")
      /\ UNCHANGED <<input, documents, procedure, evaluatedRules>>
  BY DEF Audit, InitAudit
<1>2. DatabaseType' /\ evaluations' \in Seq(Evaluation) /\ EvaluatesThePlan'
  BY <1>1, EvaluateCorrect DEF input
<1> QED
  BY <1>1, <1>2, ConcludeInv

\* So does a remediation.
LEMMA RemediateInv ==
    ASSUME Inv, NEW outcome, NEW formatted \in BOOLEAN, Remediate(outcome, formatted),
           input_' = input_
    PROVE  Inv'
<1>1. /\ pc = "remediate" /\ UpdateParameters(entry.ruleName, EmptyPayload)
      /\ Evaluate(IF procedure.remediate THEN "remediate" ELSE "audit", TRUE)
      /\ Conclude(outcome, formatted, "Remediation")
      /\ UNCHANGED <<input, documents, procedure, evaluatedRules>>
  BY DEF Remediate, ExecuteRemediation
<1>2. PICK object \in {"audit", "remediate"} :
        object = IF procedure.remediate THEN "remediate" ELSE "audit"
  OBVIOUS
<1>3. DatabaseType' /\ evaluations' \in Seq(Evaluation) /\ EvaluatesThePlan'
  BY <1>1, <1>2, EvaluateCorrect DEF input
<1> QED
  BY <1>1, <1>3, ConcludeInv

\* The result is printed: every rule has its place in it, unless one failed.
LEMMA FinishInv == ASSUME Inv, Finish, input_' = input_ PROVE Inv'
<1>1. /\ pc = "finish" /\ pc' = "done"
      /\ overall' = IF evaluatedRules = 0 THEN "NotApplicable" ELSE status
      /\ exit' = IF hasError THEN 1 ELSE 0
      /\ UNCHANGED <<plan, continueOnError, documents, b, i, procedure, status, hasError>>
      /\ UNCHANGED <<evaluatedRules, rules, evaluations, mDatabase>>
  BY DEF Finish, input, runVars
<1>2. b = Len(plan) + 1 /\ i = 1 /\ Len(documents) = Len(plan) /\ ValidPlan /\ TypeOK
  BY <1>1 DEF Inv, Position, Validated, Running
<1>3. TypeOK'
  BY <1>1 DEF Inv, TypeOK, Steps, DatabaseType, Statuses
<1>4. InputIsText' /\ NothingDone' /\ NotEnded' /\ OneIdentityEach' /\ Position' /\ Chosen'
      /\ IsSet' /\ ReportedSoFar'
  BY <1>1 DEF Inv, InputIsText, NothingDone, NotEnded, OneIdentityEach, Position, Chosen,
              IsSet, ReportedSoFar, Early, InRule, InLoop, Running
<1>5. Validated' /\ EvaluatesThePlan'
  BY <1>1, <1>2 DEF Inv, Validated, ValidPlan, EvaluatesThePlan
<1>6. ReportedStatuses' = ReportedStatuses
  BY <1>1 DEF ReportedStatuses
<1>7. Accumulated'
  BY <1>1, <1>6 DEF Inv, Accumulated, InRule
<1>8. OverallStatus'
  <2>1. /\ status = IF "NonCompliant" \in ReportedStatuses THEN "NonCompliant"
                    ELSE IF "NotApplicable" \in ReportedStatuses THEN "NotApplicable"
                    ELSE "Compliant"
        /\ ReportedStatuses # {} => evaluatedRules > 0
        /\ ~hasError /\ evaluatedRules > 0 => ReportedStatuses # {}
    BY <1>1 DEF Inv, Accumulated
  <2>2. evaluatedRules \in Nat /\ hasError \in BOOLEAN
    BY DEF Inv, TypeOK
  <2>3. exit' = 0 <=> ~hasError
    BY <1>1, <2>2
  <2>4. "NonCompliant" \in ReportedStatuses => overall' = "NonCompliant"
    BY <1>1, <2>1, <2>2
  <2>5. "NonCompliant" \notin ReportedStatuses /\ "NotApplicable" \in ReportedStatuses
            => overall' = "NotApplicable"
    BY <1>1, <2>1, <2>2
  <2>6. ReportedStatuses = {"Compliant"} => overall' = "Compliant"
    BY <1>1, <2>1, <2>2
  <2>7. ReportedStatuses = {} /\ exit' = 0 => overall' = "NotApplicable"
    BY <1>1, <2>1, <2>2, <2>3
  <2> QED
    BY <1>6, <2>4, <2>5, <2>6, <2>7 DEF OverallStatus
<1>9. CompleteResult'
  <2> SUFFICES ASSUME exit' = 0 PROVE CompleteResult'
    BY DEF CompleteResult
  <2>1. ~hasError
    BY <1>1 DEF Inv, TypeOK
  <2>2. /\ Len(rules) = Cardinality(Before(b, i))
        /\ \A n, m \in Nat : <<n, m>> \in Before(b, i) => Reported(n, m)
    BY <1>1, <2>1 DEF Inv, ReportedSoFar, Running
  <2>3. ASSUME NEW p \in Positions PROVE p \in Before(b, i)
    <3>1. PICK n \in DOMAIN documents : \E m \in DOMAIN documents[n].resources : p = <<n, m>>
      BY PositionsAre
    <3>2. PICK m \in DOMAIN documents[n].resources : p = <<n, m>>
      BY <3>1
    <3>3. n \in 1 .. Len(plan) /\ Len(plan) \in Nat
      BY <1>2 DEF TypeOK
    <3>4. n < b
      BY <1>2, <3>3
    <3> QED
      BY <3>2, <3>4 DEF Before
  <2>4. Before(b, i) = Positions
    BY <2>3 DEF Before
  <2>5. ASSUME NEW n \in DOMAIN documents, NEW m \in DOMAIN documents[n].resources
        PROVE  Reported(n, m)
    <3>1. <<n, m>> \in Before(b, i)
      BY <2>4, PositionsAre
    <3>2. n \in Nat /\ m \in Nat
      BY <1>2, DocumentType DEF TypeOK
    <3> QED
      BY <2>2, <3>1, <3>2
  <2>6. \A n, m : Reported(n, m)' = Reported(n, m)
    BY <1>1, SameOrder DEF Reported, EntryOf
  <2>7. Len(rules') = Cardinality(Positions')
    BY <1>1, <2>2, <2>4, SameOrder
  <2>8. \A n \in DOMAIN documents : \A m \in DOMAIN documents[n].resources : Reported(n, m)'
    BY <2>5, <2>6
  <2> QED
    BY <1>1, <2>7, <2>8 DEF CompleteResult, Reported
<1> QED
  BY <1>3, <1>4, <1>5, <1>7, <1>8, <1>9 DEF Inv

\* Every step of a run keeps the invariant.
LEMMA RunInv == ASSUME Inv, RunStep PROVE Inv'
<1>1. plan # NoPlan /\ Next /\ input_' = input_
  BY DEF RunStep, sessionVars
<1>2. CASE CheckFiles
  BY <1>1, <1>2, CheckFilesInv
<1>3. CASE \E d \in Documents : Load(d)
  BY <1>1, <1>3, LoadInv
<1>4. CASE FailToLoad
  BY <1>1, <1>4, RefusedInv DEF FailToLoad
<1>5. CASE Validate
  BY <1>1, <1>5, ValidateInv
<1>6. CASE FailToStart
  BY <1>1, <1>6, RefusedInv DEF FailToStart
<1>7. CASE \E formatted \in BOOLEAN : Skip(formatted)
  BY <1>1, <1>7, SkipInv
<1>8. CASE Begin
  BY <1>1, <1>8, BeginInv
<1>9. CASE FailOverride \/ Enforce
  BY <1>1, <1>9, FailedInv
<1>10. CASE SetRuleProcedure
  BY <1>1, <1>10, SetRuleProcedureInv
<1>11. CASE \E outcome \in Outcomes, formatted \in BOOLEAN : Audit(outcome, formatted)
  BY <1>1, <1>11, AuditInv
<1>12. CASE \E outcome \in Outcomes, formatted \in BOOLEAN : Remediate(outcome, formatted)
  BY <1>1, <1>12, RemediateInv
<1>13. CASE Finish
  BY <1>1, <1>13, FinishInv
<1>14. CASE FailToFinish
  BY <1>1, <1>14, RefusedInv DEF FailToFinish
<1> QED
  BY <1>1, <1>2, <1>3, <1>4, <1>5, <1>6, <1>7, <1>8, <1>9, <1>10, <1>11, <1>12, <1>13, <1>14
     DEF Next

\* What is read of the file is a text, whatever is in it.
LEMMA ReadCellInv == ASSUME Inv, ReadCell PROVE Inv'
<1>1. UNCHANGED vars /\ input_' = Append(input_, file[Len(input_) + 1])
  BY DEF ReadCell
<1>2. PICK S : input_ \in Seq(S)
  BY DEF Inv, InputIsText
<1>3. PICK x : x = file[Len(input_) + 1]
  OBVIOUS
<1>4. input_ \in Seq(S \cup {x}) /\ x \in S \cup {x}
  BY <1>2
<1>5. input_' \in Seq(S \cup {x})
  BY <1>1, <1>3, <1>4, AppendProperties
<1>6. InputIsText'
  BY <1>5 DEF InputIsText
<1> QED
  BY <1>1, <1>6, UnchangedInv

\* The parser lets nothing through but well-formed blocks.
LEMMA ParsedType ==
    ASSUME InputIsText, Parses(input_)
    PROVE  Blocks(input_) \in Seq(PlanBenchmark)
<1>1. PICK n \in Nat : n = Len(input_)
  BY DEF InputIsText
<1>2. \A c \in 1 .. n - 1 : input_[c] \in PlanBenchmark
  BY <1>1 DEF Parses
<1>3. SubSeq(input_, 1, n - 1) \in Seq(PlanBenchmark)
  BY <1>2, SubSeqProperties
<1> QED
  BY <1>1, <1>3 DEF Blocks

\* The plan that was parsed is the one of the run; nothing else has begun.
LEMMA ParsePlanFileInv == ASSUME Inv, ParsePlanFile PROVE Inv'
<1>1. /\ pc = "read" /\ input_' = << >>
      /\ UNCHANGED <<continueOnError, documents, b, i, procedure, status, hasError>>
      /\ UNCHANGED <<evaluatedRules, rules, evaluations, mDatabase>>
  BY DEF ParsePlanFile, runVars
<1>2. InputIsText'
  <2>1. << >> \in Seq({})
    OBVIOUS
  <2> QED
    BY <1>1, <2>1 DEF InputIsText
<1>3. /\ evaluations = << >> /\ rules = << >> /\ b = 1 /\ i = 1
      /\ ~hasError /\ evaluatedRules = 0 /\ status = "Compliant" /\ documents = << >>
      /\ overall = Unknown /\ exit = Unknown
  BY <1>1 DEF Inv, NothingDone, Early, NotEnded
<1>4. ReportedStatuses' = {}
  BY <1>1, <1>3 DEF ReportedStatuses
<1>5. CASE Refuse /\ UNCHANGED plan
  <2>1. DatabaseType' /\ EvaluatesThePlan' /\ evaluations' \in Seq(Evaluation)
    BY <1>1, <1>3 DEF Inv, TypeOK, DatabaseType, EvaluatesThePlan
  <2> QED
    BY <1>1, <1>2, <1>3, <1>5, <2>1, RefuseInv
<1>6. CASE /\ Parses(input_) /\ plan' = Blocks(input_) /\ pc' = "files"
           /\ UNCHANGED <<exit, overall>>
  <2>1. plan' \in Seq(PlanBenchmark)
    BY <1>6, ParsedType DEF Inv
  <2>2. b' \in 1 .. Len(plan') + 1 /\ Len(documents') <= Len(plan')
    <3>1. Len(plan') \in Nat /\ Len(documents') = 0
      BY <1>1, <1>3, <2>1
    <3> QED
      BY <1>1, <1>3, <3>1
  <2>3. TypeOK'
    BY <1>1, <1>6, <2>1, <2>2 DEF Inv, TypeOK, Steps, DatabaseType
  <2>4. NothingDone' /\ OneIdentityEach' /\ Validated' /\ Position' /\ Chosen' /\ IsSet'
        /\ ReportedSoFar' /\ NotEnded' /\ EvaluatesThePlan'
    BY <1>1, <1>3, <1>6 DEF NothingDone, OneIdentityEach, Validated, Position, Chosen,
        IsSet, ReportedSoFar, NotEnded, EvaluatesThePlan, Early, InRule, InLoop, Running
  <2>5. Accumulated' /\ CompleteResult' /\ OverallStatus'
    BY <1>1, <1>3, <1>4, <1>6, RunAssumption
       DEF Accumulated, CompleteResult, OverallStatus, InRule
  <2> QED
    BY <1>2, <2>3, <2>4, <2>5 DEF Inv
<1> QED
  BY <1>5, <1>6 DEF ParsePlanFile

\* The plan file cannot be opened or read.
LEMMA FailToReadInv == ASSUME Inv, FailToRead PROVE Inv'
<1>1. /\ pc \in {"idle", "read"} /\ Refuse /\ input_' = << >>
      /\ UNCHANGED <<plan, continueOnError, documents, b, i, procedure, status, hasError>>
      /\ UNCHANGED <<evaluatedRules, rules, evaluations, mDatabase>>
  BY DEF FailToRead, input, runVars
<1>2. << >> \in Seq({})
  OBVIOUS
<1>3. InputIsText' /\ DatabaseType' /\ EvaluatesThePlan' /\ evaluations' \in Seq(Evaluation)
      /\ evaluations' = << >>
  BY <1>1, <1>2 DEF Inv, InputIsText, TypeOK, DatabaseType, EvaluatesThePlan, NothingDone, Early
<1> QED
  BY <1>1, <1>3, RefuseInv

\* The plan file is opened.
LEMMA OpenVerifiedInv == ASSUME Inv, OpenVerified PROVE Inv'
<1>1. /\ pc = "idle" /\ pc' = "read" /\ input_' = input_
      /\ UNCHANGED <<plan, continueOnError, documents, b, i, procedure, status, hasError>>
      /\ UNCHANGED <<evaluatedRules, rules, evaluations, mDatabase, exit, overall>>
  BY DEF OpenVerified, input, runVars
<1>2. /\ evaluations = << >> /\ rules = << >> /\ b = 1 /\ i = 1
      /\ ~hasError /\ evaluatedRules = 0 /\ status = "Compliant" /\ documents = << >>
      /\ plan = NoPlan /\ overall = Unknown /\ exit = Unknown
  BY <1>1 DEF Inv, NothingDone, Early, NotEnded
<1>3. ReportedStatuses' = {}
  BY <1>1, <1>2 DEF ReportedStatuses
<1>4. TypeOK' /\ InputIsText'
  BY <1>1 DEF Inv, TypeOK, Steps, DatabaseType, InputIsText
<1>5. NothingDone' /\ OneIdentityEach' /\ Validated' /\ Position' /\ Chosen' /\ IsSet'
      /\ ReportedSoFar' /\ NotEnded' /\ EvaluatesThePlan'
  BY <1>1, <1>2 DEF NothingDone, OneIdentityEach, Validated, Position, Chosen,
      IsSet, ReportedSoFar, NotEnded, EvaluatesThePlan, Early, InRule, InLoop, Running
<1>6. Accumulated' /\ CompleteResult' /\ OverallStatus'
  BY <1>1, <1>2, <1>3, RunAssumption
     DEF Accumulated, CompleteResult, OverallStatus, InRule
<1> QED
  BY <1>4, <1>5, <1>6 DEF Inv

-----------------------------------------------------------------------------
\* The invariant holds whatever the two commands, the host and others do.
THEOREM Invariance == SpecSession => []Inv
<1>1. InitSession => Inv
  BY InitInv
<1>2. Inv /\ [NextSession]_allVars => Inv'
  <2> SUFFICES ASSUME Inv, [NextSession]_allVars PROVE Inv'
    OBVIOUS
  <2>1. CASE PlanCommandStep \/ HostGoesDown
    <3>1. UNCHANGED <<vars, input_>>
      BY <2>1 DEF PlanCommandStep, HostGoesDown, Disturb
    <3> QED
      BY <3>1, UnchangedInv DEF Inv, InputIsText
  <2>2. CASE OpenVerified
    BY <2>2, OpenVerifiedInv
  <2>3. CASE ReadCell
    BY <2>3, ReadCellInv
  <2>4. CASE ParsePlanFile
    BY <2>4, ParsePlanFileInv
  <2>5. CASE FailToRead
    BY <2>5, FailToReadInv
  <2>6. CASE RunStep
    BY <2>6, RunInv
  <2>7. CASE UNCHANGED allVars
    <3>1. UNCHANGED <<vars, input_>>
      BY <2>7 DEF allVars, sessionVars
    <3> QED
      BY <3>1, UnchangedInv DEF Inv, InputIsText
  <2> QED
    BY <2>1, <2>2, <2>3, <2>4, <2>5, <2>6, <2>7 DEF NextSession
<1> QED
  BY <1>1, <1>2, PTL DEF SpecSession

\* The state of a run is well formed: the plan it acts on is one, its parameters are
\* values of the engine, and its position is in the plan (kompli/Main.cpp).
THEOREM TypeCorrect == SpecSession => []TypeOK
<1>1. Inv => TypeOK
  BY DEF Inv
<1> QED
  BY <1>1, Invariance, PTL

\* Nothing is evaluated before the whole plan was loaded and validated.
THEOREM ValidatedBeforeTouchedCorrect == SpecSession => []ValidatedBeforeTouched
<1>1. Inv => ValidatedBeforeTouched
  BY DEF Inv, Validated, ValidPlan, OneIdentityEach, ValidatedBeforeTouched
<1> QED
  BY <1>1, Invariance, PTL

\* What the engine evaluates is the rule's own procedure with the plan's parameters, in
\* the mode of the plan.
THEOREM EvaluatesThePlanCorrect == SpecSession => []EvaluatesThePlan
<1>1. Inv => EvaluatesThePlan
  BY DEF Inv
<1> QED
  BY <1>1, Invariance, PTL

\* A run that exits 0 reports every rule at its place.
THEOREM CompleteResultCorrect == SpecSession => []CompleteResult
<1>1. Inv => CompleteResult
  BY DEF Inv
<1> QED
  BY <1>1, Invariance, PTL

\* The overall status is that of the rules that were evaluated.
THEOREM OverallStatusCorrect == SpecSession => []OverallStatus
<1>1. Inv => OverallStatus
  BY DEF Inv
<1> QED
  BY <1>1, Invariance, PTL

-----------------------------------------------------------------------------
(***************************************************************************)
(* What `kompli plan` generates.  The toggles and overrides are applied in *)
(* a loop, so what they amount to is proved by induction over its steps,   *)
(* from the well-foundedness of < on the naturals.                         *)
(***************************************************************************)
\* A set of naturals has a least one.
LEMMA Least ==
    ASSUME NEW S, S \subseteq Nat, S # {}
    PROVE  \E x \in S : \A y \in S : x <= y
<1>1. PICK x \in S : \A y \in S : ~ (<<y, x>> \in OpToRel(<, Nat))
  BY NatLessThanWellFounded, WFMin
<1>2. \A y \in S : y < x => <<y, x>> \in OpToRel(<, Nat)
  BY DEF OpToRel
<1>3. \A y \in S : ~ (y < x)
  BY <1>1, <1>2
<1>4. \A y \in S : x <= y
  BY ONLY <1>3, S \subseteq Nat, x \in S
<1> QED
  BY <1>4

\* Induction up to a number, over a set of naturals.
LEMMA Induction ==
    ASSUME NEW N \in Nat, NEW S,
           0 \in S, \A n \in 0 .. N - 1 : n \in S => n + 1 \in S
    PROVE  0 .. N \subseteq S
<1> SUFFICES ASSUME (0 .. N) \ S # {} PROVE FALSE
  OBVIOUS
<1>0. PICK Rest : Rest = (0 .. N) \ S
  OBVIOUS
<1>1. PICK x \in Rest : \A y \in Rest : x <= y
  <2>1. Rest \subseteq Nat /\ Rest # {}
    BY <1>0
  <2> QED
    BY ONLY <2>1, Least
<1>2. x # 0 /\ x - 1 \in 0 .. N - 1
  BY <1>0, <1>1
<1>3. x - 1 \in S
  BY <1>0, <1>1, <1>2
<1>4. (x - 1) + 1 = x
  BY <1>0, <1>1
<1>5. (x - 1) + 1 \in S
  BY <1>2, <1>3
<1> QED
  BY <1>0, <1>1, <1>4, <1>5

\* A loop, and the values it takes.
IsLoop(next, T, N) == next \in [T \X (1 .. N) -> T]

IsHistory(f, next, base, T, N) ==
    /\ f \in [0 .. N -> T]
    /\ f[0] = base /\ \A n \in 1 .. N : f[n] = next[<<f[n - 1], n>>]

\* A loop of N steps over members of a set has a history.
LEMMA Iteration ==
    ASSUME NEW T, NEW base \in T, NEW N \in Nat, NEW next, IsLoop(next, T, N)
    PROVE  \E f : IsHistory(f, next, base, T, N)
<1> USE DEF IsLoop, IsHistory
<1> DEFINE S == {n \in 0 .. N : \E f : IsHistory(f, next, base, T, n)}
<1>1. 0 \in S
  <2>1. PICK f : f = [m \in 0 .. 0 |-> base]
    OBVIOUS
  <2>2. f \in [0 .. 0 -> T] /\ f[0] = base
    BY <2>1
  <2>3. IsHistory(f, next, base, T, 0)
    BY <2>2
  <2> QED
    BY <2>2, <2>3
<1>2. ASSUME NEW n \in 0 .. N - 1, n \in S PROVE n + 1 \in S
  <2>1. PICK f : IsHistory(f, next, base, T, n)
    BY <1>2
  <2>2. PICK v \in T : v = next[<<f[n], n + 1>>]
    <3>1. f[n] \in T /\ n + 1 \in 1 .. N
      BY <2>1
    <3> QED
      BY <3>1
  <2>3. PICK g : g = [m \in 0 .. n + 1 |-> IF m = n + 1 THEN v ELSE f[m]]
    OBVIOUS
  <2>4. g \in [0 .. n + 1 -> T]
    BY <2>1, <2>3
  <2>5. g[0] = base /\ g[n + 1] = v /\ g[n] = f[n]
    <3>1. n \in Nat /\ n + 1 # 0 /\ n # n + 1
      OBVIOUS
    <3>2. 0 \in 0 .. n + 1 /\ n \in 0 .. n + 1 /\ n + 1 \in 0 .. n + 1
      BY <3>1
    <3>3. f[0] = base
      BY <2>1
    <3> QED
      BY ONLY <3>1, <3>2, <3>3, <2>3
  <2>6. ASSUME NEW m \in 1 .. n + 1 PROVE g[m] = next[<<g[m - 1], m>>]
    <3>1. CASE m = n + 1
      BY <3>1, <2>2, <2>5
    <3>2. CASE m \in 1 .. n
      <4>1. g[m] = f[m] /\ g[m - 1] = f[m - 1]
        BY <3>2, <2>3
      <4> QED
        BY <4>1, <2>1, <3>2
    <3> QED
      BY <3>1, <3>2
  <2> QED
    BY <2>4, <2>5, <2>6
<1>3. N \in S
  <2> HIDE DEF S
  <2> QED
    BY <1>1, <1>2, Induction
<1> QED
  BY <1>3

-----------------------------------------------------------------------------
\* The definitions of the command line are read.
Ready ==
    /\ session \in Sessions /\ command # None
    /\ parsedFiles \in Seq(Documents) /\ Len(parsedFiles) = Len(command.files)

\* What the command line and the definitions are.
LEMMA ReadyType ==
    ASSUME Ready
    PROVE  /\ command.files \in Seq(Files) /\ Len(command.files) \in Nat
           /\ DOMAIN command.files = 1 .. Len(command.files)
           /\ DOMAIN parsedFiles = DOMAIN command.files
           /\ command.toggles \in Seq(Toggle) /\ Len(command.toggles) \in Nat
           /\ command.overrides \in Seq(ParamOverride) /\ Len(command.overrides) \in Nat
<1>1. IsCommand(command)
  BY CommandAssumption DEF Ready, command
<1> QED
  BY <1>1 DEF IsCommand, Ready

\* What a definition says of a rule.
LEMMA MetadataType ==
    ASSUME Ready, NEW n \in DOMAIN command.files, NEW id \in RuleIds(n)
    PROVE  /\ id \in Ids
           /\ Metadata(n, id) \in ParameterMetadata
           /\ DOMAIN Metadata(n, id) \subseteq Keys
           /\ \A k \in DOMAIN Metadata(n, id) : Metadata(n, id)[k].default \in Values
           /\ parsedFiles[n] \in Documents
           /\ \A m \in DOMAIN parsedFiles[n].resources :
                parsedFiles[n].resources[m].id = id
                    => parsedFiles[n].resources[m].metadata = Metadata(n, id)
<1>1. parsedFiles[n] \in Documents
  BY ReadyType DEF Ready
<1>2. PICK r : r = parsedFiles[n].resources
  OBVIOUS
<1>3. /\ r \in Seq(ResourceType)
      /\ \A l, m \in DOMAIN r : r[l].id = r[m].id => l = m
  BY <1>1, <1>2, PlanAssumption DEF IsDocument
<1>4. PICK m \in DOMAIN r : r[m].id = id
  BY <1>2 DEF RuleIds
<1>5. Metadata(n, id) = r[m].metadata
  <2>1. m = CHOOSE l \in DOMAIN r : r[l].id = id
    BY <1>3, <1>4
  <2> QED
    BY <1>2, <2>1 DEF Metadata
<1>6. r[m] \in ResourceType
  BY <1>3, <1>4
<1>7. id \in Ids /\ Metadata(n, id) \in ParameterMetadata
  BY <1>4, <1>5, <1>6 DEF ResourceType
<1>8. PICK D \in SUBSET Keys :
        Metadata(n, id) \in
            [D -> [default : Values, mandatory : BOOLEAN, permitted : SUBSET Values]]
  BY <1>7 DEF ParameterMetadata
<1>9. DOMAIN Metadata(n, id) = D /\ \A k \in D : Metadata(n, id)[k].default \in Values
  BY <1>8
<1>10. \A l \in DOMAIN r : r[l].id = id => r[l].metadata = Metadata(n, id)
  BY <1>3, <1>4, <1>5
<1> QED
  BY <1>1, <1>2, <1>7, <1>8, <1>9, <1>10

\* The rules of the definitions, each in some mode with some value for every parameter.
SomeRules == UNION {[D -> RuleMode] : D \in SUBSET Ids}

HasRules(r) ==
    /\ r \in [DOMAIN command.files -> SomeRules]
    /\ \A n \in DOMAIN command.files :
        /\ DOMAIN r[n] = RuleIds(n)
        /\ \A id \in RuleIds(n) : DOMAIN r[n][id].parameters = DOMAIN Metadata(n, id)

RulesSets == {r \in [DOMAIN command.files -> SomeRules] : HasRules(r)}

\* A rule of them.
LEMMA RuleType ==
    ASSUME NEW r, HasRules(r), NEW n \in DOMAIN command.files, NEW id \in RuleIds(n)
    PROVE  /\ r[n] \in [RuleIds(n) -> RuleMode]
           /\ r[n][id] \in RuleMode
<1>1. r[n] \in SomeRules /\ DOMAIN r[n] = RuleIds(n)
  BY DEF HasRules
<1>2. PICK D \in SUBSET Ids : r[n] \in [D -> RuleMode]
  BY <1>1 DEF SomeRules
<1> QED
  BY <1>1, <1>2

\* The rules are seeded at audit, with the defaults.
LEMMA SeededCorrect ==
    ASSUME Ready
    PROVE  /\ HasRules(Seeded)
           /\ \A n \in DOMAIN command.files : \A id \in RuleIds(n) :
                /\ Seeded[n][id].mode = "audit"
                /\ \A k \in DOMAIN Metadata(n, id) :
                    Seeded[n][id].parameters[k] = Metadata(n, id)[k].default
<1>1. ASSUME NEW n \in DOMAIN command.files
      PROVE  /\ Seeded[n] \in SomeRules
             /\ DOMAIN Seeded[n] = RuleIds(n)
             /\ \A id \in RuleIds(n) :
                    /\ Seeded[n][id].mode = "audit"
                    /\ DOMAIN Seeded[n][id].parameters = DOMAIN Metadata(n, id)
                    /\ \A k \in DOMAIN Metadata(n, id) :
                        Seeded[n][id].parameters[k] = Metadata(n, id)[k].default
  <2>1. PICK s : s = [id \in RuleIds(n) |->
            [mode |-> "audit",
             parameters |-> [k \in DOMAIN Metadata(n, id) |-> Metadata(n, id)[k].default]]]
    OBVIOUS
  <2>2. Seeded[n] = s
    BY <2>1 DEF Seeded
  <2>3. ASSUME NEW id \in RuleIds(n)
        PROVE  /\ s[id].mode = "audit" /\ s[id] \in RuleMode
               /\ DOMAIN s[id].parameters = DOMAIN Metadata(n, id)
               /\ \A k \in DOMAIN Metadata(n, id) :
                    s[id].parameters[k] = Metadata(n, id)[k].default
    <3>1. PICK p : p = [k \in DOMAIN Metadata(n, id) |-> Metadata(n, id)[k].default]
      OBVIOUS
    <3>2. s[id] = [mode |-> "audit", parameters |-> p]
      BY <2>1, <3>1
    <3>3. p \in ProcedureParameters
      <4>1. p \in [DOMAIN Metadata(n, id) -> Values] /\ DOMAIN Metadata(n, id) \in SUBSET Keys
        BY <3>1, MetadataType
      <4> QED
        BY <4>1 DEF ProcedureParameters
    <3>4. s[id] \in RuleMode
      BY <3>2, <3>3 DEF RuleMode, Modes
    <3> QED
      BY <3>1, <3>2, <3>4
  <2>4. s \in [RuleIds(n) -> RuleMode] /\ RuleIds(n) \in SUBSET Ids
    BY <2>1, <2>3, MetadataType
  <2>5. s \in SomeRules /\ DOMAIN s = RuleIds(n)
    BY <2>4 DEF SomeRules
  <2> QED
    BY <2>2, <2>3, <2>5
<1>2. Seeded \in [DOMAIN command.files -> SomeRules]
  BY <1>1 DEF Seeded
<1> QED
  BY <1>1, <1>2 DEF HasRules

\* A toggle changes the mode of the rule it names, and nothing else.
ChangesMode(q, r, toggle) ==
    \A n \in DOMAIN command.files : \A id \in RuleIds(n) :
        /\ q[n][id].mode = IF toggle.id = id /\ Named(toggle.base) = {n}
                           THEN toggle.mode ELSE r[n][id].mode
        /\ q[n][id].parameters = r[n][id].parameters

LEMMA ToggleCorrect ==
    ASSUME Ready, NEW r, HasRules(r), NEW toggle \in Toggle
    PROVE  /\ HasRules(ApplyToggle(r, toggle))
           /\ Resolved(toggle) => ChangesMode(ApplyToggle(r, toggle), r, toggle)
<1>1. toggle.mode \in Modes
  BY DEF Toggle
<1>2. DOMAIN r = DOMAIN command.files
  BY DEF HasRules
<1>3. PICK m : m = CHOOSE n \in DOMAIN r : n \in Named(toggle.base)
  OBVIOUS
<1>4. PICK q : q = [r EXCEPT ![m][toggle.id].mode = toggle.mode]
  OBVIOUS
<1>5. ApplyToggle(r, toggle) = q
  BY <1>3, <1>4 DEF ApplyToggle
<1>6. DOMAIN q = DOMAIN command.files
  BY <1>2, <1>4
<1>7. ASSUME NEW n \in DOMAIN command.files
      PROVE  /\ q[n] \in [RuleIds(n) -> RuleMode]
             /\ \A id \in RuleIds(n) :
                    /\ q[n][id].mode = IF n = m /\ id = toggle.id THEN toggle.mode
                                       ELSE r[n][id].mode
                    /\ q[n][id].parameters = r[n][id].parameters
  <2>1. r[n] \in [RuleIds(n) -> RuleMode]
    BY RuleType DEF HasRules, SomeRules
  <2>2. CASE n # m
    <3>1. q[n] = r[n]
      BY <1>2, <1>4, <2>2
    <3> QED
      BY <2>1, <2>2, <3>1
  <2>3. CASE n = m
    <3>1. q[n] = [r[n] EXCEPT ![toggle.id].mode = toggle.mode]
      BY <1>2, <1>4, <2>3
    <3>2. DOMAIN q[n] = RuleIds(n)
      BY <2>1, <3>1
    <3>3. ASSUME NEW id \in RuleIds(n)
          PROVE  /\ q[n][id] \in RuleMode
                 /\ q[n][id].mode = IF id = toggle.id THEN toggle.mode ELSE r[n][id].mode
                 /\ q[n][id].parameters = r[n][id].parameters
      <4>1. r[n][id] \in RuleMode
        BY <2>1
      <4>2. CASE id # toggle.id
        <5>1. q[n][id] = r[n][id]
          BY <2>1, <3>1, <4>2
        <5> QED
          BY <4>1, <4>2, <5>1
      <4>3. CASE id = toggle.id
        <5>1. q[n][id] = [r[n][id] EXCEPT !.mode = toggle.mode]
          BY <2>1, <3>1, <4>3
        <5> QED
          BY <1>1, <4>1, <4>3, <5>1 DEF RuleMode
      <4> QED
        BY <4>2, <4>3
    <3>4. q[n] = [id \in RuleIds(n) |-> q[n][id]]
      BY <2>1, <3>1
    <3> QED
      BY <2>3, <3>3, <3>4
  <2> QED
    BY <2>2, <2>3
<1>8. HasRules(q)
  <2>1. \A n \in DOMAIN command.files : q[n] \in SomeRules
    <3>1. \A n \in DOMAIN command.files : RuleIds(n) \in SUBSET Ids
      BY MetadataType
    <3> QED
      BY <1>7, <3>1 DEF SomeRules
  <2>2. q = [n \in DOMAIN command.files |-> q[n]]
    BY <1>2, <1>4
  <2>3. q \in [DOMAIN command.files -> SomeRules]
    BY <2>1, <2>2
  <2>4. \A n \in DOMAIN command.files : \A id \in RuleIds(n) :
            DOMAIN q[n][id].parameters = DOMAIN Metadata(n, id)
    BY <1>7 DEF HasRules
  <2>5. \A n \in DOMAIN command.files : DOMAIN q[n] = RuleIds(n)
    BY <1>7
  <2> QED
    BY <2>3, <2>4, <2>5 DEF HasRules
<1>9. Resolved(toggle) => \A n \in DOMAIN command.files : n = m <=> Named(toggle.base) = {n}
  BY <1>2, <1>3 DEF Resolved
<1>10. Resolved(toggle) => ChangesMode(q, r, toggle)
  BY <1>7, <1>9 DEF ChangesMode
<1> QED
  BY <1>5, <1>8, <1>10

\* An override changes the parameter it means, and nothing else.
ChangesParameter(q, r, override) ==
    \A n \in DOMAIN command.files : \A id \in RuleIds(n) :
        /\ q[n][id].mode = r[n][id].mode
        /\ \A k \in DOMAIN Metadata(n, id) :
            q[n][id].parameters[k] = IF Meanings(override) = {<<n, id, k>>}
                                     THEN override.value ELSE r[n][id].parameters[k]

LEMMA OverrideCorrect ==
    ASSUME Ready, NEW r, HasRules(r), NEW override \in ParamOverride
    PROVE  /\ HasRules(ApplyOverride(r, override))
           /\ Unambiguous(override) => ChangesParameter(ApplyOverride(r, override), r, override)
<1>1. override.value \in Values
  BY DEF ParamOverride
<1>2. DOMAIN r = DOMAIN command.files
  BY DEF HasRules
<1>3. PICK x : x = CHOOSE y \in Meanings(override) : TRUE
  OBVIOUS
<1>4. PICK q : q = [r EXCEPT ![x[1]][x[2]].parameters[x[3]] = override.value]
  OBVIOUS
<1>5. ApplyOverride(r, override) = q
  BY <1>3, <1>4 DEF ApplyOverride
<1>6. DOMAIN q = DOMAIN command.files
  BY <1>2, <1>4
<1>7. ASSUME NEW n \in DOMAIN command.files
      PROVE  /\ q[n] \in [RuleIds(n) -> RuleMode]
             /\ \A id \in RuleIds(n) :
                    /\ q[n][id].mode = r[n][id].mode
                    /\ DOMAIN q[n][id].parameters = DOMAIN Metadata(n, id)
                    /\ \A k \in DOMAIN Metadata(n, id) :
                        q[n][id].parameters[k] =
                            IF n = x[1] /\ id = x[2] /\ k = x[3]
                            THEN override.value ELSE r[n][id].parameters[k]
  <2>1. r[n] \in [RuleIds(n) -> RuleMode]
    BY RuleType DEF HasRules, SomeRules
  <2>2. \A id \in RuleIds(n) : DOMAIN r[n][id].parameters = DOMAIN Metadata(n, id)
    BY DEF HasRules
  <2>3. CASE n # x[1]
    <3>1. q[n] = r[n]
      BY <1>2, <1>4, <2>3
    <3> QED
      BY <2>1, <2>2, <2>3, <3>1
  <2>4. CASE n = x[1]
    <3>1. q[n] = [r[n] EXCEPT ![x[2]].parameters[x[3]] = override.value]
      BY <1>2, <1>4, <2>4
    <3>2. DOMAIN q[n] = RuleIds(n)
      BY <2>1, <3>1
    <3>3. ASSUME NEW id \in RuleIds(n)
          PROVE  /\ q[n][id] \in RuleMode
                 /\ q[n][id].mode = r[n][id].mode
                 /\ DOMAIN q[n][id].parameters = DOMAIN Metadata(n, id)
                 /\ \A k \in DOMAIN Metadata(n, id) :
                        q[n][id].parameters[k] =
                            IF id = x[2] /\ k = x[3]
                            THEN override.value ELSE r[n][id].parameters[k]
      <4>1. r[n][id] \in RuleMode
        BY <2>1
      <4>2. CASE id # x[2]
        <5>1. q[n][id] = r[n][id]
          BY <2>1, <3>1, <4>2
        <5> QED
          BY <2>2, <4>1, <4>2, <5>1
      <4>3. CASE id = x[2]
        <5>1. q[n][id] = [r[n][id] EXCEPT !.parameters[x[3]] = override.value]
          BY <2>1, <3>1, <4>3
        <5>2. PICK p : p = [r[n][id].parameters EXCEPT ![x[3]] = override.value]
          OBVIOUS
        <5>3. q[n][id] = [r[n][id] EXCEPT !.parameters = p]
          BY <4>1, <5>1, <5>2 DEF RuleMode
        <5>4. q[n][id].mode = r[n][id].mode /\ q[n][id].parameters = p
          BY <4>1, <5>3 DEF RuleMode
        <5>5. PICK D \in SUBSET Keys : r[n][id].parameters \in [D -> Values]
          BY <4>1 DEF RuleMode, ProcedureParameters
        <5>6. p \in [D -> Values] /\ DOMAIN p = DOMAIN Metadata(n, id)
          BY <1>1, <2>2, <5>2, <5>5
        <5>7. p \in ProcedureParameters
          BY <5>6 DEF ProcedureParameters
        <5>8. q[n][id] \in RuleMode
          BY <4>1, <5>3, <5>7 DEF RuleMode
        <5>9. \A k \in DOMAIN Metadata(n, id) :
                p[k] = IF k = x[3] THEN override.value ELSE r[n][id].parameters[k]
          BY <2>2, <5>2
        <5> QED
          BY <4>3, <5>4, <5>6, <5>8, <5>9
      <4> QED
        BY <4>2, <4>3
    <3>4. q[n] = [id \in RuleIds(n) |-> q[n][id]]
      BY <2>1, <3>1
    <3> QED
      BY <2>4, <3>3, <3>4
  <2> QED
    BY <2>3, <2>4
<1>8. HasRules(q)
  <2>1. \A n \in DOMAIN command.files : q[n] \in SomeRules
    <3>1. \A n \in DOMAIN command.files : RuleIds(n) \in SUBSET Ids
      BY MetadataType
    <3> QED
      BY <1>7, <3>1 DEF SomeRules
  <2>2. q = [n \in DOMAIN command.files |-> q[n]]
    BY <1>2, <1>4
  <2>3. q \in [DOMAIN command.files -> SomeRules]
    BY <2>1, <2>2
  <2> QED
    BY <1>7, <2>3 DEF HasRules
<1>9. ASSUME Unambiguous(override)
      PROVE  \A n, id, k : n = x[1] /\ id = x[2] /\ k = x[3]
                                <=> Meanings(override) = {<<n, id, k>>}
  <2>1. PICK y \in Meanings(override) : Meanings(override) = {y}
    BY <1>9 DEF Unambiguous
  <2>2. x = y
    BY <1>3, <2>1
  <2>3. y \in (DOMAIN command.files) \X Ids \X Keys
    BY DEF Meanings
  <2>4. y = <<y[1], y[2], y[3]>>
    BY <2>3
  <2> QED
    BY <2>1, <2>2, <2>4
<1>10. ASSUME Unambiguous(override),
              NEW n \in DOMAIN command.files, NEW id \in RuleIds(n)
       PROVE  /\ q[n][id].mode = r[n][id].mode
              /\ \A k \in DOMAIN Metadata(n, id) :
                    q[n][id].parameters[k] =
                        IF Meanings(override) = {<<n, id, k>>}
                        THEN override.value ELSE r[n][id].parameters[k]
  <2>1. q[n][id].mode = r[n][id].mode
    BY <1>7
  <2>2. ASSUME NEW k \in DOMAIN Metadata(n, id)
        PROVE  q[n][id].parameters[k] =
                    IF Meanings(override) = {<<n, id, k>>}
                    THEN override.value ELSE r[n][id].parameters[k]
    <3>1. q[n][id].parameters[k] = IF n = x[1] /\ id = x[2] /\ k = x[3]
                                    THEN override.value ELSE r[n][id].parameters[k]
      BY <1>7
    <3>2. (n = x[1] /\ id = x[2] /\ k = x[3]) <=> Meanings(override) = {<<n, id, k>>}
      BY <1>9, <1>10
    <3> QED
      BY ONLY <3>1, <3>2
  <2> QED
    BY <2>1, <2>2
<1>11. Unambiguous(override) => ChangesParameter(q, r, override)
  BY <1>10 DEF ChangesParameter
<1> QED
  BY <1>5, <1>8, <1>11

\* The toggles are applied one after the other.
LEMMA WithTogglesAre ==
    ASSUME Ready
    PROVE  /\ WithToggles[0] = Seeded
           /\ \A t \in 0 .. Len(command.toggles) : HasRules(WithToggles[t])
           /\ \A t \in 1 .. Len(command.toggles) :
                WithToggles[t] = ApplyToggle(WithToggles[t - 1], command.toggles[t])
<1>1. PICK N \in Nat : N = Len(command.toggles)
  BY ReadyType
<1>2. \A t \in 1 .. N : command.toggles[t] \in Toggle
  BY <1>1, ReadyType
<1>3. \A r : r \in RulesSets <=> HasRules(r)
  BY DEF RulesSets, HasRules
<1>4. PICK next : next = [x \in RulesSets \X (1 .. N) |-> ApplyToggle(x[1], command.toggles[x[2]])]
  OBVIOUS
<1>5. next \in [RulesSets \X (1 .. N) -> RulesSets]
  <2>1. ASSUME NEW x \in RulesSets \X (1 .. N) PROVE next[x] \in RulesSets
    <3>1. HasRules(x[1]) /\ command.toggles[x[2]] \in Toggle
      BY <1>2, <1>3
    <3>2. HasRules(ApplyToggle(x[1], command.toggles[x[2]]))
      BY <3>1, ToggleCorrect
    <3> QED
      BY <1>3, <1>4, <3>2
  <2> QED
    BY <1>4, <2>1
<1>6. Seeded \in RulesSets
  BY <1>3, SeededCorrect
<1>7. PICK f \in [0 .. N -> RulesSets] :
        f[0] = Seeded /\ \A t \in 1 .. N : f[t] = next[<<f[t - 1], t>>]
  <2>1. IsLoop(next, RulesSets, N)
    BY <1>5 DEF IsLoop
  <2>2. \E f : IsHistory(f, next, Seeded, RulesSets, N)
    BY <1>6, <2>1, Iteration
  <2> QED
    BY <2>2 DEF IsHistory
<1>8. \A t \in 1 .. N : f[t] = ApplyToggle(f[t - 1], command.toggles[t])
  <2> SUFFICES ASSUME NEW t \in 1 .. N PROVE f[t] = ApplyToggle(f[t - 1], command.toggles[t])
    OBVIOUS
  <2>1. f[t - 1] \in RulesSets
    OBVIOUS
  <2>2. <<f[t - 1], t>> \in RulesSets \X (1 .. N)
    BY <2>1
  <2> QED
    BY <1>4, <1>7, <2>2
<1>9. f = [t \in 0 .. N |-> IF t = 0 THEN Seeded
                            ELSE ApplyToggle(f[t - 1], command.toggles[t])]
  <2>1. \A t \in 0 .. N : f[t] = IF t = 0 THEN Seeded
                                 ELSE ApplyToggle(f[t - 1], command.toggles[t])
    BY <1>7, <1>8
  <2> QED
    BY <2>1
<1>10. WithToggles = [t \in 0 .. N |-> IF t = 0 THEN Seeded
                            ELSE ApplyToggle(WithToggles[t - 1], command.toggles[t])]
  BY <1>1, <1>9 DEF WithToggles
<1>11. WithToggles[0] = Seeded
  BY <1>10
<1>12. \A t \in 1 .. N : WithToggles[t] = ApplyToggle(WithToggles[t - 1], command.toggles[t])
  BY <1>10
<1>13. \A t \in 0 .. N : HasRules(WithToggles[t])
  <2>1. PICK S : S = {t \in 0 .. N : HasRules(WithToggles[t])}
    OBVIOUS
  <2>2. 0 \in S
    BY <1>11, <2>1, SeededCorrect
  <2>3. ASSUME NEW t \in 0 .. N - 1, t \in S PROVE t + 1 \in S
    <3>1. WithToggles[t + 1] = ApplyToggle(WithToggles[t], command.toggles[t + 1])
      BY <1>12
    <3>2. HasRules(WithToggles[t]) /\ command.toggles[t + 1] \in Toggle
      BY <1>2, <2>1, <2>3
    <3>3. HasRules(WithToggles[t + 1])
      BY <3>1, <3>2, ToggleCorrect
    <3> QED
      BY <2>1, <3>3
  <2>4. 0 .. N \subseteq S
    BY ONLY <2>2, <2>3, Induction, N \in Nat
  <2> QED
    BY <2>1, <2>4
<1> QED
  BY <1>1, <1>11, <1>12, <1>13

\* The overrides are applied one after the other.
LEMMA WithOverridesAre ==
    ASSUME Ready
    PROVE  /\ WithOverrides[0] = WithToggles[Len(command.toggles)]
           /\ \A t \in 0 .. Len(command.overrides) : HasRules(WithOverrides[t])
           /\ \A t \in 1 .. Len(command.overrides) :
                WithOverrides[t] = ApplyOverride(WithOverrides[t - 1], command.overrides[t])
<1>0. PICK Toggled : Toggled = WithToggles[Len(command.toggles)] /\ HasRules(Toggled)
  BY WithTogglesAre, ReadyType
<1>1. PICK N \in Nat : N = Len(command.overrides)
  BY ReadyType
<1>2. \A t \in 1 .. N : command.overrides[t] \in ParamOverride
  BY <1>1, ReadyType
<1>3. \A r : r \in RulesSets <=> HasRules(r)
  BY DEF RulesSets, HasRules
<1>4. PICK next : next = [x \in RulesSets \X (1 .. N) |-> ApplyOverride(x[1], command.overrides[x[2]])]
  OBVIOUS
<1>5. next \in [RulesSets \X (1 .. N) -> RulesSets]
  <2>1. ASSUME NEW x \in RulesSets \X (1 .. N) PROVE next[x] \in RulesSets
    <3>1. HasRules(x[1]) /\ command.overrides[x[2]] \in ParamOverride
      BY <1>2, <1>3
    <3>2. HasRules(ApplyOverride(x[1], command.overrides[x[2]]))
      BY <3>1, OverrideCorrect
    <3> QED
      BY <1>3, <1>4, <3>2
  <2> QED
    BY <1>4, <2>1
<1>6. Toggled \in RulesSets
  BY <1>0, <1>3
<1>7. PICK f \in [0 .. N -> RulesSets] :
        f[0] = Toggled /\ \A t \in 1 .. N : f[t] = next[<<f[t - 1], t>>]
  <2>1. IsLoop(next, RulesSets, N)
    BY <1>5 DEF IsLoop
  <2>2. \E f : IsHistory(f, next, Toggled, RulesSets, N)
    BY <1>6, <2>1, Iteration
  <2> QED
    BY <2>2 DEF IsHistory
<1>8. \A t \in 1 .. N : f[t] = ApplyOverride(f[t - 1], command.overrides[t])
  <2> SUFFICES ASSUME NEW t \in 1 .. N PROVE f[t] = ApplyOverride(f[t - 1], command.overrides[t])
    OBVIOUS
  <2>1. f[t - 1] \in RulesSets
    OBVIOUS
  <2>2. <<f[t - 1], t>> \in RulesSets \X (1 .. N)
    BY <2>1
  <2> QED
    BY <1>4, <1>7, <2>2
<1>9. f = [t \in 0 .. N |-> IF t = 0 THEN Toggled
                            ELSE ApplyOverride(f[t - 1], command.overrides[t])]
  <2>1. \A t \in 0 .. N : f[t] = IF t = 0 THEN Toggled
                                 ELSE ApplyOverride(f[t - 1], command.overrides[t])
    BY <1>7, <1>8
  <2> QED
    BY <2>1
<1>10. WithOverrides = [t \in 0 .. N |-> IF t = 0 THEN Toggled
                            ELSE ApplyOverride(WithOverrides[t - 1], command.overrides[t])]
  BY <1>0, <1>1, <1>9 DEF WithOverrides
<1>11. WithOverrides[0] = Toggled
  BY <1>10
<1>12. \A t \in 1 .. N : WithOverrides[t] = ApplyOverride(WithOverrides[t - 1], command.overrides[t])
  BY <1>10
<1>13. \A t \in 0 .. N : HasRules(WithOverrides[t])
  <2>1. PICK S : S = {t \in 0 .. N : HasRules(WithOverrides[t])}
    OBVIOUS
  <2>2. 0 \in S
    BY <1>0, <1>11, <2>1
  <2>3. ASSUME NEW t \in 0 .. N - 1, t \in S PROVE t + 1 \in S
    <3>1. WithOverrides[t + 1] = ApplyOverride(WithOverrides[t], command.overrides[t + 1])
      BY <1>12
    <3>2. HasRules(WithOverrides[t]) /\ command.overrides[t + 1] \in ParamOverride
      BY <1>2, <2>1, <2>3
    <3>3. HasRules(WithOverrides[t + 1])
      BY <3>1, <3>2, OverrideCorrect
    <3> QED
      BY <2>1, <3>3
  <2>4. 0 .. N \subseteq S
    BY ONLY <2>2, <2>3, Induction, N \in Nat
  <2> QED
    BY <2>1, <2>4
<1> QED
  BY <1>0, <1>1, <1>11, <1>12, <1>13

\* The mode of a rule is that of the last toggle that names it.
LEMMA TogglesCorrect ==
    ASSUME Ready, \A t \in DOMAIN command.toggles : Resolved(command.toggles[t]),
           NEW n \in DOMAIN command.files, NEW id \in RuleIds(n)
    PROVE  /\ WithToggles[Len(command.toggles)][n][id].mode = PromisedMode(n, id)
           /\ WithToggles[Len(command.toggles)][n][id].parameters = Seeded[n][id].parameters
<1>1. PICK N \in Nat : N = Len(command.toggles)
  BY ReadyType
<1>2. DOMAIN command.toggles = 1 .. N /\ \A t \in 1 .. N : command.toggles[t] \in Toggle
  BY <1>1, ReadyType
<1>3. /\ WithToggles[0] = Seeded
      /\ \A t \in 0 .. N : HasRules(WithToggles[t])
      /\ \A t \in 1 .. N : WithToggles[t] = ApplyToggle(WithToggles[t - 1], command.toggles[t])
  BY <1>1, WithTogglesAre
<1> DEFINE Names(t) == command.toggles[t].id = id /\ Named(command.toggles[t].base) = {n}
           Rule(t) == WithToggles[t][n][id]
           LastNames(t) ==
              \/ Rule(t).mode = "audit" /\ \A u \in 1 .. t : ~Names(u)
              \/ \E u \in 1 .. t : /\ Names(u) /\ Rule(t).mode = command.toggles[u].mode
                                   /\ \A v \in 1 .. t : Names(v) => v <= u
           Good(t) == Rule(t).parameters = Seeded[n][id].parameters /\ LastNames(t)
<1>4. Good(0)
  BY <1>3, SeededCorrect
<1>5. ASSUME NEW t \in 0 .. N - 1, Good(t) PROVE Good(t + 1)
  <2>1. /\ t + 1 \in 1 .. N /\ t \in 0 .. N /\ t \in Nat /\ (t + 1) - 1 = t
        /\ 1 .. t + 1 = (1 .. t) \cup {t + 1}
    OBVIOUS
  <2>2. WithToggles[t + 1] = ApplyToggle(WithToggles[t], command.toggles[t + 1])
    BY <1>3, <2>1
  <2>3. Resolved(command.toggles[t + 1]) /\ command.toggles[t + 1] \in Toggle
    BY <1>2, <2>1
  <2>4. /\ Rule(t + 1).mode = IF Names(t + 1) THEN command.toggles[t + 1].mode ELSE Rule(t).mode
        /\ Rule(t + 1).parameters = Rule(t).parameters
    <3>1. PICK r, toggle : r = WithToggles[t] /\ toggle = command.toggles[t + 1]
      OBVIOUS
    <3>2. HasRules(r) /\ toggle \in Toggle /\ Resolved(toggle)
      BY <1>3, <2>1, <2>3, <3>1
    <3>3. ChangesMode(ApplyToggle(r, toggle), r, toggle)
      BY <3>2, ToggleCorrect
    <3> QED
      BY <2>2, <3>1, <3>3 DEF ChangesMode
  <2> HIDE DEF Rule, Names
  <2>5. LastNames(t + 1)
    <3>1. CASE Names(t + 1)
      <4>1. \A v \in 1 .. t + 1 : v <= t + 1
        BY <2>1
      <4> QED
        BY <2>1, <2>4, <3>1, <4>1
    <3>2. CASE ~Names(t + 1)
      <4>1. Rule(t + 1).mode = Rule(t).mode
        BY <2>4, <3>2
      <4> QED
        BY <1>5, <2>1, <3>2, <4>1
    <3> QED
      BY <3>1, <3>2
  <2> QED
    BY <1>5, <2>4, <2>5
<1>6. Good(N)
  <2> HIDE DEF Good
  <2>1. PICK S : S = {t \in 0 .. N : Good(t)}
    OBVIOUS
  <2>2. 0 \in S /\ \A t \in 0 .. N - 1 : t \in S => t + 1 \in S
    BY <1>4, <1>5, <2>1
  <2>3. 0 .. N \subseteq S
    BY ONLY <2>2, Induction, N \in Nat
  <2> QED
    BY <2>1, <2>3
<1>7. PICK flags : flags = {t \in DOMAIN command.toggles : Names(t)}
  OBVIOUS
<1>8. PromisedMode(n, id) =
        IF flags = {} THEN "audit"
        ELSE command.toggles[CHOOSE t \in flags : \A u \in flags : u <= t].mode
  BY <1>7 DEF PromisedMode
<1> HIDE DEF Rule, Names
<1>9. Rule(N).mode = PromisedMode(n, id)
  <2>1. CASE flags = {}
    BY <1>2, <1>6, <1>7, <1>8, <2>1
  <2>2. CASE flags # {}
    <3>1. PICK u \in flags : Rule(N).mode = command.toggles[u].mode /\ \A v \in flags : v <= u
      BY <1>2, <1>6, <1>7, <2>2
    <3>2. flags \subseteq Nat
      BY <1>2, <1>7
    <3>3. u = CHOOSE t \in flags : \A v \in flags : v <= t
      BY <3>1, <3>2
    <3> QED
      BY <1>8, <2>2, <3>1, <3>3
  <2> QED
    BY <2>1, <2>2
<1> QED
  BY <1>1, <1>6, <1>9 DEF Rule

\* The value of a parameter is that of the last override that means it.
LEMMA OverridesCorrect ==
    ASSUME Ready, \A t \in DOMAIN command.toggles : Resolved(command.toggles[t]),
           \A o \in DOMAIN command.overrides : Unambiguous(command.overrides[o]),
           NEW n \in DOMAIN command.files, NEW id \in RuleIds(n), NEW k
    PROVE  /\ GeneratedRules[n][id].mode = PromisedMode(n, id)
           /\ k \in DOMAIN Metadata(n, id) =>
                GeneratedRules[n][id].parameters[k] = PromisedValue(n, id, k)
<1>1. PICK N \in Nat : N = Len(command.overrides)
  BY ReadyType
<1>2. /\ DOMAIN command.overrides = 1 .. N
      /\ \A o \in 1 .. N : command.overrides[o] \in ParamOverride
  BY <1>1, ReadyType
<1>3. /\ WithOverrides[0] = WithToggles[Len(command.toggles)]
      /\ \A o \in 0 .. N : HasRules(WithOverrides[o])
      /\ \A o \in 1 .. N : WithOverrides[o] = ApplyOverride(WithOverrides[o - 1], command.overrides[o])
  BY <1>1, WithOverridesAre
<1> DEFINE Means(o) == Meanings(command.overrides[o]) = {<<n, id, k>>}
           Rule(o) == WithOverrides[o][n][id]
           Value(o) == Rule(o).parameters[k]
           LastGives(o) ==
              \/ Value(o) = Metadata(n, id)[k].default /\ \A u \in 1 .. o : ~Means(u)
              \/ \E u \in 1 .. o : /\ Means(u) /\ Value(o) = command.overrides[u].value
                                   /\ \A v \in 1 .. o : Means(v) => v <= u
           Good(o) ==
              /\ Rule(o).mode = PromisedMode(n, id)
              /\ k \in DOMAIN Metadata(n, id) => LastGives(o)
<1>4. Good(0)
  <2>1. /\ Rule(0).mode = PromisedMode(n, id)
        /\ Rule(0).parameters = Seeded[n][id].parameters
    BY <1>3, TogglesCorrect
  <2>2. k \in DOMAIN Metadata(n, id) => Value(0) = Metadata(n, id)[k].default
    BY <2>1, SeededCorrect
  <2> QED
    BY <2>1, <2>2
<1>5. ASSUME NEW o \in 0 .. N - 1, Good(o) PROVE Good(o + 1)
  <2>1. /\ o + 1 \in 1 .. N /\ o \in 0 .. N /\ o \in Nat /\ (o + 1) - 1 = o
        /\ 1 .. o + 1 = (1 .. o) \cup {o + 1}
    OBVIOUS
  <2>2. WithOverrides[o + 1] = ApplyOverride(WithOverrides[o], command.overrides[o + 1])
    BY <1>3, <2>1
  <2>3. Unambiguous(command.overrides[o + 1]) /\ command.overrides[o + 1] \in ParamOverride
    BY <1>2, <2>1
  <2>4. /\ Rule(o + 1).mode = Rule(o).mode
        /\ k \in DOMAIN Metadata(n, id) =>
            Value(o + 1) = IF Means(o + 1) THEN command.overrides[o + 1].value ELSE Value(o)
    <3>1. PICK r, override : r = WithOverrides[o] /\ override = command.overrides[o + 1]
      OBVIOUS
    <3>2. HasRules(r) /\ override \in ParamOverride /\ Unambiguous(override)
      BY <1>3, <2>1, <2>3, <3>1
    <3>3. ChangesParameter(ApplyOverride(r, override), r, override)
      BY <3>2, OverrideCorrect
    <3> QED
      BY <2>2, <3>1, <3>3 DEF ChangesParameter
  <2> HIDE DEF Rule, Value, Means
  <2>5. k \in DOMAIN Metadata(n, id) => LastGives(o + 1)
    <3> SUFFICES ASSUME k \in DOMAIN Metadata(n, id) PROVE LastGives(o + 1)
      OBVIOUS
    <3>1. CASE Means(o + 1)
      <4>1. \A v \in 1 .. o + 1 : v <= o + 1
        BY <2>1
      <4> QED
        BY <2>1, <2>4, <3>1, <4>1
    <3>2. CASE ~Means(o + 1)
      <4>1. Value(o + 1) = Value(o)
        BY <2>4, <3>2
      <4> QED
        BY <1>5, <2>1, <3>2, <4>1
    <3> QED
      BY <3>1, <3>2
  <2> QED
    BY <1>5, <2>4, <2>5
<1>6. Good(N)
  <2> HIDE DEF Good
  <2>1. PICK S : S = {o \in 0 .. N : Good(o)}
    OBVIOUS
  <2>2. 0 \in S /\ \A o \in 0 .. N - 1 : o \in S => o + 1 \in S
    BY <1>4, <1>5, <2>1
  <2>3. 0 .. N \subseteq S
    BY ONLY <2>2, Induction, N \in Nat
  <2> QED
    BY <2>1, <2>3
<1>7. PICK flags : flags = {o \in DOMAIN command.overrides : Means(o)}
  OBVIOUS
<1>8. PromisedValue(n, id, k) =
        IF flags = {} THEN Metadata(n, id)[k].default
        ELSE command.overrides[CHOOSE o \in flags : \A p \in flags : p <= o].value
  BY <1>7 DEF PromisedValue
<1> HIDE DEF Rule, Value, Means
<1>9. ASSUME k \in DOMAIN Metadata(n, id) PROVE Value(N) = PromisedValue(n, id, k)
  <2>1. CASE flags = {}
    BY <1>2, <1>6, <1>7, <1>8, <1>9, <2>1
  <2>2. CASE flags # {}
    <3>1. PICK u \in flags : Value(N) = command.overrides[u].value /\ \A v \in flags : v <= u
      BY <1>2, <1>6, <1>7, <1>9, <2>2
    <3>2. flags \subseteq Nat
      BY <1>2, <1>7
    <3>3. u = CHOOSE o \in flags : \A v \in flags : v <= o
      BY <3>1, <3>2
    <3> QED
      BY <1>8, <2>2, <3>1, <3>3
  <2> QED
    BY <2>1, <2>2
<1>10. WithOverrides[N][n][id] = GeneratedRules[n][id]
  BY <1>1 DEF GeneratedRules
<1> QED
  BY <1>6, <1>9, <1>10 DEF Rule, Value

\* The generated plan is one of the blocks of a plan.
LEMMA GeneratedType ==
    ASSUME Ready
    PROVE  /\ HasRules(GeneratedRules)
           /\ GeneratedPlan \in Seq(PlanBenchmark) /\ Len(GeneratedPlan) = Len(command.files)
<1>1. HasRules(GeneratedRules)
  BY WithOverridesAre, ReadyType DEF GeneratedRules
<1>2. ASSUME NEW n \in DOMAIN command.files PROVE GeneratedPlan[n] \in PlanBenchmark
  <2>1. parsedFiles[n] \in Documents /\ command.files[n] \in Files
    BY ReadyType DEF Ready
  <2>2. parsedFiles[n].version \in Version
    BY <2>1, PlanAssumption DEF IsDocument
  <2>3. GeneratedRules[n] \in SomeRules
    BY <1>1 DEF HasRules
  <2>4. GeneratedPlan[n] = [file |-> command.files[n], version |-> parsedFiles[n].version,
                            constraint |-> "^", rules |-> GeneratedRules[n]]
    BY DEF GeneratedPlan
  <2> QED
    BY <2>1, <2>2, <2>3, <2>4 DEF PlanBenchmark, SomeRules
<1>3. PICK N \in Nat : N = Len(command.files) /\ DOMAIN command.files = 1 .. N
  BY ReadyType
<1>4. GeneratedPlan \in [1 .. N -> PlanBenchmark]
  BY <1>2, <1>3 DEF GeneratedPlan
<1>5. GeneratedPlan \in Seq(PlanBenchmark) /\ Len(GeneratedPlan) = N
  BY ONLY <1>4, N \in Nat
<1> QED
  BY <1>1, <1>3, <1>5

\* What the command generates is that of its command line and definitions.
LEMMA SamePlan ==
    ASSUME UNCHANGED <<session, parsedFiles>>
    PROVE  GeneratedPlan' = GeneratedPlan /\ Generable' = Generable /\ command' = command
<1>1. command' = command
  BY DEF command
<1>2. /\ \A n : RuleIds(n)' = RuleIds(n)
      /\ \A n, id : Metadata(n, id)' = Metadata(n, id)
      /\ \A base : Named(base)' = Named(base)
  BY <1>1 DEF RuleIds, Metadata, Named
<1>3. /\ \A toggle : Resolved(toggle)' = Resolved(toggle)
      /\ \A override : Meanings(override)' = Meanings(override)
  BY <1>1, <1>2 DEF Resolved, Meanings
<1>4. Seeded' = Seeded
  BY <1>1, <1>2 DEF Seeded
<1>5. /\ \A r, toggle : ApplyToggle(r, toggle)' = ApplyToggle(r, toggle)
      /\ \A r, override : ApplyOverride(r, override)' = ApplyOverride(r, override)
  BY <1>2, <1>3 DEF ApplyToggle, ApplyOverride
<1>6. WithToggles' = WithToggles
  BY <1>1, <1>4, <1>5 DEF WithToggles
<1>7. GeneratedRules' = GeneratedRules
  BY <1>1, <1>5, <1>6 DEF WithOverrides, GeneratedRules
<1>8. GeneratedPlan' = GeneratedPlan
  BY <1>1, <1>7 DEF GeneratedPlan
<1>9. Generable' = Generable
  BY <1>1, <1>2, <1>3, <1>7 DEF Generable, Unambiguous
<1> QED
  BY <1>1, <1>8, <1>9

-----------------------------------------------------------------------------
\* The invariant of the two commands and the file between them.
Cells == PlanBenchmark \cup {End, Nul}

Writing == {"open", "truncate", "write"}

CommandType ==
    /\ session \in Sessions
    /\ step \in {"files", "parse", "generate", "done"} \cup Writing
    /\ replaced \in BOOLEAN /\ fromCommand \in BOOLEAN /\ overlapped \in BOOLEAN
    /\ parsedFiles \in Seq(Documents)
    /\ content \in Seq(Cells) /\ written \in Nat
    /\ file \in Seq(Cells) /\ input_ \in Seq(Cells)

\* The definitions are read before anything is generated, and the file is truncated after.
Progress ==
    /\ step # "done" => command # None
    /\ step = "files" => parsedFiles = << >>
    /\ step = "parse" => Len(parsedFiles) < Len(command.files)
    /\ step = "generate" => Len(parsedFiles) = Len(command.files)
    /\ step \in {"files", "parse", "generate", "open", "truncate"} => ~replaced
    /\ step = "write" => replaced

\* What is written is a plan that was generated, and what it was generated from stays.
Generated ==
    /\ step \in Writing \/ replaced =>
        command # None /\ Len(parsedFiles) = Len(command.files) /\ Generable
    /\ step \in Writing => content = PlanText(GeneratedPlan)

\* The file is what was there before, or the beginning of the text of the command with
\* cells that were lost.
FileIs ==
    /\ ~replaced => file = OldText
    /\ replaced =>
        /\ Len(file) <= Len(PlanText(GeneratedPlan))
        /\ \A c \in 1 .. Len(file) : file[c] \in {Nul, PlanText(GeneratedPlan)[c]}
    /\ step = "write" => written = Len(file)
    /\ step \in {"files", "parse", "generate", "open", "truncate"} => written = 0

\* Unless it is disturbed, what was read is the beginning of the file.
ReaderIs ==
    /\ pc = "idle" => (~overlapped /\ input_ = << >> /\ ~fromCommand)
    /\ fromCommand => replaced
    /\ pc = "read" /\ ~overlapped =>
        /\ replaced => (fromCommand \/ file = << >>)
        /\ Len(input_) <= Len(file)
        /\ \A c \in 1 .. Len(input_) : input_[c] = file[c]

BlocksKnown == \A n \in DOMAIN evaluations : evaluations[n].block \in DOMAIN plan

CommandInv == CommandType /\ Progress /\ Generated /\ FileIs

SessionInv == CommandInv /\ ReaderIs /\ RunsAWholePlan /\ BlocksKnown

-----------------------------------------------------------------------------
\* The text of a plan, and that its blocks are read back.
LEMMA TextIs ==
    ASSUME NEW p \in Seq(PlanBenchmark)
    PROVE  /\ PlanText(p) \in Seq(Cells) /\ Len(PlanText(p)) = Len(p) + 1
           /\ \A c \in 1 .. Len(p) : PlanText(p)[c] = p[c] /\ p[c] \in PlanBenchmark
           /\ PlanText(p)[Len(p) + 1] = End
           /\ Blocks(PlanText(p)) = p
<1>1. p \in Seq(Cells) /\ <<End>> \in Seq(Cells) /\ Len(p) \in Nat
  BY DEF Cells
<1>2. PICK t : t = p \o <<End>>
  OBVIOUS
<1>3. t \in Seq(Cells) /\ Len(t) = Len(p) + 1
  BY <1>1, <1>2
<1>4. \A c \in 1 .. Len(p) : t[c] = p[c]
  BY <1>1, <1>2
<1>5. t[Len(p) + 1] = End
  BY <1>1, <1>2
<1>6. SubSeq(t, 1, Len(t) - 1) = p
  <2>1. PICK s : s = SubSeq(t, 1, Len(p))
    OBVIOUS
  <2>2. Len(s) = Len(p) /\ s \in Seq(Cells) /\ \A c \in 1 .. Len(p) : s[c] = t[c]
    BY <1>1, <1>3, <2>1, SubSeqProperties
  <2>3. s = p
    BY <1>1, <1>4, <2>2
  <2> QED
    BY <1>1, <1>3, <2>1, <2>3
<1> QED
  BY <1>2, <1>3, <1>4, <1>5, <1>6 DEF PlanText, Blocks

\* A text whose cells are those of a plan's text, or lost, parses only when it is whole.
LEMMA ParsesWhole ==
    ASSUME NEW p \in Seq(PlanBenchmark), NEW text \in Seq(Cells),
           Len(text) <= Len(PlanText(p)),
           \A c \in 1 .. Len(text) : text[c] \in {Nul, PlanText(p)[c]},
           Parses(text)
    PROVE  Blocks(text) = p
<1>1. PICK n \in Nat : n = Len(text)
  OBVIOUS
<1>2. n > 1 /\ text[n] = End /\ \A c \in 1 .. n - 1 : text[c] \in PlanBenchmark
  BY <1>1 DEF Parses
<1>3. Len(p) \in Nat /\ n <= Len(p) + 1
  BY <1>1, TextIs
<1>4. PlanText(p)[n] = End
  BY <1>1, <1>2, CommandAssumption
<1>5. n = Len(p) + 1
  <2> SUFFICES ASSUME n <= Len(p) PROVE FALSE
    BY <1>3
  <2>1. PlanText(p)[n] \in PlanBenchmark
    <3>1. n \in 1 .. Len(p)
      BY <1>2
    <3> QED
      BY <3>1, TextIs
  <2> QED
    BY <1>4, <2>1, CommandAssumption
<1>6. \A c \in 1 .. n : text[c] = PlanText(p)[c]
  <2> SUFFICES ASSUME NEW c \in 1 .. n PROVE text[c] = PlanText(p)[c]
    OBVIOUS
  <2>1. text[c] # Nul
    <3>1. c = n \/ c \in 1 .. n - 1
      OBVIOUS
    <3> QED
      BY <1>2, <3>1, CommandAssumption
  <2> QED
    BY <1>1, <2>1
<1>7. text = PlanText(p)
  <2>1. PICK t : t = PlanText(p)
    OBVIOUS
  <2>2. t \in Seq(Cells) /\ Len(t) = n
    BY <1>5, <2>1, TextIs
  <2>3. \A c \in 1 .. n : text[c] = t[c]
    BY <1>6, <2>1
  <2>4. text = t
    BY ONLY <1>1, <2>2, <2>3, text \in Seq(Cells), n \in Nat
  <2> QED
    BY <2>1, <2>4
<1> QED
  BY <1>7, TextIs

-----------------------------------------------------------------------------
\* Once something is generated, all that it is made of is there.
LEMMA GeneratedReady ==
    ASSUME CommandInv, step \in Writing \/ replaced
    PROVE  Ready /\ GeneratedPlan \in Seq(PlanBenchmark)
<1>1. Ready
  BY DEF CommandInv, CommandType, Generated, Ready
<1> QED
  BY <1>1, GeneratedType

\* The command ends early.
LEMMA StopInv ==
    ASSUME CommandInv, Disturb, Stop
    PROVE  CommandInv'
<1>1. /\ step' = "done" /\ content' = << >> /\ written' = 0
      /\ session' = session /\ file' = file /\ replaced' = replaced
      /\ parsedFiles' = IF replaced THEN parsedFiles ELSE << >>
  BY DEF Stop
<1>2. input_' = input_ /\ fromCommand' = fromCommand /\ overlapped' \in BOOLEAN
  BY DEF Disturb, CommandInv, CommandType
<1>3. CommandType'
  BY <1>1, <1>2 DEF CommandInv, CommandType
<1>4. Progress'
  BY <1>1 DEF Progress
<1>5. CASE replaced
  <2>1. GeneratedPlan' = GeneratedPlan /\ Generable' = Generable /\ command' = command
    BY <1>1, <1>5, SamePlan
  <2>2. Generated'
    BY <1>1, <1>5, <2>1 DEF CommandInv, Generated, Writing
  <2>3. PlanText(GeneratedPlan)' = PlanText(GeneratedPlan)
    BY <2>1 DEF PlanText
  <2>4. FileIs'
    BY <1>1, <1>5, <2>3 DEF CommandInv, FileIs
  <2> QED
    BY <1>3, <1>4, <2>2, <2>4 DEF CommandInv
<1>6. CASE ~replaced
  <2>1. Generated'
    BY <1>1, <1>6 DEF Generated, Writing
  <2>2. FileIs'
    BY <1>1, <1>6 DEF CommandInv, FileIs, OldText
  <2> QED
    BY <1>3, <1>4, <2>1, <2>2 DEF CommandInv
<1> QED
  BY <1>5, <1>6 DEF CommandInv, CommandType

\* The steps before the file is touched.
LEMMA BeforeInv ==
    ASSUME CommandInv, Disturb,
           \/ CheckInputs \/ (\E d \in Documents : ParseDefinition(d))
           \/ Generate \/ OpenOutput
    PROVE  CommandInv'
<1>1. input_' = input_ /\ fromCommand' = fromCommand /\ overlapped' \in BOOLEAN
  BY DEF Disturb, CommandInv, CommandType
<1>2. CASE Stop
  BY <1>2, StopInv
<1>3. ASSUME step = "files", step' = "parse",
             UNCHANGED <<session, parsedFiles, content, written, file, replaced>>
      PROVE  CommandInv'
  <2>1. command' = command /\ command # None /\ parsedFiles = << >>
    BY <1>3 DEF command, CommandInv, Progress
  <2>2. Len(parsedFiles) < Len(command.files)
    <3>1. command.files \in Seq(Files) /\ command.files # << >>
      BY <2>1, CommandAssumption DEF CommandInv, CommandType, IsCommand, command
    <3>2. PICK f : f = command.files
      OBVIOUS
    <3>3. Len(f) > 0
      BY <3>1, <3>2
    <3> QED
      BY <2>1, <3>2, <3>3
  <2>3. CommandType' /\ Progress'
    BY <1>1, <1>3, <2>1, <2>2 DEF CommandInv, CommandType, Progress
  <2>4. Generated' /\ FileIs'
    BY <1>3 DEF CommandInv, Progress, Generated, FileIs, OldText, Writing
  <2> QED
    BY <2>3, <2>4 DEF CommandInv
<1>4. ASSUME NEW d \in Documents, ParseDefinition(d) PROVE CommandInv'
  <2>1. /\ step = "parse" /\ parsedFiles' = Append(parsedFiles, d)
        /\ step' = IF Len(parsedFiles') = Len(command.files) THEN "generate" ELSE "parse"
        /\ UNCHANGED <<session, content, written, file, replaced>>
    BY <1>4 DEF ParseDefinition
  <2>2. command' = command /\ command # None /\ Len(parsedFiles) < Len(command.files)
        /\ ~replaced
    BY <2>1 DEF command, CommandInv, Progress
  <2>3. parsedFiles' \in Seq(Documents) /\ Len(parsedFiles') = Len(parsedFiles) + 1
    BY <2>1 DEF CommandInv, CommandType
  <2>4. Len(command.files) \in Nat /\ Len(parsedFiles) \in Nat
    <3>1. command.files \in Seq(Files)
      BY <2>2, CommandAssumption DEF CommandInv, CommandType, IsCommand, command
    <3> QED
      BY <3>1 DEF CommandInv, CommandType
  <2>5. step' = "parse" => Len(parsedFiles') < Len(command.files)
    BY <2>1, <2>2, <2>3, <2>4
  <2>6. CommandType'
    BY <1>1, <2>1, <2>3 DEF CommandInv, CommandType
  <2>7. Progress'
    BY <2>1, <2>2, <2>5 DEF Progress
  <2>8. Generated'
    BY <2>1, <2>2 DEF Generated, Writing
  <2>9. FileIs'
    BY <2>1, <2>2 DEF CommandInv, FileIs, OldText
  <2> QED
    BY <2>6, <2>7, <2>8, <2>9 DEF CommandInv
<1>5. ASSUME step = "generate", Generable, content' = PlanText(GeneratedPlan), step' = "open",
             UNCHANGED <<session, parsedFiles, written, file, replaced>>
      PROVE  CommandInv'
  <2>1. GeneratedPlan' = GeneratedPlan /\ Generable' = Generable /\ command' = command
    BY <1>5, SamePlan
  <2>2. Ready /\ ~replaced
    BY <1>5 DEF CommandInv, CommandType, Progress, Ready
  <2>3. content' \in Seq(Cells)
    BY <1>5, <2>2, GeneratedType, TextIs
  <2>4. CommandType'
    BY <1>1, <1>5, <2>3 DEF CommandInv, CommandType, Writing
  <2>5. Progress'
    BY <1>5, <2>1, <2>2 DEF Progress, Ready
  <2>6. Generated'
    BY <1>5, <2>1, <2>2 DEF Generated, Ready, PlanText
  <2>7. FileIs'
    BY <1>5, <2>2 DEF CommandInv, FileIs, OldText
  <2> QED
    BY <2>4, <2>5, <2>6, <2>7 DEF CommandInv
<1>6. ASSUME OpenOutput PROVE CommandInv'
  <2>1. /\ step = "open" /\ step' = "truncate"
        /\ UNCHANGED <<session, parsedFiles, content, written, file, replaced>>
    BY <1>6 DEF OpenOutput
  <2>2. GeneratedPlan' = GeneratedPlan /\ Generable' = Generable /\ command' = command
    BY <2>1, SamePlan
  <2>3. CommandType' /\ Progress'
    BY <1>1, <2>1, <2>2 DEF CommandInv, CommandType, Progress, Writing
  <2>4. Generated'
    BY <2>1, <2>2 DEF CommandInv, Generated, Writing, PlanText
  <2>5. FileIs'
    BY <2>1 DEF CommandInv, Progress, FileIs, OldText
  <2> QED
    BY <2>3, <2>4, <2>5 DEF CommandInv
<1> QED
  BY <1>2, <1>3, <1>4, <1>5, <1>6 DEF CheckInputs, Generate

\* The file is truncated.
LEMMA TruncateInv == ASSUME CommandInv, Disturb, Truncate PROVE CommandInv'
<1>1. /\ step = "truncate" /\ step' = "write" /\ file' = << >> /\ replaced' = TRUE
      /\ UNCHANGED <<session, parsedFiles, content, written>>
  BY DEF Truncate
<1>2. input_' = input_ /\ fromCommand' = fromCommand /\ overlapped' \in BOOLEAN
  BY DEF Disturb, CommandInv, CommandType
<1>3. GeneratedPlan' = GeneratedPlan /\ Generable' = Generable /\ command' = command
  BY <1>1, SamePlan
<1>4. CommandType' /\ Progress'
  BY <1>1, <1>2, <1>3 DEF CommandInv, CommandType, Progress, Writing
<1>5. Generated'
  BY <1>1, <1>3 DEF CommandInv, Generated, Writing, PlanText
<1>6. FileIs'
  <2>1. PlanText(GeneratedPlan)' \in Seq(Cells)
    BY <1>1, <1>3, GeneratedReady, TextIs DEF Writing, PlanText
  <2>2. Len(file') = 0 /\ written' = 0 /\ Len(PlanText(GeneratedPlan)') \in Nat
    BY <1>1, <2>1 DEF CommandInv, FileIs
  <2> QED
    BY <1>1, <2>2 DEF FileIs
<1> QED
  BY <1>4, <1>5, <1>6 DEF CommandInv

\* The text is written up to its n-th cell.
LEMMA WriteInv ==
    ASSUME CommandInv, Disturb, NEW n \in 1 .. Len(content), Write(n)
    PROVE  CommandInv'
<1>1. /\ step = "write" /\ written < n /\ n <= Len(content) /\ written' = n
      /\ UNCHANGED <<session, step, parsedFiles, content, replaced>>
      /\ file' = [c \in 1 .. (IF n > Len(file) THEN n ELSE Len(file)) |->
                    IF c \in written + 1 .. n THEN content[c] ELSE file[c]]
  BY DEF Write
<1>2. input_' = input_ /\ fromCommand' = fromCommand /\ overlapped' \in BOOLEAN
  BY DEF Disturb, CommandInv, CommandType
<1>3. GeneratedPlan' = GeneratedPlan /\ Generable' = Generable /\ command' = command
  BY <1>1, SamePlan
<1>4. PICK text \in Seq(Cells) : text = PlanText(GeneratedPlan) /\ content = text
  BY <1>1, GeneratedReady, TextIs DEF CommandInv, Generated, Writing
<1>5. /\ written = Len(file) /\ replaced /\ file \in Seq(Cells)
      /\ \A c \in 1 .. Len(file) : file[c] \in {Nul, text[c]}
  BY <1>1, <1>4 DEF CommandInv, CommandType, FileIs, Progress
<1>6. /\ Len(file) \in Nat /\ n \in Nat /\ Len(file) < n /\ n <= Len(text)
  BY <1>1, <1>4, <1>5
<1>7. file' = [c \in 1 .. n |-> IF c \in Len(file) + 1 .. n THEN text[c] ELSE file[c]]
  BY <1>1, <1>4, <1>5, <1>6
<1>8. PICK g : g = file'
  OBVIOUS
<1>9. ASSUME NEW c \in 1 .. n
      PROVE  g[c] \in {Nul, text[c]} /\ g[c] \in Cells
  <2>1. text[c] \in Cells
    BY <1>6
  <2>2. CASE c \in Len(file) + 1 .. n
    BY <1>7, <1>8, <2>1, <2>2
  <2>3. CASE c \in 1 .. Len(file)
    <3>1. g[c] = file[c]
      BY <1>6, <1>7, <1>8, <2>3
    <3> QED
      BY <1>5, <2>1, <2>3, <3>1 DEF Cells
  <2> QED
    BY <1>6, <2>2, <2>3
<1>10. g \in [1 .. n -> Cells]
  BY <1>7, <1>8, <1>9
<1>11. g \in Seq(Cells) /\ Len(g) = n
  BY ONLY <1>6, <1>10
<1>12. CommandType' /\ Progress'
  BY <1>1, <1>2, <1>3, <1>6, <1>8, <1>11 DEF CommandInv, CommandType, Progress
<1>13. Generated'
  BY <1>1, <1>3 DEF CommandInv, Generated, PlanText
<1>14. PlanText(GeneratedPlan)' = text
  BY <1>3, <1>4 DEF PlanText
<1>15. FileIs'
  BY <1>1, <1>5, <1>6, <1>8, <1>9, <1>11, <1>14 DEF FileIs
<1> QED
  BY <1>12, <1>13, <1>15 DEF CommandInv

\* The file is closed.
LEMMA CloseInv == ASSUME CommandInv, Disturb, Close PROVE CommandInv'
<1>1. /\ step = "write" /\ step' = "done" /\ content' = << >> /\ written' = 0
      /\ UNCHANGED <<session, parsedFiles, file, replaced>>
  BY DEF Close
<1>2. replaced
  BY <1>1 DEF CommandInv, Progress
<1>3. Stop
  BY <1>1, <1>2 DEF Stop
<1> QED
  BY <1>3, StopInv

\* The host goes down.
LEMMA PowerFailsInv ==
    ASSUME CommandInv, Disturb, NEW n \in 0 .. Len(file), NEW lost \in SUBSET (1 .. n),
           PowerFails(n, lost)
    PROVE  CommandInv'
<1>1. /\ replaced /\ step' = "done" /\ content' = << >> /\ written' = 0
      /\ UNCHANGED <<session, parsedFiles, replaced>>
      /\ file' = [c \in 1 .. n |-> IF c \in lost THEN Nul ELSE file[c]]
  BY DEF PowerFails
<1>2. input_' = input_ /\ fromCommand' = fromCommand /\ overlapped' \in BOOLEAN
  BY DEF Disturb, CommandInv, CommandType
<1>3. GeneratedPlan' = GeneratedPlan /\ Generable' = Generable /\ command' = command
  BY <1>1, SamePlan
<1>4. PICK text \in Seq(Cells) : text = PlanText(GeneratedPlan)
  BY <1>1, GeneratedReady, TextIs
<1>5. /\ file \in Seq(Cells) /\ Len(file) \in Nat /\ n \in Nat /\ n <= Len(file)
      /\ Len(file) <= Len(text) /\ Len(text) \in Nat
      /\ \A c \in 1 .. Len(file) : file[c] \in {Nul, text[c]}
  BY <1>1, <1>4 DEF CommandInv, CommandType, FileIs
<1>6. PICK g : g = file'
  OBVIOUS
<1>7. \A c \in 1 .. n : g[c] \in {Nul, text[c]} /\ g[c] \in Cells
  BY <1>1, <1>5, <1>6 DEF Cells
<1>8. g \in [1 .. n -> Cells]
  BY <1>1, <1>6, <1>7
<1>9. g \in Seq(Cells) /\ Len(g) = n
  BY ONLY <1>5, <1>8
<1>10. CommandType' /\ Progress'
  BY <1>1, <1>2, <1>3, <1>6, <1>9 DEF CommandInv, CommandType, Progress
<1>11. Generated'
  BY <1>1, <1>3 DEF CommandInv, Generated, Writing
<1>12. PlanText(GeneratedPlan)' = text
  BY <1>3, <1>4 DEF PlanText
<1>13. FileIs'
  BY <1>1, <1>5, <1>6, <1>7, <1>9, <1>12 DEF FileIs
<1> QED
  BY <1>10, <1>11, <1>13 DEF CommandInv

\* The host goes down, and what was there before is back.
LEMMA UndoneInv ==
    ASSUME CommandInv, Disturb, TruncationUndone
    PROVE  CommandInv'
<1>1. /\ step' = "done" /\ parsedFiles' = << >> /\ content' = << >> /\ written' = 0
      /\ session' = session /\ replaced' = FALSE /\ file' = OldText
  BY DEF TruncationUndone
<1>2. input_' = input_ /\ fromCommand' = fromCommand /\ overlapped' \in BOOLEAN
  BY DEF Disturb, CommandInv, CommandType
<1>3. session \in Sessions /\ session.old \in Seq(PlanBenchmark)
  BY CommandAssumption DEF CommandInv, CommandType
<1>4. OldText \in Seq(Cells)
  BY <1>3, TextIs DEF OldText
<1>5. CommandType'
  <2>1. parsedFiles' \in Seq(Documents) /\ content' \in Seq(Cells) /\ written' \in Nat
    BY <1>1
  <2>2. file' \in Seq(Cells) /\ input_' \in Seq(Cells) /\ fromCommand' \in BOOLEAN
    BY <1>1, <1>2, <1>4 DEF CommandInv, CommandType
  <2> QED
    BY <1>1, <1>2, <1>3, <2>1, <2>2 DEF CommandType
<1>6. Progress' /\ Generated'
  BY <1>1 DEF Progress, Generated, Writing
<1>7. FileIs'
  <2>1. OldText' = OldText
    BY <1>1 DEF OldText, PlanText
  <2> QED
    BY <1>1, <2>1 DEF FileIs
<1> QED
  BY <1>5, <1>6, <1>7 DEF CommandInv

-----------------------------------------------------------------------------
\* The session begins with the file as it was.
LEMMA InitSessionInv == InitSession => SessionInv
<1> SUFFICES ASSUME InitSession PROVE SessionInv
  OBVIOUS
<1>1. /\ session \in Sessions /\ parsedFiles = << >> /\ content = << >> /\ written = 0
      /\ step = (IF session.command = None THEN "done" ELSE "files")
      /\ file = OldText /\ replaced = FALSE
      /\ plan = << >> /\ pc = "idle" /\ evaluations = << >>
      /\ input_ = << >> /\ fromCommand = FALSE /\ overlapped = FALSE
  BY DEF InitSession, InitCommand, InitRun, NoPlan, OldText
<1>2. file \in Seq(Cells)
  <2>1. session.old \in Seq(PlanBenchmark)
    BY <1>1, CommandAssumption
  <2> QED
    BY <1>1, <2>1, TextIs DEF OldText
<1>3. CommandType
  <2>1. step \in {"done", "files"}
    BY <1>1
  <2>2. parsedFiles \in Seq(Documents) /\ content \in Seq(Cells) /\ input_ \in Seq(Cells)
    BY <1>1
  <2> QED
    BY <1>1, <1>2, <2>1, <2>2 DEF CommandType
<1>4. step \in {"done", "files"} /\ (step # "done" => command # None)
  BY <1>1 DEF command
<1>5. Progress /\ Generated /\ FileIs
  BY <1>1, <1>4 DEF Progress, Generated, FileIs, Writing
<1>6. ReaderIs /\ RunsAWholePlan /\ BlocksKnown
  BY <1>1 DEF ReaderIs, RunsAWholePlan, Undisturbed, NoPlan, BlocksKnown
<1> QED
  BY <1>3, <1>5, <1>6 DEF SessionInv, CommandInv

\* A step of the command, or the host, under a reader or before it.
LEMMA WriterInv ==
    ASSUME Inv, SessionInv, PlanCommandStep \/ HostGoesDown
    PROVE  SessionInv'
<1>1. /\ Disturb /\ pc \in {"idle", "read"}
      /\ HostGoesDown => pc = "idle"
  BY DEF PlanCommandStep, HostGoesDown
<1>2. /\ overlapped' = (overlapped \/ (pc = "read" /\ file' # file))
      /\ pc' = pc /\ plan' = plan /\ evaluations' = evaluations
      /\ input_' = input_ /\ fromCommand' = fromCommand
  BY <1>1 DEF Disturb, vars, input, runVars
<1>3. CommandInv' /\ (pc = "read" /\ replaced => replaced')
      /\ (replaced' /\ ~replaced => file' = << >>)
  <2>1. CASE HostGoesDown
    <3>1. CASE TruncationUndone
      <4>1. CommandInv'
        BY <1>1, <3>1, UndoneInv DEF SessionInv
      <4> QED
        BY <1>1, <2>1, <3>1, <4>1 DEF TruncationUndone
    <3>2. ASSUME NEW n \in 0 .. Len(file), NEW lost \in SUBSET (1 .. n), PowerFails(n, lost)
          PROVE  CommandInv' /\ replaced' = replaced
      <4>1. CommandInv'
        BY <1>1, <3>2, PowerFailsInv DEF SessionInv
      <4> QED
        BY <3>2, <4>1 DEF PowerFails
    <3> QED
      BY <2>1, <3>1, <3>2 DEF HostGoesDown
  <2>2. CASE NextCommand
    <3>1. CASE \/ CheckInputs \/ (\E d \in Documents : ParseDefinition(d))
               \/ Generate \/ OpenOutput
      <4>1. CommandInv'
        BY <1>1, <3>1, BeforeInv DEF SessionInv
      <4>2. replaced' = replaced
        BY <3>1 DEF CheckInputs, ParseDefinition, Generate, OpenOutput, Stop
      <4> QED
        BY <4>1, <4>2
    <3>2. CASE Truncate
      BY <1>1, <3>2, TruncateInv DEF SessionInv, Truncate
    <3>3. CASE \E n \in 1 .. Len(content) : Write(n)
      <4>1. PICK n \in 1 .. Len(content) : Write(n)
        BY <3>3
      <4> QED
        BY <1>1, <4>1, WriteInv DEF SessionInv, Write
    <3>4. CASE Close
      BY <1>1, <3>4, CloseInv DEF SessionInv, Close
    <3>5. CASE FailOrKilled
      BY <1>1, <3>5, StopInv DEF SessionInv, FailOrKilled, Stop
    <3> QED
      BY <2>2, <3>1, <3>2, <3>3, <3>4, <3>5 DEF NextCommand
  <2> QED
    BY <2>1, <2>2 DEF PlanCommandStep
<1>4. ReaderIs'
  <2>1. pc = "idle" => ~overlapped' /\ input_' = << >> /\ ~fromCommand'
    BY <1>2 DEF SessionInv, ReaderIs
  <2>2. fromCommand' => replaced'
    BY <1>1, <1>2, <1>3 DEF SessionInv, ReaderIs
  <2>3. ASSUME pc = "read", ~overlapped'
        PROVE  /\ replaced' => fromCommand' \/ file' = << >>
               /\ Len(input_') <= Len(file')
               /\ \A c \in 1 .. Len(input_') : input_'[c] = file'[c]
    <3>1. ~overlapped /\ file' = file
      BY <1>2, <2>3
    <3> QED
      BY <1>2, <1>3, <2>3, <3>1 DEF SessionInv, ReaderIs
  <2> QED
    BY <1>2, <2>1, <2>2, <2>3 DEF ReaderIs
<1>5. RunsAWholePlan' /\ BlocksKnown'
  <2>1. plan = NoPlan
    BY <1>1 DEF Inv, NothingDone
  <2>2. ~Undisturbed'
    BY <1>2, <2>1 DEF Undisturbed, NoPlan
  <2> QED
    BY <1>2, <2>2 DEF SessionInv, RunsAWholePlan, BlocksKnown
<1> QED
  BY <1>3, <1>4, <1>5 DEF SessionInv

\* A step that leaves the command and the file as they are.
LEMMA CommandUnchanged ==
    ASSUME CommandInv, UNCHANGED commandVars,
           fromCommand' \in BOOLEAN, overlapped' \in BOOLEAN, input_' \in Seq(Cells)
    PROVE  CommandInv' /\ GeneratedPlan' = GeneratedPlan
<1>1. UNCHANGED <<session, step, parsedFiles, content, written, file, replaced>>
  BY DEF commandVars
<1>2. GeneratedPlan' = GeneratedPlan /\ Generable' = Generable /\ command' = command
  BY <1>1, SamePlan
<1>3. CommandType' /\ Progress'
  BY <1>1, <1>2 DEF CommandInv, CommandType, Progress
<1>4. Generated'
  BY <1>1, <1>2 DEF CommandInv, Generated, PlanText
<1>5. FileIs'
  BY <1>1, <1>2 DEF CommandInv, FileIs, OldText, PlanText
<1> QED
  BY <1>2, <1>3, <1>4, <1>5 DEF CommandInv

\* The run opens the file, and reads it cell by cell.
LEMMA OpenAndReadInv ==
    ASSUME Inv, SessionInv, OpenVerified \/ ReadCell
    PROVE  SessionInv'
<1>1. UNCHANGED <<commandVars, plan, evaluations, overlapped>>
  BY DEF OpenVerified, ReadCell, vars, input, runVars
<1>2. pc \in {"idle", "read"} /\ pc' = "read"
  BY DEF OpenVerified, ReadCell, vars
<1>3. UNCHANGED <<session, step, parsedFiles, content, written, file, replaced>>
  BY <1>1 DEF commandVars
<1>4. /\ file \in Seq(Cells) /\ input_ \in Seq(Cells)
      /\ replaced \in BOOLEAN /\ fromCommand \in BOOLEAN /\ overlapped \in BOOLEAN
  BY DEF SessionInv, CommandInv, CommandType
<1>5. CASE OpenVerified
  <2>1. /\ fromCommand' = replaced /\ input_' = << >> /\ pc = "idle" /\ ~overlapped
    BY <1>5 DEF OpenVerified, SessionInv, ReaderIs
  <2>2. CommandInv'
    BY <1>1, <1>4, <2>1, CommandUnchanged DEF SessionInv
  <2>3. ReaderIs'
    BY <1>1, <1>2, <1>3, <1>4, <2>1 DEF ReaderIs
  <2>4. plan = NoPlan
    BY <1>2 DEF Inv, NothingDone
  <2>5. RunsAWholePlan' /\ BlocksKnown'
    BY <1>1, <2>4 DEF SessionInv, RunsAWholePlan, Undisturbed, NoPlan, BlocksKnown
  <2> QED
    BY <2>2, <2>3, <2>5 DEF SessionInv
<1>6. CASE ReadCell
  <2>1. /\ pc = "read" /\ Len(input_) < Len(file) /\ fromCommand' = fromCommand
        /\ input_' = Append(input_, file[Len(input_) + 1])
    BY <1>6 DEF ReadCell
  <2>2. PICK g : g = input_'
    OBVIOUS
  <2>3. /\ g \in Seq(Cells) /\ Len(g) = Len(input_) + 1
        /\ \A c \in 1 .. Len(input_) : g[c] = input_[c]
        /\ g[Len(input_) + 1] = file[Len(input_) + 1]
    BY <1>4, <2>1, <2>2
  <2>4. CommandInv'
    BY <1>1, <1>4, <2>1, <2>2, <2>3, CommandUnchanged DEF SessionInv
  <2>5. ReaderIs'
    <3>1. fromCommand' => replaced'
      BY <1>3, <2>1 DEF SessionInv, ReaderIs
    <3>2. ASSUME ~overlapped
          PROVE  /\ replaced => (fromCommand \/ file = << >>)
                 /\ Len(g) <= Len(file)
                 /\ \A c \in 1 .. Len(g) : g[c] = file[c]
      <4>1. \A c \in 1 .. Len(input_) : input_[c] = file[c]
        BY <2>1, <3>2 DEF SessionInv, ReaderIs
      <4>2. \A c \in 1 .. Len(g) : c \in 1 .. Len(input_) \/ c = Len(input_) + 1
        BY <1>4, <2>3
      <4>3. Len(g) <= Len(file)
        BY <1>4, <2>1, <2>3
      <4>4. replaced => (fromCommand \/ file = << >>)
        BY <2>1, <3>2 DEF SessionInv, ReaderIs
      <4> QED
        BY <2>3, <4>1, <4>2, <4>3, <4>4
    <3> QED
      BY <1>1, <1>2, <1>3, <2>1, <2>2, <3>1, <3>2 DEF ReaderIs
  <2>6. plan = NoPlan
    BY <1>2 DEF Inv, NothingDone
  <2>7. RunsAWholePlan' /\ BlocksKnown'
    BY <1>1, <2>6 DEF SessionInv, RunsAWholePlan, Undisturbed, NoPlan, BlocksKnown
  <2> QED
    BY <2>4, <2>5, <2>7 DEF SessionInv
<1> QED
  BY <1>5, <1>6

\* What was read undisturbed and parses is the whole plan.
LEMMA ParsedPlan ==
    ASSUME SessionInv, pc = "read", ~overlapped, Len(input_) >= Len(file), Parses(input_)
    PROVE  Blocks(input_) = IF fromCommand THEN GeneratedPlan ELSE session.old
<1>1. file \in Seq(Cells) /\ input_ \in Seq(Cells) /\ session \in Sessions
  BY DEF SessionInv, CommandInv, CommandType
<1>2. input_ = file
  <2>1. Len(input_) = Len(file) /\ \A c \in 1 .. Len(input_) : input_[c] = file[c]
    BY <1>1 DEF SessionInv, ReaderIs
  <2> QED
    BY ONLY <1>1, <2>1
<1>3. Len(file) > 1 /\ file # << >>
  BY <1>1, <1>2 DEF Parses
<1>4. CASE replaced
  <2>1. fromCommand
    BY <1>3, <1>4 DEF SessionInv, ReaderIs
  <2>2. GeneratedPlan \in Seq(PlanBenchmark)
    BY <1>4, GeneratedReady DEF SessionInv
  <2>3. /\ Len(file) <= Len(PlanText(GeneratedPlan))
        /\ \A c \in 1 .. Len(file) : file[c] \in {Nul, PlanText(GeneratedPlan)[c]}
    BY <1>4 DEF SessionInv, CommandInv, FileIs
  <2>4. Blocks(file) = GeneratedPlan
    BY <1>1, <1>2, <2>2, <2>3, ParsesWhole
  <2> QED
    BY <1>2, <2>1, <2>4
<1>5. CASE ~replaced
  <2>1. file = PlanText(session.old) /\ ~fromCommand
    BY <1>3, <1>5 DEF SessionInv, CommandInv, FileIs, OldText, ReaderIs
  <2>2. session.old \in Seq(PlanBenchmark)
    BY <1>1, CommandAssumption
  <2> QED
    BY <1>2, <2>1, <2>2, TextIs
<1> QED
  BY <1>4, <1>5 DEF SessionInv, CommandInv, CommandType

\* The run parses what it read, or is refused.
LEMMA ParseInv ==
    ASSUME Inv, SessionInv, ParsePlanFile \/ FailToRead
    PROVE  SessionInv'
<1>1. /\ UNCHANGED <<commandVars, evaluations, fromCommand, overlapped>>
      /\ input_' = << >> /\ pc \in {"idle", "read"} /\ pc' \in {"files", "done"}
  BY DEF ParsePlanFile, FailToRead, Refuse, input, runVars
<1>2. UNCHANGED <<session, step, parsedFiles, content, written, file, replaced>>
  BY <1>1 DEF commandVars
<1>3. fromCommand \in BOOLEAN /\ overlapped \in BOOLEAN
  BY DEF SessionInv, CommandInv, CommandType
<1>4. CommandInv' /\ GeneratedPlan' = GeneratedPlan
  BY <1>1, <1>3, CommandUnchanged DEF SessionInv
<1>5. ReaderIs'
  BY <1>1, <1>2 DEF SessionInv, ReaderIs
<1>6. BlocksKnown'
  <2>1. evaluations = << >>
    BY <1>1 DEF Inv, NothingDone, Early
  <2> QED
    BY <1>1, <2>1 DEF BlocksKnown
<1>7. RunsAWholePlan'
  <2>1. CASE plan' = plan
    <3>1. plan = NoPlan
      BY <1>1 DEF Inv, NothingDone
    <3> QED
      BY <2>1, <3>1 DEF RunsAWholePlan, Undisturbed, NoPlan
  <2>2. CASE ParsePlanFile /\ Parses(input_) /\ plan' = Blocks(input_)
    <3>1. pc = "read" /\ Len(input_) >= Len(file)
      BY <2>2 DEF ParsePlanFile
    <3>2. ~overlapped => plan' = IF fromCommand THEN GeneratedPlan ELSE session.old
      BY <2>2, <3>1, ParsedPlan
    <3> QED
      BY <1>1, <1>2, <1>4, <3>2 DEF RunsAWholePlan, Undisturbed
  <2> QED
    BY <2>1, <2>2 DEF ParsePlanFile, FailToRead, input
<1> QED
  BY <1>4, <1>5, <1>6, <1>7 DEF SessionInv

\* The run keeps its plan, and evaluates rules of its blocks.
LEMMA RunKeeps ==
    ASSUME Inv, RunStep
    PROVE  /\ plan' = plan
           /\ \/ evaluations' = evaluations
              \/ \E e : e.block = b /\ evaluations' = Append(evaluations, e) /\ pc \in InLoop
<1>1. Next
  BY DEF RunStep
<1>2. CASE \E outcome \in Outcomes, formatted \in BOOLEAN : Audit(outcome, formatted)
  <2>1. PICK outcome \in Outcomes, formatted \in BOOLEAN : Audit(outcome, formatted)
    BY <1>2
  <2>2. pc = "audit" /\ plan' = plan /\ Evaluate("audit", FALSE)
    BY <2>1 DEF Audit, input
  <2> QED
    BY <2>2 DEF Evaluate, InLoop, InRule
<1>3. CASE \E outcome \in Outcomes, formatted \in BOOLEAN : Remediate(outcome, formatted)
  <2>1. PICK outcome \in Outcomes, formatted \in BOOLEAN : Remediate(outcome, formatted)
    BY <1>3
  <2>2. /\ pc = "remediate" /\ plan' = plan
        /\ Evaluate(IF procedure.remediate THEN "remediate" ELSE "audit", TRUE)
    BY <2>1 DEF Remediate, input
  <2> QED
    BY <2>2 DEF Evaluate, InLoop, InRule
<1>4. CASE \/ CheckFiles \/ FailToLoad \/ Validate \/ FailToStart \/ Finish \/ FailToFinish
           \/ \E d \in Documents : Load(d)
  BY <1>4 DEF CheckFiles, FailToLoad, Validate, FailToStart, Finish, FailToFinish, Load,
              input, runVars
<1>5. CASE \/ Begin \/ FailOverride \/ SetRuleProcedure \/ Enforce
           \/ \E formatted \in BOOLEAN : Skip(formatted)
  BY <1>5 DEF Begin, FailOverride, SetRuleProcedure, Enforce, Skip, input
<1> QED
  BY <1>1, <1>2, <1>3, <1>4, <1>5 DEF Next

\* A step of the run.
LEMMA RunSessionInv ==
    ASSUME Inv, Inv', SessionInv, RunStep
    PROVE  SessionInv'
<1>1. UNCHANGED <<commandVars, input_, fromCommand, overlapped>> /\ plan # NoPlan
  BY DEF RunStep, sessionVars
<1>2. UNCHANGED <<session, step, parsedFiles, content, written, file, replaced>>
  BY <1>1 DEF commandVars
<1>3. plan' = plan
  BY RunKeeps
<1>4. pc' \notin {"idle", "read"}
  BY <1>1, <1>3 DEF Inv, NothingDone, NoPlan
<1>5. CommandInv' /\ GeneratedPlan' = GeneratedPlan
  BY <1>1, CommandUnchanged DEF SessionInv, CommandInv, CommandType
<1>6. ReaderIs'
  BY <1>1, <1>2, <1>4 DEF SessionInv, ReaderIs
<1>7. RunsAWholePlan'
  BY <1>1, <1>2, <1>3, <1>5 DEF SessionInv, RunsAWholePlan, Undisturbed, NoPlan
<1>8. BlocksKnown'
  <2>1. CASE evaluations' = evaluations
    BY <1>3, <2>1 DEF SessionInv, BlocksKnown
  <2>2. CASE \E e : e.block = b /\ evaluations' = Append(evaluations, e) /\ pc \in InLoop
    <3>1. PICK e : e.block = b /\ evaluations' = Append(evaluations, e) /\ pc \in InLoop
      BY <2>2
    <3>2. b \in DOMAIN plan
      BY <3>1 DEF Inv, TypeOK, Position
    <3>3. PICK q, r : q = evaluations /\ r = evaluations'
      OBVIOUS
    <3>4. q \in Seq(Evaluation) /\ r = Append(q, e)
      BY <3>1, <3>3 DEF Inv, TypeOK
    <3>5. DOMAIN r = 1 .. Len(q) + 1 /\ \A n \in DOMAIN r : (n \in DOMAIN q /\ r[n] = q[n]) \/ r[n] = e
      BY ONLY <3>4
    <3> QED
      BY <1>3, <3>1, <3>2, <3>3, <3>5 DEF SessionInv, BlocksKnown
  <2> QED
    BY <2>1, <2>2, RunKeeps
<1> QED
  BY <1>5, <1>6, <1>7, <1>8 DEF SessionInv

\* The invariant of the session holds at every step.
THEOREM SessionInvariance == SpecSession => []SessionInv
<1>1. InitSession => SessionInv
  BY InitSessionInv
<1>2. Inv /\ Inv' /\ SessionInv /\ [NextSession]_allVars => SessionInv'
  <2> SUFFICES ASSUME Inv, Inv', SessionInv, [NextSession]_allVars PROVE SessionInv'
    OBVIOUS
  <2>1. CASE PlanCommandStep \/ HostGoesDown
    BY <2>1, WriterInv
  <2>2. CASE OpenVerified \/ ReadCell
    BY <2>2, OpenAndReadInv
  <2>3. CASE ParsePlanFile \/ FailToRead
    BY <2>3, ParseInv
  <2>4. CASE RunStep
    BY <2>4, RunSessionInv
  <2>5. CASE UNCHANGED allVars
    <3>1. /\ UNCHANGED <<commandVars, input_, fromCommand, overlapped>>
          /\ UNCHANGED <<session, step, parsedFiles, content, written, file, replaced>>
          /\ UNCHANGED <<plan, pc, evaluations>>
      BY <2>5 DEF allVars, vars, input, runVars, sessionVars, commandVars
    <3>2. CommandInv' /\ GeneratedPlan' = GeneratedPlan
      BY <3>1, CommandUnchanged DEF SessionInv, CommandInv, CommandType
    <3>3. ReaderIs' /\ BlocksKnown'
      BY <3>1 DEF SessionInv, ReaderIs, BlocksKnown
    <3>4. RunsAWholePlan'
      BY <3>1, <3>2 DEF SessionInv, RunsAWholePlan, Undisturbed, NoPlan
    <3> QED
      BY <3>2, <3>3, <3>4 DEF SessionInv
  <2> QED
    BY <2>1, <2>2, <2>3, <2>4, <2>5 DEF NextSession
<1> QED
  BY <1>1, <1>2, Invariance, PTL DEF SpecSession

\* A run that nobody disturbs acts on a whole plan: the one there was or the generated one.
THEOREM RunsAWholePlanCorrect == SpecSession => []RunsAWholePlan
<1>1. SessionInv => RunsAWholePlan
  BY DEF SessionInv
<1> QED
  BY <1>1, SessionInvariance, PTL

\* What a run of a generated plan has.
LEMMA FromCommand ==
    ASSUME SessionInv, Undisturbed, fromCommand
    PROVE  /\ Ready /\ Generable /\ HasRules(GeneratedRules)
           /\ plan = GeneratedPlan /\ DOMAIN plan = DOMAIN command.files
           /\ \A n \in DOMAIN plan : plan[n].rules = GeneratedRules[n]
<1>1. replaced /\ plan = GeneratedPlan
  BY DEF SessionInv, ReaderIs, RunsAWholePlan
<1>2. Ready /\ Generable
  BY <1>1, GeneratedReady DEF SessionInv, CommandInv, Generated
<1>3. HasRules(GeneratedRules)
  BY <1>2, GeneratedType
<1>4. DOMAIN plan = DOMAIN command.files /\ \A n \in DOMAIN plan : plan[n].rules = GeneratedRules[n]
  BY <1>1 DEF GeneratedPlan
<1> QED
  BY <1>1, <1>2, <1>3, <1>4

\* What a run changes is what the last flags of the command line say, with their values
\* or the defaults.
THEOREM ChangesOnlyWhatWasAskedCorrect == SpecSession => []ChangesOnlyWhatWasAsked
<1>1. Inv /\ SessionInv => ChangesOnlyWhatWasAsked
  <2> SUFFICES ASSUME Inv, SessionInv, Undisturbed, fromCommand,
                      NEW n \in DOMAIN evaluations
               PROVE  LET e == evaluations[n]
                      IN  /\ e.id \in RuleIds(e.block)
                          /\ e.remediates <=> PromisedMode(e.block, e.id) = "remediate"
                          /\ \A k \in DOMAIN Metadata(e.block, e.id) :
                                e.parameters[k] = PromisedValue(e.block, e.id, k)
    BY DEF ChangesOnlyWhatWasAsked
  <2>1. PICK e : e = evaluations[n]
    OBVIOUS
  <2>2. e \in Evaluation /\ e.block \in DOMAIN plan
    BY <2>1 DEF Inv, TypeOK, SessionInv, BlocksKnown
  <2>3. PICK asked : asked = plan[e.block].rules
    OBVIOUS
  <2>4. /\ e.id \in DOMAIN asked
        /\ asked[e.id].mode = (IF e.remediates THEN "remediate" ELSE "audit")
        /\ \E m \in DOMAIN documents[e.block].resources :
            e.parameters =
                Overridden(documents[e.block].resources[m].procedure,
                           asked[e.id].parameters).parameters
    BY <2>1, <2>3 DEF Inv, EvaluatesThePlan
  <2>5. /\ Ready /\ Generable /\ HasRules(GeneratedRules)
        /\ e.block \in DOMAIN command.files /\ asked = GeneratedRules[e.block]
    BY <2>2, <2>3, FromCommand
  <2>6. e.id \in RuleIds(e.block)
    BY <2>4, <2>5 DEF HasRules
  <2>7. DOMAIN asked[e.id].parameters = DOMAIN Metadata(e.block, e.id)
    BY <2>5, <2>6 DEF HasRules
  <2>8. \A k : /\ asked[e.id].mode = PromisedMode(e.block, e.id)
               /\ k \in DOMAIN Metadata(e.block, e.id) =>
                    asked[e.id].parameters[k] = PromisedValue(e.block, e.id, k)
    BY <2>5, <2>6, OverridesCorrect DEF Generable
  <2>9. e.remediates <=> PromisedMode(e.block, e.id) = "remediate"
    BY <2>2, <2>4, <2>8 DEF Evaluation
  <2>10. \A k \in DOMAIN asked[e.id].parameters : e.parameters[k] = asked[e.id].parameters[k]
    <3>1. PICK m \in DOMAIN documents[e.block].resources :
            e.parameters =
                Overridden(documents[e.block].resources[m].procedure,
                           asked[e.id].parameters).parameters
      BY <2>4
    <3>2. documents[e.block].resources[m].procedure \in ProcedurePayload
      <4>1. e.block \in DOMAIN documents
        BY <2>2 DEF Inv, TypeOK, Validated
      <4>2. documents[e.block].resources[m] \in ResourceType
        BY <4>1, DocumentType DEF Inv
      <4>3. Procedures \subseteq ProcedurePayload
        BY EngineAssumption
      <4> QED
        BY <4>2, <4>3 DEF ResourceType
    <3>3. PICK p, q : /\ p = documents[e.block].resources[m].procedure
                      /\ q = asked[e.id].parameters
      OBVIOUS
    <3>4. e.parameters = [k \in DOMAIN p.parameters \cup DOMAIN q |->
                            IF k \in DOMAIN q THEN q[k] ELSE p.parameters[k]]
      BY <3>1, <3>2, <3>3 DEF Overridden, ProcedurePayload
    <3> QED
      BY <3>3, <3>4
  <2> QED
    BY <2>1, <2>6, <2>7, <2>8, <2>9, <2>10
<1> QED
  BY <1>1, Invariance, SessionInvariance, PTL

\* A generated plan is valid for the definitions it was made from.
THEOREM AcceptedIfUnchangedCorrect == SpecSession => []AcceptedIfUnchanged
<1>1. SessionInv => AcceptedIfUnchanged
  <2> SUFFICES ASSUME SessionInv, Undisturbed, fromCommand, documents = parsedFiles,
                      \A n \in DOMAIN documents : documents[n].applicable,
                      NEW n \in DOMAIN plan
               PROVE  ValidBlock(plan[n], documents[n])
    BY DEF AcceptedIfUnchanged, ValidPlan
  <2>1. /\ Ready /\ Generable /\ HasRules(GeneratedRules) /\ plan = GeneratedPlan
        /\ n \in DOMAIN command.files /\ plan[n].rules = GeneratedRules[n]
    BY FromCommand
  <2>2. n \in DOMAIN documents /\ documents[n] \in Documents /\ documents[n].applicable
    BY <2>1, ReadyType DEF Ready
  <2>3. Satisfies(documents[n].version, plan[n])
    <3>1. PICK v \in Version : v = documents[n].version
      BY <2>2, PlanAssumption DEF IsDocument
    <3>2. plan[n].version = v /\ plan[n].constraint = "^"
      BY <2>1, <3>1 DEF GeneratedPlan
    <3>3. AtLeast(v, v)
      BY DEF AtLeast, Version
    <3> QED
      BY <3>1, <3>2, <3>3 DEF Satisfies
  <2>4. ASSUME NEW id \in DOMAIN plan[n].rules
        PROVE  \E m \in DOMAIN documents[n].resources :
                /\ documents[n].resources[m].id = id
                /\ ValidParameters(documents[n].resources[m].metadata,
                                   plan[n].rules[id].parameters)
    <3>1. id \in RuleIds(n)
      BY <2>1 DEF HasRules
    <3>2. PICK m \in DOMAIN documents[n].resources : documents[n].resources[m].id = id
      BY <3>1 DEF RuleIds
    <3>3. documents[n].resources[m].metadata = Metadata(n, id)
      BY <2>1, <3>1, <3>2, MetadataType
    <3>4. ValidParameters(Metadata(n, id), GeneratedRules[n][id].parameters)
      BY <2>1, <2>2, <3>1 DEF Generable
    <3> QED
      BY <2>1, <3>2, <3>3, <3>4
  <2> QED
    BY <2>2, <2>3, <2>4 DEF ValidBlock
<1> QED
  BY <1>1, SessionInvariance, PTL
=============================================================================
