----------------------------- MODULE KompliRun ------------------------------
(***************************************************************************)
(* `kompli run` (kompli/Main.cpp, with the plan checks of kompli/Plan.cpp):*)
(* a plan names benchmark definition files and, for some of their rules, a *)
(* mode and parameter values.  The files may have changed since the plan   *)
(* was generated: what is on disk when run loads them is any document.     *)
(* Every block is loaded and validated, then every rule of every document  *)
(* is skipped, audited, remediated or refused, against one engine, and the *)
(* result is printed.                                                      *)
(***************************************************************************)
EXTENDS Plan, FiniteSets

CONSTANT
    Unknown         \* no procedure, status or exit code yet

ASSUME RunAssumption ==
    Unknown \notin ProcedurePayload /\ Unknown \notin {0, 1, "Compliant", "NonCompliant", "NotApplicable"}

VARIABLES
    plan, continueOnError,      \* the input of the run
    pc,
    documents,                  \* the definitions loaded so far
    b, i,                       \* the block and the rule that are next
    procedure,                  \* of the rule, with the plan's parameters
    status, hasError, evaluatedRules,
    rules,                      \* the rules array of the formatter
    exit,                       \* what main returned
    overall,                    \* the status it printed
    evaluations                 \* history: what the engine evaluated, in order

input == <<plan, continueOnError>>
runVars == <<b, i, procedure, status, hasError, evaluatedRules, rules, evaluations,
             mDatabase>>
vars == <<input, pc, documents, runVars, exit, overall>>

Statuses == {"Compliant", "NonCompliant", "NotApplicable"}

RuleResult == [id : Ids, status : Statuses \cup {"Skipped"},
               action : {"Audit", "Remediation", "none"}]

Evaluation == [block : Nat, id : Ids, object : {"audit", "remediate"},
               payload : ProcedurePayload, parameters : ProcedureParameters,
               remediates : BOOLEAN]

Steps == {"idle", "read", "files", "load", "validate", "rule", "procedure", "audit",
          "remediate", "enforce", "finish", "done"}

TypeOK ==
    /\ plan \in Seq(PlanBenchmark) /\ continueOnError \in BOOLEAN
    /\ pc \in Steps
    /\ documents \in Seq(Documents) /\ Len(documents) <= Len(plan)
    /\ b \in 1 .. Len(plan) + 1 /\ i \in Nat \ {0}
    /\ procedure \in ProcedurePayload \cup {Unknown}
    /\ status \in Statuses /\ hasError \in BOOLEAN
    /\ evaluatedRules \in Nat
    /\ rules \in Seq(RuleResult)
    /\ exit \in {0, 1, Unknown}
    /\ overall \in Statuses \cup {Unknown}
    /\ evaluations \in Seq(Evaluation)
    /\ DatabaseType

InitRun ==
    /\ continueOnError \in BOOLEAN
    /\ documents = << >>
    /\ b = 1 /\ i = 1 /\ procedure = Unknown
    /\ status = "Compliant" /\ hasError = FALSE /\ evaluatedRules = 0
    /\ rules = << >> /\ evaluations = << >>
    /\ exit = Unknown /\ overall = Unknown
    /\ mDatabase = [r \in Rules |-> NoProcedure]

-----------------------------------------------------------------------------
\* main returns 1 and prints no result.
Refuse == pc' = "done" /\ exit' = 1 /\ UNCHANGED overall

CheckFiles ==
    /\ pc = "files"
    /\ IF UniqueFiles([n \in DOMAIN plan |-> plan[n].file])
       THEN pc' = "load" /\ UNCHANGED <<exit, overall>>
       ELSE Refuse
    /\ UNCHANGED <<input, documents, runVars>>

\* A file that cannot be read or parsed, or repeats an earlier identity.
FailToLoad ==
    /\ pc = "load"
    /\ Refuse
    /\ UNCHANGED <<input, documents, runVars>>

(***************************************************************************)
(* The next file is read once; a document of an identity that was not seen *)
(* before is kept for the rest of the run.  CheckUniqueBenchmarkIdentities *)
(* refuses the others, which is FailToLoad.                                *)
(***************************************************************************)
Load(d) ==
    /\ pc = "load"
    /\ \A n \in DOMAIN documents : documents[n].identity # d.identity
    /\ documents' = Append(documents, d)
    /\ pc' = IF Len(documents') = Len(plan) THEN "validate" ELSE "load"
    /\ UNCHANGED <<input, runVars, exit, overall>>

-----------------------------------------------------------------------------
(***************************************************************************)
(* ValidatePlanForRun.                                                     *)
(***************************************************************************)
\* Mutant: a block is only looked at when its turn comes.
ValidateFirstBlock == ValidBlock(plan[1], documents[1])

ValidPlan == \A n \in DOMAIN plan : ValidBlock(plan[n], documents[n])

\* No log file, CLI context or distribution, a plan that does not hold, or no
\* formatter: the run is refused.
Validate ==
    /\ pc = "validate"
    /\ IF ValidPlan THEN pc' = "rule" /\ UNCHANGED <<exit, overall>> ELSE Refuse
    /\ UNCHANGED <<input, documents, runVars>>

FailToStart ==
    /\ pc = "validate"
    /\ Refuse
    /\ UNCHANGED <<input, documents, runVars>>

-----------------------------------------------------------------------------
(***************************************************************************)
(* The loop over the blocks of the plan and the rules of their documents.  *)
(***************************************************************************)
entry == documents[b].resources[i]
planned == plan[b].rules[entry.id]

NextRule ==
    IF i < Len(documents[b].resources)
    THEN i' = i + 1 /\ UNCHANGED b /\ pc' = "rule"
    ELSE i' = 1 /\ b' = b + 1 /\ pc' = IF b < Len(plan) THEN "rule" ELSE "finish"

\* A rule that fails ends the run, or is passed over with --continue-on-error.
Fail ==
    IF continueOnError
    THEN hasError' = TRUE /\ NextRule /\ UNCHANGED <<exit, overall>>
    ELSE Refuse /\ UNCHANGED <<hasError, b, i>>

\* The result of the rule is appended, and the next one is taken.
AddEntry(s, action) ==
    /\ rules' = Append(rules, [id |-> entry.id, status |-> s, action |-> action])
    /\ NextRule
    /\ UNCHANGED <<hasError, exit, overall>>

\* Mutant: a rule that is not in the plan leaves no entry.
SkipSilently(formatted) ==
    /\ pc = "rule"
    /\ entry.id \notin DOMAIN plan[b].rules
    /\ NextRule
    /\ UNCHANGED <<input, documents, procedure, status, hasError, evaluatedRules, rules,
                   evaluations, exit, overall, mDatabase>>

\* A rule that is not in the plan.
Skip(formatted) ==
    /\ pc = "rule"
    /\ entry.id \notin DOMAIN plan[b].rules
    /\ IF formatted THEN AddEntry("Skipped", "none") ELSE Fail /\ UNCHANGED rules
    /\ UNCHANGED <<input, documents, procedure, status, evaluatedRules, evaluations,
                   mDatabase>>

(***************************************************************************)
(* ApplyParameterOverrides: the plan's parameters are added to those of    *)
(* the definition, or replace them.                                        *)
(***************************************************************************)
Overridden(p, parameters) ==
    [p EXCEPT !.parameters =
        [k \in DOMAIN p.parameters \cup DOMAIN parameters |->
            IF k \in DOMAIN parameters THEN parameters[k] ELSE p.parameters[k]]]

Begin ==
    /\ pc = "rule"
    /\ entry.id \in DOMAIN plan[b].rules
    /\ procedure' = Overridden(entry.procedure, planned.parameters)
    /\ evaluatedRules' = IF planned.mode # "enforce" THEN evaluatedRules + 1
                                                     ELSE evaluatedRules
    /\ pc' = "procedure"
    /\ UNCHANGED <<input, documents, b, i, status, hasError, rules, evaluations, exit,
                   overall, mDatabase>>

FailOverride ==
    /\ pc = "rule"
    /\ entry.id \in DOMAIN plan[b].rules
    /\ DOMAIN planned.parameters # {}
    /\ Fail
    /\ UNCHANGED <<input, documents, procedure, status, evaluatedRules, rules, evaluations,
                   mDatabase>>

\* MmiSet("procedure..."), whatever the mode.
SetRuleProcedure ==
    /\ pc = "procedure"
    /\ SetProcedure(entry.ruleName, procedure)
    /\ IF procedure.valid
       THEN pc' = planned.mode /\ UNCHANGED <<b, i, hasError, exit, overall>>
       ELSE Fail
    /\ UNCHANGED <<input, documents, procedure, status, evaluatedRules, rules, evaluations>>

-----------------------------------------------------------------------------
\* The payload "{}" of init and remediate.
EmptyPayload == [parsed |-> TRUE, parameters |-> [k \in {} |-> Unknown]]

\* The engine evaluates an object of what is set for the rule's name.
Evaluate(object, remediates) ==
    evaluations' = Append(evaluations,
        [block |-> b, id |-> entry.id, object |-> object,
         payload |-> mDatabase[entry.ruleName].payload,
         parameters |-> mDatabase'[entry.ruleName].parameters,
         remediates |-> remediates])

\* Mutant: NotApplicable decides before NonCompliant.
CombineNotApplicableFirst(s, t) ==
    CASE "NotApplicable" \in {s, t} -> "NotApplicable"
      [] "NotApplicable" \notin {s, t} /\ "NonCompliant" \in {s, t} -> "NonCompliant"
      [] OTHER -> "Compliant"

CombineAllOf(s, t) ==
    CASE "NonCompliant" \in {s, t} -> "NonCompliant"
      [] "NonCompliant" \notin {s, t} /\ "NotApplicable" \in {s, t} -> "NotApplicable"
      [] OTHER -> "Compliant"

\* An error, or a result that cannot be formatted, is a failed rule.
Conclude(outcome, formatted, action) ==
    IF outcome \in Statuses /\ formatted
    THEN AddEntry(outcome, action) /\ status' = CombineAllOf(status, outcome)
    ELSE Fail /\ UNCHANGED <<rules, status>>

\* MmiSet("init...", "{}") and MmiGet("audit...").
Audit(outcome, formatted) ==
    /\ pc = "audit"
    /\ InitAudit(entry.ruleName, EmptyPayload)
    /\ Evaluate("audit", FALSE)
    /\ Conclude(outcome, formatted, "Audit")
    /\ UNCHANGED <<input, documents, procedure, evaluatedRules>>

\* MmiSet("remediate...", "{}").
Remediate(outcome, formatted) ==
    /\ pc = "remediate"
    /\ ExecuteRemediation(entry.ruleName, EmptyPayload)
    /\ Evaluate(IF procedure.remediate THEN "remediate" ELSE "audit", TRUE)
    /\ Conclude(outcome, formatted, "Remediation")
    /\ UNCHANGED <<input, documents, procedure, evaluatedRules>>

\* Not implemented: the rule fails.
Enforce ==
    /\ pc = "enforce"
    /\ Fail
    /\ UNCHANGED <<input, documents, procedure, status, evaluatedRules, rules, evaluations,
                   mDatabase>>

(***************************************************************************)
(* The result is printed, and the exit code tells whether a rule failed.   *)
(***************************************************************************)
Finish ==
    /\ pc = "finish"
    /\ pc' = "done"
    /\ overall' = IF evaluatedRules = 0 THEN "NotApplicable" ELSE status
    /\ exit' = IF hasError THEN 1 ELSE 0
    /\ UNCHANGED <<input, documents, runVars>>

FailToFinish ==
    /\ pc = "finish"
    /\ Refuse
    /\ UNCHANGED <<input, documents, runVars>>

-----------------------------------------------------------------------------
Next ==
    \/ CheckFiles
    \/ \E d \in Documents : Load(d)
    \/ FailToLoad
    \/ Validate \/ FailToStart
    \/ \E formatted \in BOOLEAN : Skip(formatted)
    \/ Begin \/ FailOverride \/ SetRuleProcedure
    \/ \E outcome \in Outcomes, formatted \in BOOLEAN : Audit(outcome, formatted)
    \/ \E outcome \in Outcomes, formatted \in BOOLEAN : Remediate(outcome, formatted)
    \/ Enforce
    \/ Finish \/ FailToFinish

-----------------------------------------------------------------------------
(***************************************************************************)
(* Nothing is evaluated, so nothing on the host is changed, before every   *)
(* block of the plan was loaded and validated against the very documents   *)
(* whose rules then run: a plan that is wrong in its last block does not   *)
(* leave the host half remediated (Main.cpp:304-420).                      *)
(***************************************************************************)
ValidatedBeforeTouched ==
    evaluations # << >> =>
        /\ Len(documents) = Len(plan)
        /\ \A n \in DOMAIN plan : ValidBlock(plan[n], documents[n])
        /\ \A m, n \in DOMAIN documents :
            documents[m].identity = documents[n].identity => m = n

(***************************************************************************)
(* What the engine evaluates is what the plan asked for: only rules the    *)
(* plan names, as a remediation only where its mode is remediate, and      *)
(* always the rule's own procedure with the plan's parameter values, even  *)
(* when rules of several documents share an engine rule name.              *)
(***************************************************************************)
EvaluatesThePlan ==
    \A n \in DOMAIN evaluations :
        LET e == evaluations[n]
            asked == plan[e.block].rules
        IN  /\ e.id \in DOMAIN asked
            /\ asked[e.id].mode = (IF e.remediates THEN "remediate" ELSE "audit")
            /\ \E m \in DOMAIN documents[e.block].resources :
                LET r == documents[e.block].resources[m]
                    p == Overridden(r.procedure, asked[e.id].parameters)
                IN  /\ r.id = e.id
                    /\ e.payload = p
                    /\ e.parameters = p.parameters

(***************************************************************************)
(* A run that exits 0 reports every rule of every document once and in     *)
(* document order, and as Skipped exactly those the plan does not name:    *)
(* "One entry per benchmark rule, in document order; plan-absent rules are *)
(* Skipped" (kompli-result.schema.json:50).                                *)
(***************************************************************************)
\* The rules of the documents, and those before the m-th of the n-th document.
Positions == UNION {{n} \X DOMAIN documents[n].resources : n \in DOMAIN documents}

Before(n, m) == {p \in Positions : p[1] < n \/ (p[1] = n /\ p[2] < m)}

\* The entry of a rule, by its place in the documents.
EntryOf(n, m) == rules[Cardinality(Before(n, m)) + 1]

CompleteResult ==
    exit = 0 =>
        /\ Len(rules) = Cardinality(Positions)
        /\ \A n \in DOMAIN documents : \A m \in DOMAIN documents[n].resources :
            LET id == documents[n].resources[m].id
            IN  /\ EntryOf(n, m).id = id
                /\ EntryOf(n, m).status = "Skipped" <=> id \notin DOMAIN plan[n].rules

(***************************************************************************)
(* The overall status is the one kompli-result.schema.json:46 defines over *)
(* the rules that were evaluated, though it is accumulated rule by rule    *)
(* from a Compliant seed, and rules may fail in between.                   *)
(***************************************************************************)
ReportedStatuses == {rules[n].status : n \in DOMAIN rules} \ {"Skipped"}

OverallStatus ==
    overall # Unknown =>
        /\ "NonCompliant" \in ReportedStatuses => overall = "NonCompliant"
        /\ "NonCompliant" \notin ReportedStatuses /\ "NotApplicable" \in ReportedStatuses
                => overall = "NotApplicable"
        /\ ReportedStatuses = {"Compliant"} => overall = "Compliant"
        /\ ReportedStatuses = {} /\ exit = 0 => overall = "NotApplicable"
=============================================================================
