----------------------------- MODULE NrpAdapter -----------------------------
(***************************************************************************)
(* The native resource provider of Machine Configuration                   *)
(* (adapters/mc/OsConfigResource.c over adapters/mc/complianceengine/      *)
(* Baseline.c): the Get, Test and Set handlers, called one at a time, for  *)
(* one resource instance after another, in one process.  The handlers      *)
(* share a single engine and keep what they read in static variables; the  *)
(* variables here are those whose value outlives a call.                   *)
(*                                                                         *)
(* A handler is cut at each call it makes to the engine or to the platform *)
(* service it falls back to.                                               *)
(***************************************************************************)
EXTENDS Engine

CONSTANTS
    Resources,      \* the resource instances of the configuration
    Absent,         \* a property the instance does not have
    NameOnly,       \* ProcedureObjectName without ProcedureObjectValue
    FailValue,      \* the initial desired value, "FAIL"
    NoReport,       \* g_reportedObjectValue is NULL
    Nothing,        \* no call yet, or nothing evaluated in the call
    Platform        \* evaluated by the platform service

(***************************************************************************)
(* A resource instance.  All its object names are made from one rule name. *)
(***************************************************************************)
ResourceType ==
    [rule : Rules,
     complete : BOOLEAN,        \* RuleId, PayloadKey and ComponentName are there
     component : BOOLEAN,       \* ComponentName is "ComplianceEngine"
     applicable : BOOLEAN,      \* PayloadKey names this distribution
     procedure : Procedures \cup {Absent, NameOnly},
     init : BOOLEAN, reported : BOOLEAN, desired : BOOLEAN,   \* ...ObjectName
     value : UserValues \cup {Absent},                        \* DesiredObjectValue
     expected : Reports \cup {Absent}]                        \* ExpectedObjectValue

\* What the engine evaluated: which object, of which payload, and with what.
Evaluation ==
    [object : {"audit", "remediate"}, payload : ProcedurePayload,
     parameters : ProcedureParameters, outcome : Outcomes]

ASSUME NrpAssumption ==
    /\ Resources \subseteq ResourceType
    /\ FailValue \in UserPayload /\ ~FailValue.parsed
    /\ Absent \notin Procedures /\ Absent \notin UserValues /\ Absent \notin Reports
    /\ NameOnly \notin Procedures \cup {Absent}
    /\ NoReport \notin Reports
    /\ Platform # Nothing /\ {Platform, Nothing} \cap Evaluation = {}

VARIABLES
    engine,                 \* gComplianceEngine is not NULL
    g_mpiHandle,            \* a session with the platform service is open
    g_desiredObjectValue, g_expectedObjectValue,
    g_reportedObjectValue, g_reportedMpiResult,
    pc, op, in,             \* the handler that runs, and its input
    ran,                    \* history: the evaluation of this call
    answer                  \* what the last call posted

globals == <<g_desiredObjectValue, g_expectedObjectValue, g_reportedObjectValue>>
vars == <<mDatabase, engine, g_mpiHandle, globals, g_reportedMpiResult,
          pc, op, in, ran, answer>>

Steps == {"idle", "procedure", "names", "distribution", "init", "audit",
          "platform", "compare", "remediate"}

Answers == {"none", "compliant", "incompliant", "ok", "unsupported", "failed"}

TypeOK ==
    /\ DatabaseType
    /\ engine \in BOOLEAN /\ g_mpiHandle \in BOOLEAN
    /\ g_desiredObjectValue \in UserValues \cup {FailValue}
    /\ g_expectedObjectValue \in Reports
    /\ g_reportedObjectValue \in Reports \cup {NoReport}
    /\ g_reportedMpiResult \in {"ok", "error"}
    /\ pc \in Steps /\ op \in {"Get", "Test", "Set", "none"}
    /\ in \in Resources \cup {Nothing}
    /\ ran \in Evaluation \cup {Nothing, Platform}
    /\ answer \in Answers

-----------------------------------------------------------------------------
(***************************************************************************)
(* The library constructor: fresh statics and, when the distribution can   *)
(* be identified, an engine with an empty database.                        *)
(***************************************************************************)
Init ==
    /\ mDatabase = [r \in Rules |-> NoProcedure]
    /\ engine \in BOOLEAN
    /\ g_mpiHandle = FALSE
    /\ g_desiredObjectValue = FailValue
    /\ g_expectedObjectValue = "PASS"
    /\ g_reportedObjectValue = NoReport
    /\ g_reportedMpiResult = "ok"
    /\ pc = "idle" /\ op = "none" /\ in = Nothing
    /\ ran = Nothing /\ answer = "none"

\* Destroy, then Initialize, between two calls.
Reload ==
    /\ pc = "idle"
    /\ mDatabase' = [r \in Rules |-> NoProcedure]
    /\ engine' \in BOOLEAN
    /\ g_mpiHandle' = FALSE
    /\ g_desiredObjectValue' = FailValue
    /\ g_expectedObjectValue' = "PASS"
    /\ g_reportedObjectValue' = NoReport
    /\ g_reportedMpiResult' = "ok"
    /\ op' = "none" /\ in' = Nothing /\ ran' = Nothing /\ answer' = "none"
    /\ UNCHANGED pc

-----------------------------------------------------------------------------
Goto(step) == pc' = step /\ UNCHANGED <<op, in, answer>>

Return(a) == pc' = "idle" /\ answer' = a /\ UNCHANGED <<op, in>>

\* The value of DesiredObjectValue is kept when the input has one.
ReadDesiredObjectValue(i) ==
    g_desiredObjectValue' = IF i.value # Absent THEN i.value ELSE g_desiredObjectValue

\* The input properties without which a handler does nothing.
Required(o, i) ==
    /\ i.complete
    /\ o = "Test" => i.reported
    /\ o = "Set" => i.desired /\ i.value # Absent

(***************************************************************************)
(* A call.  Test and Set read the desired value before they set the        *)
(* procedure; Get sets the procedure first.                                *)
(***************************************************************************)
Call(o, i) ==
    /\ pc = "idle"
    /\ op' = o /\ in' = i /\ ran' = Nothing
    /\ IF Required(o, i)
       THEN /\ pc' = "procedure" /\ answer' = "none"
            /\ IF o = "Get" THEN UNCHANGED g_desiredObjectValue
                            ELSE ReadDesiredObjectValue(i)
            /\ UNCHANGED g_reportedMpiResult
       ELSE /\ pc' = "idle" /\ answer' = "failed"
            /\ g_reportedMpiResult' = IF o = "Set" THEN "error" ELSE g_reportedMpiResult
            /\ UNCHANGED g_desiredObjectValue
    /\ UNCHANGED <<mDatabase, engine, g_mpiHandle, g_expectedObjectValue,
                   g_reportedObjectValue>>

-----------------------------------------------------------------------------
(***************************************************************************)
(* The engine answers calls for its own component in a session.            *)
(***************************************************************************)
EngineAnswers == engine /\ in.component

(***************************************************************************)
(* The platform service: RefreshMpiClientSession may open a session when   *)
(* there is none, and a call through it may succeed.                       *)
(***************************************************************************)
CallMpi(succeeds) ==
    /\ g_mpiHandle' \in {g_mpiHandle, TRUE}
    /\ succeeds => g_mpiHandle'

\* SetDesiredObjectValueToDevice keeps the result only when it is a failure.
KeepMpiFailure(succeeds) ==
    g_reportedMpiResult' = IF succeeds THEN g_reportedMpiResult ELSE "error"

\* A Set of the engine that is not answered MMI_OK is tried on the platform.
SetOnPlatform ==
    /\ \E succeeds \in BOOLEAN : CallMpi(succeeds) /\ KeepMpiFailure(succeeds)
    /\ UNCHANGED mDatabase

SetOnEngine(operation) ==
    /\ operation
    /\ UNCHANGED <<g_mpiHandle, g_reportedMpiResult>>

AfterProcedure == IF op = "Get" THEN "names" ELSE "distribution"

\* SetDesiredObjectValueToDevice(procedure name, procedure value).
ApplyProcedure ==
    /\ pc = "procedure"
    /\ in.procedure \notin {Absent, NameOnly}
    /\ IF EngineAnswers THEN SetOnEngine(SetProcedure(in.rule, in.procedure))
                        ELSE SetOnPlatform
    /\ Goto(AfterProcedure)
    /\ UNCHANGED <<engine, globals, ran>>

NoProcedureObject ==
    /\ pc = "procedure"
    /\ in.procedure = Absent
    /\ Goto(AfterProcedure)
    /\ UNCHANGED <<mDatabase, engine, g_mpiHandle, globals, g_reportedMpiResult, ran>>

\* "Cannot have a procedure object name without a procedure object value".
NoProcedureObjectValue ==
    /\ pc = "procedure"
    /\ in.procedure = NameOnly
    /\ g_reportedMpiResult' = IF op = "Set" THEN "error" ELSE g_reportedMpiResult
    /\ Return("failed")
    /\ UNCHANGED <<mDatabase, engine, g_mpiHandle, globals, ran>>

\* Get reads the names and the desired value after the procedure was set.
ReadNames ==
    /\ pc = "names"
    /\ IF in.reported THEN ReadDesiredObjectValue(in) /\ Goto("distribution")
                      ELSE UNCHANGED g_desiredObjectValue /\ Return("failed")
    /\ UNCHANGED <<mDatabase, engine, g_mpiHandle, g_expectedObjectValue,
                   g_reportedObjectValue, g_reportedMpiResult, ran>>

\* BaselineIsCorrectDistribution; there is no distribution without an engine.
CheckDistribution ==
    /\ pc = "distribution"
    /\ IF engine /\ in.applicable
       THEN /\ Goto(IF op = "Set" THEN "remediate" ELSE "init")
            /\ UNCHANGED g_reportedMpiResult
       ELSE /\ Return("unsupported")
            /\ g_reportedMpiResult' = IF op = "Set" THEN "error" ELSE g_reportedMpiResult
    /\ UNCHANGED <<mDatabase, engine, g_mpiHandle, globals, ran>>

-----------------------------------------------------------------------------
(***************************************************************************)
(* GetReportedObjectValueFromDevice, for Get and Test.                     *)
(***************************************************************************)
Apply ==
    /\ pc = "init"
    /\ in.init
    /\ IF EngineAnswers THEN SetOnEngine(InitAudit(in.rule, g_desiredObjectValue))
                        ELSE SetOnPlatform
    /\ Goto("audit")
    /\ UNCHANGED <<engine, globals, ran>>

NoInitObject ==
    /\ pc = "init"
    /\ ~in.init
    /\ Goto("audit")
    /\ UNCHANGED <<mDatabase, engine, g_mpiHandle, globals, g_reportedMpiResult, ran>>

\* The evaluation of object o of the rule that is called.
Ran(o, parameters, outcome) ==
    ran' = [object |-> o, payload |-> mDatabase[in.rule].payload,
            parameters |-> parameters, outcome |-> outcome]

\* Mutant: the result code is left as the earlier steps set it.
ReportedKeepingResult(report) ==
    /\ g_reportedObjectValue' = report
    /\ UNCHANGED g_reportedMpiResult
    /\ Goto("compare")

\* An answered read replaces g_reportedObjectValue and g_reportedMpiResult.
Reported(report) ==
    /\ g_reportedObjectValue' = report
    /\ g_reportedMpiResult' = "ok"
    /\ Goto("compare")

\* BaselineMmiGet answers: an evaluated audit, or an error masked as findings.
Audit(outcome) ==
    /\ pc = "audit"
    /\ EngineAnswers
    /\ IF Audits(in.rule)
       THEN Ran("audit", mDatabase[in.rule].parameters, outcome)
       ELSE outcome = "error" /\ UNCHANGED ran
    /\ IF outcome = "critical"
       THEN Goto("platform") /\ UNCHANGED <<g_reportedObjectValue, g_reportedMpiResult>>
       ELSE Reported(Report(outcome))
    /\ UNCHANGED <<mDatabase, engine, g_mpiHandle, g_desiredObjectValue,
                   g_expectedObjectValue>>

NotMine ==
    /\ pc = "audit"
    /\ ~EngineAnswers
    /\ Goto("platform")
    /\ UNCHANGED <<mDatabase, engine, g_mpiHandle, globals, g_reportedMpiResult, ran>>

GetOnPlatform(report) ==
    /\ pc = "platform"
    /\ CallMpi(TRUE)
    /\ ran' = Platform
    /\ Reported(report)
    /\ UNCHANGED <<mDatabase, engine, g_desiredObjectValue, g_expectedObjectValue>>

\* Mutant: the result of the read is dropped and the handler goes on.
IgnoreFailedRead ==
    /\ pc = "platform"
    /\ g_mpiHandle' \in {g_mpiHandle, TRUE}
    /\ Goto("compare")
    /\ UNCHANGED <<mDatabase, engine, globals, g_reportedMpiResult, ran>>

\* No payload, or one that is not a JSON string: the handler returns the error.
FailedRead ==
    /\ pc = "platform"
    /\ CallMpi(FALSE)
    /\ g_reportedMpiResult' = "error"
    /\ Return("failed")
    /\ UNCHANGED <<mDatabase, engine, globals, ran>>

(***************************************************************************)
(* Determine compliance.  The expected value is compared with the start of *)
(* the report.  Get keeps the value the input has, Test does not; without  *)
(* one both use the value kept.                                            *)
(***************************************************************************)
Expected == IF in.expected # Absent THEN in.expected ELSE g_expectedObjectValue

Compare ==
    /\ pc = "compare"
    /\ g_expectedObjectValue' = IF op = "Get" THEN Expected ELSE g_expectedObjectValue
    /\ Return(IF Expected = g_reportedObjectValue THEN "compliant" ELSE "incompliant")
    /\ UNCHANGED <<mDatabase, engine, g_mpiHandle, g_desiredObjectValue,
                   g_reportedObjectValue, g_reportedMpiResult, ran>>

-----------------------------------------------------------------------------
(***************************************************************************)
(* Set: the result of the remediation is not returned.                     *)
(***************************************************************************)
Remediate(outcome) ==
    /\ pc = "remediate"
    /\ EngineAnswers
    /\ ExecuteRemediation(in.rule, g_desiredObjectValue)
    /\ IF Remediates(in.rule, g_desiredObjectValue)
       THEN Ran(IF mDatabase[in.rule].payload.remediate THEN "remediate" ELSE "audit",
                mDatabase'[in.rule].parameters, outcome)
       ELSE outcome = "error" /\ UNCHANGED ran
    /\ IF outcome = "critical"
       THEN \E succeeds \in BOOLEAN : CallMpi(succeeds) /\ KeepMpiFailure(succeeds)
       ELSE UNCHANGED <<g_mpiHandle, g_reportedMpiResult>>
    /\ Return("ok")
    /\ UNCHANGED <<engine, globals>>

RemediateOnPlatform ==
    /\ pc = "remediate"
    /\ ~EngineAnswers
    /\ SetOnPlatform
    /\ ran' = Platform
    /\ Return("ok")
    /\ UNCHANGED <<engine, globals>>

-----------------------------------------------------------------------------
Next ==
    \/ Reload
    \/ \E o \in {"Get", "Test", "Set"}, i \in Resources : Call(o, i)
    \/ ApplyProcedure \/ NoProcedureObject \/ NoProcedureObjectValue
    \/ ReadNames \/ CheckDistribution
    \/ Apply \/ NoInitObject
    \/ \E outcome \in Outcomes : Audit(outcome)
    \/ NotMine
    \/ \E report \in Reports : GetOnPlatform(report)
    \/ FailedRead
    \/ Compare
    \/ \E outcome \in Outcomes : Remediate(outcome)
    \/ RemediateOnPlatform

Spec == Init /\ [][Next]_vars

-----------------------------------------------------------------------------
(***************************************************************************)
(* An instance that reports success audits what it names: when Get or Test *)
(* answers "compliant" for an expected value of PASS, the platform service *)
(* said so, or an audit was evaluated in this very call, it passed, and it *)
(* was the audit of the procedure the instance brought.  A report, an      *)
(* entry of the database or a result left over from an earlier instance    *)
(* never makes a later one compliant (OsConfigResource.c:739-753,          *)
(* Engine.cpp:178).                                                        *)
(***************************************************************************)
CompliantMeansAudited ==
    answer = "compliant" /\ in.expected = "PASS" =>
        \/ ran = Platform
        \/ /\ ran \in Evaluation
           /\ ran.object = "audit"
           /\ ran.outcome \in {"Compliant", "NotApplicable"}
           /\ in.procedure \in Procedures => ran.payload = in.procedure

(***************************************************************************)
(* An instance of the documented form: a procedure that is accepted, an    *)
(* init object, and a desired value for parameters the procedure has.      *)
(***************************************************************************)
Documented(i) ==
    /\ i.procedure \in Procedures /\ i.procedure.valid
    /\ i.init
    /\ i.value # Absent /\ Accepts(i.procedure.parameters, i.value)

(***************************************************************************)
(* Whatever ran before it, in whatever order Get, Test and Set are called  *)
(* and even when instances share a rule name, an instance of the           *)
(* documented form is evaluated with its procedure's defaults overridden   *)
(* by its own desired value (docs/architecture.md, NRP Control Flow).      *)
(***************************************************************************)
OwnParameters ==
    ran \in Evaluation /\ Documented(in) =>
        /\ ran.payload = in.procedure
        /\ ran.parameters =
            [k \in DOMAIN in.procedure.parameters |->
                IF k \in DOMAIN in.value.parameters THEN in.value.parameters[k]
                                                    ELSE in.procedure.parameters[k]]

(***************************************************************************)
(* A remediation never changes the host with half of what was asked: every *)
(* parameter of the desired value is in force when it is evaluated, though *)
(* UpdateUserParameters applies pairs one by one and may stop half way     *)
(* (Engine.cpp, ExecuteRemediation).                                       *)
(***************************************************************************)
RemediatesAsAsked ==
    ran \in Evaluation /\ op = "Set" =>
        /\ in.value.parsed
        /\ \A k \in DOMAIN in.value.parameters :
            k \in DOMAIN ran.parameters /\ ran.parameters[k] = in.value.parameters[k]

(***************************************************************************)
(* The result code posted beside a verdict belongs to the read the verdict *)
(* is made from: a failure of an earlier call, or of the procedure or init *)
(* step of this one, is not reported with it (OsConfigResource.c:496).     *)
(***************************************************************************)
ResultOfThisRead ==
    answer \in {"compliant", "incompliant"} => g_reportedMpiResult = "ok"
=============================================================================
