-------------------------- MODULE NrpAdapterProofs --------------------------
(***************************************************************************)
(* Proofs that NrpAdapter keeps its properties for any instances, rules,   *)
(* procedures and values.                                                  *)
(***************************************************************************)
EXTENDS NrpAdapter, TLAPS

-----------------------------------------------------------------------------
(***************************************************************************)
(* The inductive invariant.                                                *)
(***************************************************************************)

\* A handler has an input and posts nothing before it returns.
Handler ==
    /\ pc # "idle" => in \in Resources /\ op # "none" /\ answer = "none"
    /\ op = "Set" => pc \notin {"names", "init", "audit", "platform", "compare"}
    /\ op = "Set" /\ pc # "idle" => in.value # Absent
    /\ pc \in {"procedure", "names", "distribution", "init", "audit", "remediate"} =>
        ran = Nothing
    /\ pc = "remediate" => op = "Set"
    /\ pc = "names" => op = "Get"

\* Once a Test or Set has begun, and a Get has read the names, the static variable
\* holds the desired value of the instance, if it has one.
DesiredIsOwn ==
    (\/ pc = "procedure" /\ op # "Get"
     \/ pc \in {"distribution", "init", "audit", "remediate"}) /\ in.value # Absent
        => g_desiredObjectValue = in.value

\* After the procedure was set, the entry of the rule is made from it, or there is none.
Set_ == {"names", "distribution", "init", "remediate"}
EntryIsOwn ==
    in.procedure \in Procedures /\ EngineAnswers =>
        /\ pc \in Set_ =>
            mDatabase[in.rule] = IF in.procedure.valid
                                 THEN [payload |-> in.procedure,
                                       parameters |-> in.procedure.parameters]
                                 ELSE NoProcedure
        /\ pc = "audit" /\ Known(in.rule) => mDatabase[in.rule].payload = in.procedure

\* The defaults of the procedure with the desired value of the instance.
Merged(i) ==
    [k \in DOMAIN i.procedure.parameters |->
        IF k \in DOMAIN i.value.parameters THEN i.value.parameters[k]
                                           ELSE i.procedure.parameters[k]]

MergedForAudit ==
    pc = "audit" /\ EngineAnswers /\ Documented(in) =>
        mDatabase[in.rule] = [payload |-> in.procedure, parameters |-> Merged(in)]

\* Why the value that is compared may be PASS.
Passed ==
    \/ ran = Platform
    \/ /\ ran \in Evaluation
       /\ ran.object = "audit"
       /\ ran.outcome \in {"Compliant", "NotApplicable"}
       /\ in.procedure \in Procedures => ran.payload = in.procedure

ReportIsOwn ==
    pc = "compare" =>
        /\ g_reportedMpiResult = "ok"
        /\ g_reportedObjectValue = "PASS" => Passed

Inv ==
    /\ TypeOK /\ Handler /\ DesiredIsOwn /\ EntryIsOwn /\ MergedForAudit /\ ReportIsOwn
    /\ CompliantMeansAudited /\ OwnParameters /\ RemediatesAsAsked /\ ResultOfThisRead

-----------------------------------------------------------------------------
(***************************************************************************)
(* The operations of the engine.                                           *)
(***************************************************************************)

\* A parameter map stays one when some of its values are replaced by those of a
\* user's (UpdateUserParameters of lib/Procedure.cpp).
LEMMA UpdateUserParametersType ==
    ASSUME NEW parameters \in ProcedureParameters, NEW u \in UserPayload
    PROVE  UpdateUserParameters(parameters, u) \in ProcedureParameters
<1>1. PICK D \in SUBSET Keys : parameters \in [D -> Values]
  BY DEF ProcedureParameters
<1>2. PICK E \in SUBSET Keys : u.parameters \in [E -> Values]
  BY DEF ProcedureParameters, UserPayload
<1>3. UpdateUserParameters(parameters, u) \in [D -> Values]
  BY <1>1, <1>2 DEF UpdateUserParameters, Reached
<1> QED
  BY <1>3 DEF ProcedureParameters

\* When all parameters of the user are known, all of them are applied.
LEMMA UpdateAccepted ==
    ASSUME NEW parameters, NEW u, Accepts(parameters, u)
    PROVE  UpdateUserParameters(parameters, u) =
            [k \in DOMAIN parameters |->
                IF k \in DOMAIN u.parameters THEN u.parameters[k] ELSE parameters[k]]
  BY DEF UpdateUserParameters, Reached, Accepts

\* MmiSet of a procedure leaves a database (SetProcedure of lib/Engine.cpp).
LEMMA SetProcedureType ==
    ASSUME DatabaseType, NEW r \in Rules, NEW p \in ProcedurePayload, SetProcedure(r, p)
    PROVE  /\ DatabaseType'
           /\ mDatabase'[r] = IF p.valid THEN [payload |-> p, parameters |-> p.parameters]
                                         ELSE NoProcedure
<1>1. p.parameters \in ProcedureParameters
  BY DEF ProcedurePayload
<1>2. [payload |-> p, parameters |-> p.parameters] \in Entry
  BY <1>1 DEF Entry
<1> QED
  BY <1>2 DEF DatabaseType, SetProcedure

\* MmiSet of user parameters leaves a database, and changes nothing but the
\* parameters of the rule.
LEMMA UpdateParametersType ==
    ASSUME DatabaseType, NEW r \in Rules, NEW u \in UserPayload, UpdateParameters(r, u)
    PROVE  /\ DatabaseType'
           /\ Known(r)' = Known(r)
           /\ Known(r) =>
                /\ mDatabase[r] \in Entry
                /\ mDatabase'[r] \in Entry
                /\ mDatabase'[r].payload = mDatabase[r].payload
                /\ mDatabase'[r].parameters = UpdateUserParameters(mDatabase[r].parameters, u)
                /\ mDatabase'[r] = [payload |-> mDatabase[r].payload,
                        parameters |-> UpdateUserParameters(mDatabase[r].parameters, u)]
<1>1. CASE ~Known(r)
  <2>1. mDatabase' = mDatabase
    BY <1>1 DEF UpdateParameters
  <2> QED
    BY <1>1, <2>1 DEF Known, DatabaseType
<1>2. CASE Known(r)
  <2>1. mDatabase[r] \in Entry
    BY <1>2 DEF Known, DatabaseType
  <2>2. UpdateUserParameters(mDatabase[r].parameters, u) \in ProcedureParameters
    BY <2>1, UpdateUserParametersType DEF Entry
  <2>3. PICK e : e = UpdateUserParameters(mDatabase[r].parameters, u)
    OBVIOUS
  <2>4. mDatabase' = [mDatabase EXCEPT ![r] = [@ EXCEPT !.parameters = e]]
    BY <1>2, <2>3 DEF UpdateParameters
  <2>5. /\ mDatabase'[r] = [mDatabase[r] EXCEPT !.parameters = e]
        /\ mDatabase'[r] = [payload |-> mDatabase[r].payload, parameters |-> e]
    BY <2>1, <2>4 DEF DatabaseType, Entry
  <2>6. mDatabase'[r] \in Entry
    BY <2>1, <2>2, <2>3, <2>5 DEF Entry
  <2>7. DatabaseType'
    BY <2>4, <2>5, <2>6 DEF DatabaseType
  <2> QED
    BY <1>2, <2>1, <2>3, <2>5, <2>6, <2>7, EngineAssumption DEF Known
<1> QED
  BY <1>1, <1>2

-----------------------------------------------------------------------------
\* A fresh library satisfies the invariant, after Reload as at first.
LEMMA InitInv == Init => Inv
<1> SUFFICES ASSUME Init PROVE Inv
  OBVIOUS
<1>1. TypeOK
  BY EngineAssumption, NrpAssumption
     DEF Init, TypeOK, DatabaseType, Reports, Steps, Answers
<1>2. ran \notin Evaluation /\ pc = "idle" /\ answer = "none" /\ in = Nothing /\ op = "none"
  BY NrpAssumption DEF Init
<1>3. ran = Nothing
  BY DEF Init
<1> QED
  BY <1>1, <1>2, <1>3
     DEF Inv, Handler, DesiredIsOwn, EntryIsOwn, Set_, MergedForAudit, ReportIsOwn,
         CompliantMeansAudited, OwnParameters, RemediatesAsAsked, ResultOfThisRead

\* Destroy and Initialize between two calls.
LEMMA ReloadInv == ASSUME Inv, Reload PROVE Inv'
<1>1. TypeOK'
  BY EngineAssumption, NrpAssumption
     DEF Inv, Reload, TypeOK, DatabaseType, Reports, Steps, Answers
<1>2. ran' \notin Evaluation /\ pc' = "idle" /\ answer' = "none" /\ in' = Nothing /\ op' = "none"
  BY NrpAssumption DEF Reload
<1>3. ran' = Nothing
  BY DEF Reload
<1> QED
  BY <1>1, <1>2, <1>3
     DEF Inv, Handler, DesiredIsOwn, EntryIsOwn, Set_, MergedForAudit, ReportIsOwn,
         CompliantMeansAudited, OwnParameters, RemediatesAsAsked, ResultOfThisRead

\* The types of what a handler reads of its input.
LEMMA InputType ==
    ASSUME TypeOK, in \in Resources
    PROVE  /\ in \in ResourceType
           /\ in.rule \in Rules
           /\ in.procedure \notin {Absent, NameOnly} =>
                in.procedure \in Procedures /\ in.procedure \in ProcedurePayload
           /\ in.value # Absent => in.value \in UserValues /\ in.value \in UserPayload
  BY NrpAssumption, EngineAssumption DEF TypeOK, ResourceType

-----------------------------------------------------------------------------
\* A new call forgets what the last one evaluated.
LEMMA CallInv ==
    ASSUME Inv, NEW o \in {"Get", "Test", "Set"}, NEW i \in Resources, Call(o, i)
    PROVE  Inv'
<1>1. TypeOK'
  BY NrpAssumption DEF Inv, Call, TypeOK, ReadDesiredObjectValue, Steps, Answers,
                       DatabaseType, ResourceType
<1>2. ran' = Nothing /\ ran' \notin Evaluation /\ op' = o /\ in' = i
  BY NrpAssumption DEF Call
<1>3. CASE Required(o, i)
  <2>1. pc' = "procedure" /\ answer' = "none"
    BY <1>3 DEF Call
  <2>2. o # "Get" /\ i.value # Absent => g_desiredObjectValue' = i.value
    BY <1>3 DEF Call, ReadDesiredObjectValue
  <2>3. o = "Set" => i.value # Absent
    BY <1>3 DEF Required
  <2> QED
    BY <1>1, <1>2, <2>1, <2>2, <2>3
       DEF Inv, Handler, DesiredIsOwn, EntryIsOwn, Set_, MergedForAudit, ReportIsOwn,
           CompliantMeansAudited, OwnParameters, RemediatesAsAsked, ResultOfThisRead
<1>4. CASE ~Required(o, i)
  <2>1. pc' = "idle" /\ answer' = "failed"
    BY <1>4 DEF Call
  <2> QED
    BY <1>1, <1>2, <2>1
       DEF Inv, Handler, DesiredIsOwn, EntryIsOwn, Set_, MergedForAudit, ReportIsOwn,
           CompliantMeansAudited, OwnParameters, RemediatesAsAsked, ResultOfThisRead
<1> QED
  BY <1>3, <1>4

-----------------------------------------------------------------------------
(***************************************************************************)
(* The steps before the evaluation.                                        *)
(***************************************************************************)

\* What an operation that is answered by the platform service leaves alone.
LEMMA SetOnPlatformType ==
    ASSUME TypeOK, SetOnPlatform
    PROVE  /\ mDatabase' = mDatabase
           /\ g_mpiHandle' \in BOOLEAN /\ g_reportedMpiResult' \in {"ok", "error"}
  BY DEF TypeOK, SetOnPlatform, CallMpi, KeepMpiFailure

\* While a handler runs and has not evaluated anything, the four properties have
\* nothing to say.
LEMMA Underway ==
    ASSUME NrpAssumption, answer = "none", ran = Nothing
    PROVE  /\ CompliantMeansAudited /\ OwnParameters /\ RemediatesAsAsked /\ ResultOfThisRead
  BY DEF NrpAssumption, CompliantMeansAudited, OwnParameters, RemediatesAsAsked, ResultOfThisRead

\* Setting the procedure of the instance.
LEMMA ApplyProcedureInv == ASSUME Inv, ApplyProcedure PROVE Inv'
<1>1. /\ TypeOK /\ Handler /\ in \in Resources /\ op # "none" /\ answer = "none" /\ ran = Nothing
      /\ pc = "procedure" /\ pc' = AfterProcedure
      /\ UNCHANGED <<engine, globals, ran, op, in, answer>>
  BY DEF Inv, Handler, ApplyProcedure, Goto
<1>2. in.rule \in Rules /\ in.procedure \in Procedures /\ in.procedure \in ProcedurePayload
  BY <1>1, InputType DEF ApplyProcedure
<1>3. CASE EngineAnswers
  <2>1. /\ SetProcedure(in.rule, in.procedure)
        /\ UNCHANGED <<g_mpiHandle, g_reportedMpiResult>>
    BY <1>3 DEF ApplyProcedure, SetOnEngine
  <2>2. /\ DatabaseType'
        /\ mDatabase'[in.rule] = IF in.procedure.valid
                THEN [payload |-> in.procedure, parameters |-> in.procedure.parameters]
                ELSE NoProcedure
    BY <1>1, <1>2, <2>1, SetProcedureType DEF TypeOK
  <2>3. TypeOK'
    BY <1>1, <2>1, <2>2 DEF TypeOK, globals, AfterProcedure, Steps
  <2>4. EntryIsOwn'
    BY <1>1, <2>2 DEF EntryIsOwn, EngineAnswers, AfterProcedure
  <2> QED
    BY <1>1, <2>3, <2>4, NrpAssumption
       DEF Inv, Handler, DesiredIsOwn, MergedForAudit, ReportIsOwn, AfterProcedure, globals,
           CompliantMeansAudited, OwnParameters, RemediatesAsAsked, ResultOfThisRead
<1>4. CASE ~EngineAnswers
  <2>1. /\ mDatabase' = mDatabase
        /\ g_mpiHandle' \in BOOLEAN /\ g_reportedMpiResult' \in {"ok", "error"}
    BY <1>1, <1>4, SetOnPlatformType DEF ApplyProcedure
  <2>2. TypeOK'
    BY <1>1, <2>1 DEF TypeOK, globals, AfterProcedure, Steps, DatabaseType
  <2>3. EntryIsOwn'
    BY <1>1, <1>4 DEF EntryIsOwn, EngineAnswers
  <2> QED
    BY <1>1, <2>2, <2>3, NrpAssumption
       DEF Inv, Handler, DesiredIsOwn, MergedForAudit, ReportIsOwn, AfterProcedure, globals,
           CompliantMeansAudited, OwnParameters, RemediatesAsAsked, ResultOfThisRead
<1> QED
  BY <1>3, <1>4

\* An instance without a procedure object.
LEMMA NoProcedureObjectInv == ASSUME Inv, NoProcedureObject PROVE Inv'
<1>1. /\ TypeOK /\ Handler /\ in \in Resources /\ op # "none" /\ answer = "none" /\ ran = Nothing
      /\ pc = "procedure" /\ pc' = AfterProcedure /\ in.procedure = Absent
      /\ UNCHANGED <<mDatabase, engine, g_mpiHandle, globals, g_reportedMpiResult, ran, op, in,
                     answer>>
  BY DEF Inv, Handler, NoProcedureObject, Goto
<1>2. TypeOK'
  BY <1>1 DEF TypeOK, globals, AfterProcedure, Steps, DatabaseType
<1> QED
  BY <1>1, <1>2, NrpAssumption
     DEF Inv, Handler, DesiredIsOwn, EntryIsOwn, MergedForAudit, ReportIsOwn, AfterProcedure,
         globals, CompliantMeansAudited, OwnParameters, RemediatesAsAsked, ResultOfThisRead

\* Two of the three ways in which a handler gives up.
LEMMA NoProcedureObjectValueInv == ASSUME Inv, NoProcedureObjectValue PROVE Inv'
<1>1. /\ TypeOK /\ Handler /\ ran = Nothing /\ pc' = "idle" /\ answer' = "failed"
      /\ g_reportedMpiResult' \in {"ok", "error"}
      /\ UNCHANGED <<mDatabase, engine, g_mpiHandle, globals, ran, op, in>>
  BY DEF Inv, TypeOK, Handler, NoProcedureObjectValue, Return
<1>2. TypeOK'
  BY <1>1 DEF TypeOK, globals, Steps, DatabaseType, Answers
<1> QED
  BY <1>1, <1>2, NrpAssumption
     DEF Inv, Handler, DesiredIsOwn, EntryIsOwn, Set_, MergedForAudit, ReportIsOwn,
         globals, CompliantMeansAudited, OwnParameters, RemediatesAsAsked, ResultOfThisRead

\* Get reads the desired value.
LEMMA ReadNamesInv == ASSUME Inv, ReadNames PROVE Inv'
<1>1. /\ TypeOK /\ Handler /\ EntryIsOwn /\ in \in Resources /\ op = "Get" /\ answer = "none"
      /\ ran = Nothing /\ pc = "names"
      /\ UNCHANGED <<mDatabase, engine, g_mpiHandle, g_expectedObjectValue,
                     g_reportedObjectValue, g_reportedMpiResult, ran, op, in>>
  BY DEF Inv, Handler, ReadNames, Goto, Return
<1>2. in.value # Absent => in.value \in UserValues
  BY <1>1, InputType
<1>3. CASE in.reported
  <2>1. /\ g_desiredObjectValue' = IF in.value # Absent THEN in.value ELSE g_desiredObjectValue
        /\ pc' = "distribution" /\ answer' = answer
    BY <1>3 DEF ReadNames, ReadDesiredObjectValue, Goto
  <2>2. TypeOK'
    BY <1>1, <1>2, <2>1 DEF TypeOK, Steps, DatabaseType
  <2>3. EntryIsOwn'
    BY <1>1, <2>1 DEF EntryIsOwn, EngineAnswers, Set_
  <2> QED
    BY <1>1, <2>1, <2>2, <2>3, NrpAssumption
       DEF Inv, Handler, DesiredIsOwn, MergedForAudit, ReportIsOwn,
           CompliantMeansAudited, OwnParameters, RemediatesAsAsked, ResultOfThisRead
<1>4. CASE ~in.reported
  <2>1. g_desiredObjectValue' = g_desiredObjectValue /\ pc' = "idle" /\ answer' = "failed"
    BY <1>4 DEF ReadNames, Return
  <2>2. TypeOK'
    BY <1>1, <2>1 DEF TypeOK, Steps, DatabaseType, Answers
  <2> QED
    BY <1>1, <2>1, <2>2, NrpAssumption
       DEF Inv, Handler, DesiredIsOwn, EntryIsOwn, Set_, MergedForAudit, ReportIsOwn,
           CompliantMeansAudited, OwnParameters, RemediatesAsAsked, ResultOfThisRead
<1> QED
  BY <1>3, <1>4

\* The distribution of the instance is that of the host, or the handler gives up.
LEMMA CheckDistributionInv == ASSUME Inv, CheckDistribution PROVE Inv'
<1>1. /\ TypeOK /\ Handler /\ EntryIsOwn /\ DesiredIsOwn
      /\ in \in Resources /\ op # "none" /\ answer = "none"
      /\ ran = Nothing /\ pc = "distribution"
      /\ UNCHANGED <<mDatabase, engine, g_mpiHandle, globals, ran, op, in>>
  BY DEF Inv, Handler, CheckDistribution, Goto, Return
<1>2. CASE engine /\ in.applicable
  <2>1. /\ pc' = IF op = "Set" THEN "remediate" ELSE "init"
        /\ g_reportedMpiResult' = g_reportedMpiResult /\ answer' = answer
    BY <1>2 DEF CheckDistribution, Goto
  <2>2. TypeOK'
    BY <1>1, <2>1 DEF TypeOK, globals, Steps, DatabaseType
  <2>3. EntryIsOwn'
    BY <1>1, <2>1 DEF EntryIsOwn, EngineAnswers, Set_
  <2>4. DesiredIsOwn'
    BY <1>1, <2>1 DEF DesiredIsOwn, globals
  <2> QED
    BY <1>1, <2>1, <2>2, <2>3, <2>4, NrpAssumption
       DEF Inv, Handler, MergedForAudit, ReportIsOwn,
           CompliantMeansAudited, OwnParameters, RemediatesAsAsked, ResultOfThisRead
<1>3. CASE ~(engine /\ in.applicable)
  <2>1. /\ pc' = "idle" /\ answer' = "unsupported" /\ g_reportedMpiResult' \in {"ok", "error"}
    BY <1>1, <1>3 DEF CheckDistribution, Return, TypeOK
  <2>2. TypeOK'
    BY <1>1, <2>1 DEF TypeOK, globals, Steps, DatabaseType, Answers
  <2> QED
    BY <1>1, <2>1, <2>2, NrpAssumption
       DEF Inv, Handler, DesiredIsOwn, EntryIsOwn, Set_, MergedForAudit, ReportIsOwn,
           CompliantMeansAudited, OwnParameters, RemediatesAsAsked, ResultOfThisRead
<1> QED
  BY <1>2, <1>3

-----------------------------------------------------------------------------
(***************************************************************************)
(* The evaluation, and what is made of it.                                 *)
(***************************************************************************)

\* The init object is set with the desired value.
LEMMA ApplyInv == ASSUME Inv, Apply PROVE Inv'
<1>1. /\ TypeOK /\ Handler /\ EntryIsOwn /\ DesiredIsOwn
      /\ in \in Resources /\ op # "none" /\ op # "Set" /\ answer = "none" /\ ran = Nothing
      /\ pc = "init" /\ pc' = "audit"
      /\ UNCHANGED <<engine, globals, ran, op, in, answer>>
  BY DEF Inv, Handler, Apply, Goto
<1>2. DesiredIsOwn'
  BY <1>1 DEF DesiredIsOwn, globals
<1>3. CASE EngineAnswers
  <2>1. /\ UpdateParameters(in.rule, g_desiredObjectValue)
        /\ UNCHANGED <<g_mpiHandle, g_reportedMpiResult>>
    BY <1>3 DEF Apply, SetOnEngine, InitAudit
  <2>2. in.rule \in Rules /\ g_desiredObjectValue \in UserPayload
    BY <1>1, InputType, NrpAssumption, EngineAssumption DEF TypeOK
  <2>3. /\ DatabaseType'
        /\ Known(in.rule)' = Known(in.rule)
        /\ Known(in.rule) =>
             /\ mDatabase'[in.rule].payload = mDatabase[in.rule].payload
             /\ mDatabase'[in.rule] = [payload |-> mDatabase[in.rule].payload, parameters |->
                  UpdateUserParameters(mDatabase[in.rule].parameters, g_desiredObjectValue)]
    BY <1>1, <2>1, <2>2, UpdateParametersType DEF TypeOK
  <2>4. TypeOK'
    BY <1>1, <2>1, <2>3 DEF TypeOK, globals, Steps
  <2>5. EntryIsOwn'
    BY <1>1, <2>3 DEF EntryIsOwn, EngineAnswers, Set_, Known
  <2>6. MergedForAudit'
    <3> SUFFICES ASSUME Documented(in)
                 PROVE  mDatabase'[in.rule] = [payload |-> in.procedure, parameters |-> Merged(in)]
      BY <1>1 DEF MergedForAudit, Documented, Merged
    <3>1. /\ mDatabase[in.rule] = [payload |-> in.procedure,
                                   parameters |-> in.procedure.parameters]
          /\ g_desiredObjectValue = in.value /\ Accepts(in.procedure.parameters, in.value)
      BY <1>1, <1>3 DEF EntryIsOwn, DesiredIsOwn, Documented, Set_
    <3>2. [payload |-> in.procedure, parameters |-> in.procedure.parameters] # NoProcedure
      <4>1. in.procedure \in ProcedurePayload
        BY EngineAssumption DEF Documented
      <4>2. in.procedure.parameters \in ProcedureParameters
        BY <4>1 DEF ProcedurePayload
      <4> QED
        BY <4>1, <4>2, EngineAssumption DEF Entry
    <3>3. mDatabase'[in.rule] = [payload |-> in.procedure, parameters |->
                UpdateUserParameters(in.procedure.parameters, in.value)]
      BY <2>3, <3>1, <3>2 DEF Known
    <3>4. UpdateUserParameters(in.procedure.parameters, in.value) = Merged(in)
      BY <3>1, UpdateAccepted DEF Merged
    <3> QED
      BY <3>3, <3>4
  <2> QED
    BY <1>1, <1>2, <2>4, <2>5, <2>6, NrpAssumption
       DEF Inv, Handler, ReportIsOwn,
           CompliantMeansAudited, OwnParameters, RemediatesAsAsked, ResultOfThisRead
<1>4. CASE ~EngineAnswers
  <2>1. /\ mDatabase' = mDatabase
        /\ g_mpiHandle' \in BOOLEAN /\ g_reportedMpiResult' \in {"ok", "error"}
    BY <1>1, <1>4, SetOnPlatformType DEF Apply
  <2>2. TypeOK'
    BY <1>1, <2>1 DEF TypeOK, globals, Steps, DatabaseType
  <2>3. EntryIsOwn' /\ MergedForAudit'
    BY <1>1, <1>4 DEF EntryIsOwn, EngineAnswers, MergedForAudit
  <2> QED
    BY <1>1, <1>2, <2>2, <2>3, NrpAssumption
       DEF Inv, Handler, ReportIsOwn,
           CompliantMeansAudited, OwnParameters, RemediatesAsAsked, ResultOfThisRead
<1> QED
  BY <1>3, <1>4

\* Without an init object the audit runs with the defaults.
LEMMA NoInitObjectInv == ASSUME Inv, NoInitObject PROVE Inv'
<1>1. /\ TypeOK /\ Handler /\ EntryIsOwn /\ DesiredIsOwn /\ in \in Resources /\ ~in.init
      /\ op # "none" /\ op # "Set" /\ answer = "none" /\ ran = Nothing
      /\ pc = "init" /\ pc' = "audit"
      /\ UNCHANGED <<mDatabase, engine, g_mpiHandle, globals, g_reportedMpiResult, ran, op, in,
                     answer>>
  BY DEF Inv, Handler, NoInitObject, Goto
<1>2. TypeOK'
  BY <1>1 DEF TypeOK, globals, Steps, DatabaseType
<1>3. EntryIsOwn'
  <2> SUFFICES ASSUME in.procedure \in Procedures, EngineAnswers, Known(in.rule)
               PROVE  mDatabase[in.rule].payload = in.procedure
    BY <1>1 DEF EntryIsOwn, EngineAnswers, Set_, Known
  <2> QED
    BY <1>1 DEF EntryIsOwn, Set_, Known
<1>4. DesiredIsOwn' /\ MergedForAudit'
  BY <1>1 DEF DesiredIsOwn, globals, MergedForAudit, Documented
<1> QED
  BY <1>1, <1>2, <1>3, <1>4, NrpAssumption
     DEF Inv, Handler, ReportIsOwn,
         CompliantMeansAudited, OwnParameters, RemediatesAsAsked, ResultOfThisRead

\* BaselineMmiGet: what it reports, it evaluated in this call.
LEMMA AuditInv == ASSUME Inv, NEW outcome \in Outcomes, Audit(outcome) PROVE Inv'
<1>1. /\ TypeOK /\ Handler /\ EntryIsOwn /\ MergedForAudit /\ in \in Resources
      /\ op # "none" /\ op # "Set" /\ answer = "none" /\ ran = Nothing
      /\ pc = "audit" /\ EngineAnswers
      /\ UNCHANGED <<mDatabase, engine, g_mpiHandle, g_desiredObjectValue,
                     g_expectedObjectValue, op, in, answer>>
  BY DEF Inv, Handler, Audit, Goto, Reported
<1>2. in.rule \in Rules
  BY <1>1, InputType
<1>3. \/ pc' = "platform" /\ UNCHANGED <<g_reportedObjectValue, g_reportedMpiResult>>
      \/ /\ outcome # "critical" /\ pc' = "compare" /\ g_reportedMpiResult' = "ok"
         /\ g_reportedObjectValue' = Report(outcome)
  BY DEF Audit, Reported, Goto
<1>4. g_reportedObjectValue' \in Reports \cup {NoReport} /\ g_reportedMpiResult' \in {"ok", "error"}
  BY <1>1, <1>3 DEF TypeOK, Report, Reports
<1>5. /\ ran' \in Evaluation \cup {Nothing, Platform}
      /\ ran' \in Evaluation =>
            /\ ran'.object = "audit" /\ ran'.outcome = outcome
            /\ in.procedure \in Procedures => ran'.payload = in.procedure
            /\ Documented(in) => ran'.payload = in.procedure /\ ran'.parameters = Merged(in)
      /\ ran' \notin Evaluation => outcome = "error"
  <2>1. CASE Known(in.rule)
    <3>1. mDatabase[in.rule] \in Entry
      BY <1>1, <1>2, <2>1 DEF TypeOK, DatabaseType, Known
    <3>2. ran' = [object |-> "audit", payload |-> mDatabase[in.rule].payload,
                  parameters |-> mDatabase[in.rule].parameters, outcome |-> outcome]
      BY <2>1 DEF Audit, Audits, Ran
    <3>3. ran' \in Evaluation
      BY <3>1, <3>2 DEF Entry, Evaluation
    <3>4. in.procedure \in Procedures => mDatabase[in.rule].payload = in.procedure
      BY <1>1, <2>1 DEF EntryIsOwn
    <3>5. Documented(in) => /\ mDatabase[in.rule].payload = in.procedure
                            /\ mDatabase[in.rule].parameters = Merged(in)
      BY <1>1 DEF MergedForAudit
    <3> QED
      BY <3>2, <3>3, <3>4, <3>5
  <2>2. CASE ~Known(in.rule)
    BY <1>1, <2>2, NrpAssumption DEF Audit, Audits
  <2> QED
    BY <2>1, <2>2
<1>6. TypeOK'
  BY <1>1, <1>3, <1>4, <1>5 DEF TypeOK, Steps, DatabaseType
<1>7. OwnParameters'
  BY <1>1, <1>5 DEF OwnParameters, Documented, Merged
<1>8. ReportIsOwn'
  <2> SUFFICES ASSUME pc' = "compare", g_reportedObjectValue' = "PASS" PROVE Passed'
    BY <1>3 DEF ReportIsOwn
  <2>1. outcome \in {"Compliant", "NotApplicable"}
    BY <1>3 DEF Report
  <2> QED
    BY <1>1, <1>5, <2>1 DEF Passed
<1>9. /\ CompliantMeansAudited' /\ RemediatesAsAsked' /\ ResultOfThisRead'
      /\ EntryIsOwn' /\ MergedForAudit' /\ DesiredIsOwn'
  BY <1>1, <1>3
     DEF CompliantMeansAudited, RemediatesAsAsked, ResultOfThisRead, EntryIsOwn, Set_,
         MergedForAudit, DesiredIsOwn
<1> QED
  BY <1>1, <1>3, <1>6, <1>7, <1>8, <1>9 DEF Inv, Handler

\* The component of the instance is not the engine's.
LEMMA NotMineInv == ASSUME Inv, NotMine PROVE Inv'
<1>1. /\ TypeOK /\ Handler /\ in \in Resources
      /\ op # "none" /\ op # "Set" /\ answer = "none" /\ ran = Nothing /\ pc' = "platform"
      /\ UNCHANGED <<mDatabase, engine, g_mpiHandle, globals, g_reportedMpiResult, ran, op, in,
                     answer>>
  BY DEF Inv, Handler, NotMine, Goto
<1>2. TypeOK'
  BY <1>1 DEF TypeOK, globals, Steps, DatabaseType
<1> QED
  BY <1>1, <1>2, NrpAssumption
     DEF Inv, Handler, DesiredIsOwn, EntryIsOwn, Set_, MergedForAudit, ReportIsOwn,
         CompliantMeansAudited, OwnParameters, RemediatesAsAsked, ResultOfThisRead

\* The platform service reports.
LEMMA GetOnPlatformInv ==
    ASSUME Inv, NEW report \in Reports, GetOnPlatform(report)
    PROVE  Inv'
<1>1. /\ TypeOK /\ Handler /\ in \in Resources
      /\ op # "none" /\ op # "Set" /\ answer = "none"
      /\ ran' = Platform /\ pc' = "compare" /\ g_mpiHandle' \in BOOLEAN
      /\ g_reportedObjectValue' = report /\ g_reportedMpiResult' = "ok"
      /\ UNCHANGED <<mDatabase, engine, g_desiredObjectValue, g_expectedObjectValue, op, in,
                     answer>>
  BY DEF Inv, TypeOK, Handler, GetOnPlatform, CallMpi, Reported, Goto
<1>2. TypeOK'
  BY <1>1 DEF TypeOK, Steps, DatabaseType
<1>3. ran' \notin Evaluation
  BY <1>1, NrpAssumption
<1> QED
  BY <1>1, <1>2, <1>3
     DEF Inv, Handler, DesiredIsOwn, EntryIsOwn, Set_, MergedForAudit, ReportIsOwn, Passed,
         CompliantMeansAudited, OwnParameters, RemediatesAsAsked, ResultOfThisRead

\* Neither the engine nor the platform service reports.
LEMMA FailedReadInv == ASSUME Inv, FailedRead PROVE Inv'
<1>1. /\ TypeOK /\ Handler /\ OwnParameters /\ RemediatesAsAsked
      /\ pc' = "idle" /\ answer' = "failed" /\ g_mpiHandle' \in BOOLEAN
      /\ g_reportedMpiResult' = "error"
      /\ UNCHANGED <<mDatabase, engine, globals, ran, op, in>>
  BY DEF Inv, TypeOK, Handler, FailedRead, CallMpi, Return
<1>2. TypeOK'
  BY <1>1 DEF TypeOK, globals, Steps, DatabaseType, Answers
<1>3. OwnParameters' /\ RemediatesAsAsked'
  BY <1>1 DEF OwnParameters, Documented, RemediatesAsAsked
<1> QED
  BY <1>1, <1>2, <1>3
     DEF Inv, Handler, DesiredIsOwn, EntryIsOwn, Set_, MergedForAudit, ReportIsOwn,
         CompliantMeansAudited, ResultOfThisRead

\* The verdict.
LEMMA CompareInv == ASSUME Inv, Compare PROVE Inv'
<1>1. /\ TypeOK /\ Handler /\ OwnParameters /\ RemediatesAsAsked /\ ReportIsOwn
      /\ in \in Resources /\ pc = "compare" /\ pc' = "idle"
      /\ answer' = IF Expected = g_reportedObjectValue THEN "compliant" ELSE "incompliant"
      /\ g_expectedObjectValue' = IF op = "Get" THEN Expected ELSE g_expectedObjectValue
      /\ UNCHANGED <<mDatabase, engine, g_mpiHandle, g_desiredObjectValue,
                     g_reportedObjectValue, g_reportedMpiResult, ran, op, in>>
  BY DEF Inv, Handler, Compare, Return
<1>2. Expected \in Reports
  BY <1>1, NrpAssumption DEF TypeOK, Expected, ResourceType
<1>3. TypeOK'
  BY <1>1, <1>2 DEF TypeOK, Steps, DatabaseType, Answers
<1>4. OwnParameters' /\ RemediatesAsAsked'
  BY <1>1 DEF OwnParameters, Documented, RemediatesAsAsked
<1>5. CompliantMeansAudited'
  <2> SUFFICES ASSUME answer' = "compliant", in.expected = "PASS" PROVE Passed
    BY <1>1 DEF CompliantMeansAudited, Passed
  <2>1. g_reportedObjectValue = "PASS"
    BY <1>1, NrpAssumption DEF Expected, Reports
  <2> QED
    BY <1>1, <2>1 DEF ReportIsOwn
<1>6. ResultOfThisRead'
  BY <1>1 DEF ResultOfThisRead, ReportIsOwn
<1> QED
  BY <1>1, <1>3, <1>4, <1>5, <1>6
     DEF Inv, Handler, DesiredIsOwn, EntryIsOwn, Set_, MergedForAudit, ReportIsOwn

-----------------------------------------------------------------------------
(***************************************************************************)
(* Set.                                                                    *)
(***************************************************************************)

\* The engine remediates only after every parameter of the instance was applied.
LEMMA RemediateInv == ASSUME Inv, NEW outcome \in Outcomes, Remediate(outcome) PROVE Inv'
<1>1. /\ TypeOK /\ Handler /\ EntryIsOwn /\ DesiredIsOwn /\ in \in Resources
      /\ op = "Set" /\ answer = "none" /\ ran = Nothing /\ in.value # Absent
      /\ pc = "remediate" /\ EngineAnswers /\ pc' = "idle" /\ answer' = "ok"
      /\ UpdateParameters(in.rule, g_desiredObjectValue)
      /\ UNCHANGED <<engine, globals, op, in>>
  BY DEF Inv, Handler, Remediate, ExecuteRemediation, Return
<1>2. /\ in.rule \in Rules /\ in.value \in UserPayload
      /\ g_desiredObjectValue = in.value
  BY <1>1, InputType DEF DesiredIsOwn
<1>3. g_mpiHandle' \in BOOLEAN /\ g_reportedMpiResult' \in {"ok", "error"}
  BY <1>1 DEF TypeOK, Remediate, CallMpi, KeepMpiFailure
<1>4. PICK e : e = UpdateUserParameters(mDatabase[in.rule].parameters, in.value)
  OBVIOUS
<1>5. /\ DatabaseType'
      /\ Known(in.rule) =>
            /\ mDatabase[in.rule] \in Entry /\ mDatabase'[in.rule] \in Entry
            /\ mDatabase'[in.rule].payload = mDatabase[in.rule].payload
            /\ mDatabase'[in.rule].parameters = e
  BY <1>1, <1>2, <1>4, UpdateParametersType DEF TypeOK
<1>6. CASE ~Remediates(in.rule, g_desiredObjectValue)
  <2>1. ran' = Nothing
    BY <1>1, <1>6 DEF Remediate
  <2>2. TypeOK'
    BY <1>1, <1>3, <1>5, <2>1 DEF TypeOK, globals, Steps, Answers
  <2> QED
    BY <1>1, <2>1, <2>2, NrpAssumption
       DEF Inv, Handler, DesiredIsOwn, EntryIsOwn, Set_, MergedForAudit, ReportIsOwn,
           CompliantMeansAudited, OwnParameters, RemediatesAsAsked, ResultOfThisRead
<1>7. CASE Remediates(in.rule, g_desiredObjectValue)
  <2>1. Known(in.rule) /\ Accepts(mDatabase[in.rule].parameters, in.value)
    BY <1>2, <1>7 DEF Remediates
  <2>2. PICK o \in {"audit", "remediate"} :
            ran' = [object |-> o, payload |-> mDatabase[in.rule].payload,
                    parameters |-> mDatabase'[in.rule].parameters, outcome |-> outcome]
    BY <1>7 DEF Remediate, Ran
  <2>3. ran' \in Evaluation
    BY <1>5, <2>1, <2>2 DEF Evaluation, Entry
  <2>4. TypeOK'
    BY <1>1, <1>3, <1>5, <2>3 DEF TypeOK, globals, Steps, Answers
  <2>5. ran'.parameters = [k \in DOMAIN mDatabase[in.rule].parameters |->
            IF k \in DOMAIN in.value.parameters THEN in.value.parameters[k]
                                                ELSE mDatabase[in.rule].parameters[k]]
    BY <1>4, <1>5, <2>1, <2>2, UpdateAccepted
  <2>6. RemediatesAsAsked'
    BY <1>1, <2>1, <2>5 DEF RemediatesAsAsked, Accepts
  <2>7. OwnParameters'
    <3> SUFFICES ASSUME Documented(in)
                 PROVE  ran'.payload = in.procedure /\ ran'.parameters = Merged(in)
      BY <1>1 DEF OwnParameters, Documented, Merged
    <3>1. mDatabase[in.rule] = [payload |-> in.procedure,
                                parameters |-> in.procedure.parameters]
      BY <1>1 DEF EntryIsOwn, Documented, Set_
    <3> QED
      BY <2>2, <2>5, <3>1 DEF Merged
  <2> QED
    BY <1>1, <2>4, <2>6, <2>7
       DEF Inv, Handler, DesiredIsOwn, EntryIsOwn, Set_, MergedForAudit, ReportIsOwn,
           CompliantMeansAudited, ResultOfThisRead
<1> QED
  BY <1>6, <1>7

\* The platform service remediates.
LEMMA RemediateOnPlatformInv == ASSUME Inv, RemediateOnPlatform PROVE Inv'
<1>1. /\ TypeOK /\ Handler
      /\ mDatabase' = mDatabase
      /\ g_mpiHandle' \in BOOLEAN /\ g_reportedMpiResult' \in {"ok", "error"}
      /\ ran' = Platform /\ pc' = "idle" /\ answer' = "ok"
      /\ UNCHANGED <<engine, globals, op, in>>
  BY SetOnPlatformType DEF Inv, RemediateOnPlatform, Return
<1>2. TypeOK'
  BY <1>1 DEF TypeOK, globals, Steps, Answers, DatabaseType
<1>3. ran' \notin Evaluation
  BY <1>1, NrpAssumption
<1> QED
  BY <1>1, <1>2, <1>3
     DEF Inv, Handler, DesiredIsOwn, EntryIsOwn, Set_, MergedForAudit, ReportIsOwn,
         CompliantMeansAudited, OwnParameters, RemediatesAsAsked, ResultOfThisRead

-----------------------------------------------------------------------------
(***************************************************************************)
(* The theorems.                                                           *)
(***************************************************************************)

\* Nothing happens to the provider.
LEMMA StutterInv == ASSUME Inv, UNCHANGED vars PROVE Inv'
  BY DEF Inv, vars, globals, TypeOK, DatabaseType, Handler, DesiredIsOwn, EntryIsOwn, EngineAnswers,
         Known, MergedForAudit, Documented, Merged, ReportIsOwn, Passed, CompliantMeansAudited,
         OwnParameters, RemediatesAsAsked, ResultOfThisRead

\* The invariant holds of every behaviour of the provider.
THEOREM Invariance == Spec => []Inv
<1>1. Inv /\ [Next]_vars => Inv'
  <2> SUFFICES ASSUME Inv, [Next]_vars PROVE Inv'
    OBVIOUS
  <2> QED
    BY ReloadInv, CallInv, ApplyProcedureInv, NoProcedureObjectInv, NoProcedureObjectValueInv,
       ReadNamesInv, CheckDistributionInv, ApplyInv, NoInitObjectInv, AuditInv, NotMineInv,
       GetOnPlatformInv, FailedReadInv, CompareInv, RemediateInv, RemediateOnPlatformInv,
       StutterInv
       DEF Next
<1> QED
  BY InitInv, <1>1, PTL DEF Spec

\* The types of the variables, through any sequence of calls and reloads.
THEOREM TypeCorrect == Spec => []TypeOK
<1>1. Inv => TypeOK
  BY DEF Inv
<1> QED
  BY Invariance, <1>1, PTL

\* A verdict "compliant" comes from an audit of this very call, of the procedure the
\* instance brought (OsConfigResource.c:739-753), for any instances in any order.
THEOREM CompliantMeansAuditedCorrect == Spec => []CompliantMeansAudited
<1>1. Inv => CompliantMeansAudited
  BY DEF Inv
<1> QED
  BY Invariance, <1>1, PTL

\* Instances of the documented form never see each other's parameters (Engine.cpp:174,
\* OsConfigResource.c:414), though they share statics and may share a rule name.
THEOREM OwnParametersCorrect == Spec => []OwnParameters
<1>1. Inv => OwnParameters
  BY DEF Inv
<1> QED
  BY Invariance, <1>1, PTL

\* No remediation runs with a part of its parameters (Procedure.cpp:233).
THEOREM RemediatesAsAskedCorrect == Spec => []RemediatesAsAsked
<1>1. Inv => RemediatesAsAsked
  BY DEF Inv
<1> QED
  BY Invariance, <1>1, PTL

\* The result code posted with a verdict is that of the read it was made from
\* (OsConfigResource.c:496).
THEOREM ResultOfThisReadCorrect == Spec => []ResultOfThisRead
<1>1. Inv => ResultOfThisRead
  BY DEF Inv
<1> QED
  BY Invariance, <1>1, PTL
=============================================================================
