------------------------------- MODULE Engine -------------------------------
(***************************************************************************)
(* The rule database of the compliance engine (lib/Engine.cpp, with the    *)
(* parameter handling of lib/Procedure.cpp and the error policy of         *)
(* lib/ComplianceEngineInterface.cpp).  A rule name maps to a Procedure:   *)
(* the audit and remediate objects it was set with and the current values  *)
(* of its parameters.  Modules that drive an engine extend this one and    *)
(* use its operations inside their own actions; the evaluation of a        *)
(* procedure is the subject of module Evaluator and is here any outcome.   *)
(***************************************************************************)
EXTENDS Naturals

CONSTANTS
    Rules,          \* rule names
    Keys,           \* parameter names, by rank in std::map order
    Values,         \* parameter values
    Procedures,     \* payloads of "procedure<rule>" that are used
    UserValues,     \* payloads of "init<rule>" and "remediate<rule>" that are used
    NoProcedure     \* the rule is not in mDatabase

VARIABLE
    mDatabase       \* rule name -> Procedure

-----------------------------------------------------------------------------
\* Parameter maps: functions from some of the keys to values.
ProcedureParameters == UNION {[D -> Values] : D \in SUBSET Keys}

(***************************************************************************)
(* The payload of a procedure object: accepted by SetProcedure or not (bad *)
(* JSON, no audit object, a remediate or parameters member of the wrong    *)
(* type), whether it has a remediate object, and its default parameters.   *)
(***************************************************************************)
ProcedurePayload ==
    [valid : BOOLEAN, remediate : BOOLEAN, parameters : ProcedureParameters]

\* User parameters, as a JSON object or key=value pairs; parsed or malformed.
UserPayload == [parsed : BOOLEAN, parameters : ProcedureParameters]

Entry == [payload : ProcedurePayload, parameters : ProcedureParameters]

ASSUME EngineAssumption ==
    /\ Keys \subseteq Nat
    /\ Procedures \subseteq ProcedurePayload
    /\ UserValues \subseteq UserPayload
    /\ NoProcedure \notin Entry

DatabaseType == mDatabase \in [Rules -> Entry \cup {NoProcedure}]

Known(r) == mDatabase[r] # NoProcedure

-----------------------------------------------------------------------------
\* Mutant: keys that are not defined are skipped, not an error.
AcceptsAny(parameters, u) == u.parsed

(***************************************************************************)
(* UpdateUserParameters: the pairs are applied in key order, each to a     *)
(* parameter that exists, up to the first one that does not.  The pairs    *)
(* before that one stay applied.                                           *)
(***************************************************************************)
Accepts(parameters, u) ==
    u.parsed /\ DOMAIN u.parameters \subseteq DOMAIN parameters

Reached(parameters, u, k) ==
    /\ u.parsed
    /\ k \in DOMAIN u.parameters
    /\ \A j \in DOMAIN u.parameters : j <= k => j \in DOMAIN parameters

UpdateUserParameters(parameters, u) ==
    [k \in DOMAIN parameters |->
        IF Reached(parameters, u, k) THEN u.parameters[k] ELSE parameters[k]]

-----------------------------------------------------------------------------
\* Mutant: without the erase, emplace keeps the entry that is there.
SetProcedureKeepingOld(r, p) ==
    mDatabase' = IF p.valid /\ ~Known(r)
                 THEN [mDatabase EXCEPT ![r] =
                        [payload |-> p, parameters |-> p.parameters]]
                 ELSE mDatabase

\* MmiSet("procedure<r>", p): the old entry is erased before p is looked at.
SetProcedure(r, p) ==
    mDatabase' = [mDatabase EXCEPT ![r] =
        IF p.valid THEN [payload |-> p, parameters |-> p.parameters]
                   ELSE NoProcedure]

(***************************************************************************)
(* The update both MmiSet("init<r>", u) and MmiSet("remediate<r>", u)      *)
(* begin with; a rule that was never set is an error and changes nothing.  *)
(***************************************************************************)
UpdateParameters(r, u) ==
    mDatabase' = IF Known(r)
                 THEN [mDatabase EXCEPT ![r].parameters = UpdateUserParameters(@, u)]
                 ELSE mDatabase

InitAudit(r, u) == UpdateParameters(r, u)

(***************************************************************************)
(* ExecuteRemediation evaluates the remediate object, or the audit object  *)
(* when there is none, only after every user parameter was applied.        *)
(***************************************************************************)
Remediates(r, u) == Known(r) /\ Accepts(mDatabase[r].parameters, u)

ExecuteRemediation(r, u) == UpdateParameters(r, u)

\* MmiGet("audit<r>") evaluates the audit object of a known rule.
Audits(r) == Known(r)

(***************************************************************************)
(* What an evaluation returns: a status, an error the interface masks, or  *)
(* one it hands to the caller (ENOMEM, an exception).                      *)
(***************************************************************************)
Outcomes == {"Compliant", "NonCompliant", "NotApplicable", "error", "critical"}

\* The payload ComplianceEngineMmiGet makes of an outcome that is not critical.
Report(outcome) ==
    IF outcome \in {"Compliant", "NotApplicable"} THEN "PASS" ELSE "findings"

Reports == {"PASS", "findings"}
=============================================================================
