---------------------------- MODULE MCNrpAdapter ----------------------------
(***************************************************************************)
(* Instances for model checking NrpAdapter: the documented form, and each  *)
(* way in which an instance can depart from it.  They share one rule name, *)
(* as those of complianceengine/example/MOFGenerator.py do.                *)
(***************************************************************************)
EXTENDS NrpAdapter, TLC

\* A procedure with a remediation, one without, and one that is refused.
First == [valid |-> TRUE, remediate |-> TRUE, parameters |-> (1 :> "default")]
Second == [valid |-> TRUE, remediate |-> FALSE,
           parameters |-> (1 :> "default" @@ 2 :> "default")]
Refused == [valid |-> FALSE, remediate |-> FALSE, parameters |-> << >>]

MCProcedures == {First, Second, Refused}

\* "FAIL" is no list of key=value pairs.
MCFailValue == [parsed |-> FALSE, parameters |-> << >>]

One == [parsed |-> TRUE, parameters |-> (1 :> "user")]
Two == [parsed |-> TRUE, parameters |-> (2 :> "user")]
Both == [parsed |-> TRUE, parameters |-> (1 :> "user" @@ 2 :> "user")]
Empty == [parsed |-> TRUE, parameters |-> << >>]

MCUserValues == {One, Two, Both, Empty}

Documented1 ==
    [rule |-> "Object", complete |-> TRUE, component |-> TRUE, applicable |-> TRUE,
     procedure |-> First, init |-> TRUE, reported |-> TRUE, desired |-> TRUE,
     value |-> One, expected |-> "PASS"]

Documented2 == [Documented1 EXCEPT !.procedure = Second, !.value = Two]

MCResources ==
    {Documented1, Documented2,
     [Documented1 EXCEPT !.value = Empty],
     [Documented1 EXCEPT !.value = Both],           \* parameter 2 is not defined
     [Documented1 EXCEPT !.procedure = Refused],
     [Documented1 EXCEPT !.procedure = NameOnly],
     [Documented2 EXCEPT !.procedure = Absent, !.value = Absent],
     [Documented1 EXCEPT !.init = FALSE],
     [Documented1 EXCEPT !.reported = FALSE],
     [Documented1 EXCEPT !.desired = FALSE, !.expected = "findings"],
     [Documented2 EXCEPT !.expected = Absent],
     [Documented1 EXCEPT !.applicable = FALSE],
     [Documented1 EXCEPT !.component = FALSE],
     [Documented1 EXCEPT !.complete = FALSE]}

\* Instances that differ in what they expect.
Expecting == {Documented1, [Documented1 EXCEPT !.expected = "findings"],
              [Documented1 EXCEPT !.expected = Absent]}
=============================================================================
