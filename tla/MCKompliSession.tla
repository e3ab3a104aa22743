-------------------------- MODULE MCKompliSession ---------------------------
(***************************************************************************)
(* Instances for model checking KompliSession.                             *)
(***************************************************************************)
EXTENDS KompliSession, TLC

\* A procedure with a remediation and parameters, one without either, and one the
\* engine refuses.
Full == [valid |-> TRUE, remediate |-> TRUE, parameters |-> (1 :> "default")]
Plain == [valid |-> TRUE, remediate |-> FALSE, parameters |-> << >>]
Refused == [valid |-> FALSE, remediate |-> FALSE, parameters |-> << >>]

MCProcedures == {Full, Plain, Refused}

NoMetadata == << >>
Tunable(value) == 1 :> [default |-> value, mandatory |-> FALSE, permitted |-> Values]
Needed == 1 :> [default |-> "plan", mandatory |-> TRUE, permitted |-> {"plan"}]
Dotted == 2 :> [default |-> "default", mandatory |-> FALSE, permitted |-> Values]

Rule(id, procedure_, metadata) ==
    [id |-> id, ruleName |-> "rule", procedure |-> procedure_, metadata |-> metadata]

Document(identity, version, resources) ==
    [identity |-> identity, applicable |-> TRUE, version |-> version,
     resources |-> resources]

\* What may be found on disk.  All rules share the engine rule name "rule".
First == Document("cis", <<1, 0, 0>>,
                  <<Rule("a", Full, Tunable("default")), Rule("b", Plain, NoMetadata)>>)
Second == Document("stig", <<1, 0, 0>>, <<Rule("a", Plain, NoMetadata)>>)

MCDocuments ==
    {First, Second,
     \* another default, and parameters of two rules that are spelled alike
     Document("cis", <<1, 1, 0>>, <<Rule("a", Full, Tunable("plan") @@ Dotted),
                                    Rule("b", Plain, Tunable("plan"))>>),
     [First EXCEPT !.version = <<2, 0, 0>>],
     [First EXCEPT !.resources = <<@[2]>>],
     [Second EXCEPT !.applicable = FALSE],
     [Second EXCEPT !.resources = <<Rule("a", Refused, NoMetadata), Rule("b", Full, Needed)>>]}

MCSpelling == [p \in Ids \X Keys |-> IF p \in {<<"a", 2>>, <<"b", 1>>} THEN <<"a", 2>> ELSE p]

Mode(m, parameters) == [mode |-> m, parameters |-> parameters]
NoParameters == << >>

Block(name, constraint, asked) ==
    [file |-> name, version |-> <<1, 0, 0>>, constraint |-> constraint, rules |-> asked]

\* Plans as users edit them.
MCPlans ==
    LET set == 1 :> "plan"
    IN  {<<Block("f", "^", ("a" :> Mode(m, p) @@ "b" :> Mode(n, NoParameters))),
           Block("g", "~", ("a" :> Mode(o, NoParameters)))>> :
              m \in {"audit", "remediate"}, n \in {"audit", "enforce"},
              o \in {"audit", "remediate"}, p \in {NoParameters, set}}
        \cup {<<Block("f", "=", ("a" :> Mode("remediate", set))),
                Block("g", "^", ("a" :> Mode("audit", NoParameters) @@ "b" :> Mode("audit", set)))>>,
              <<Block("f", "^", << >>), Block("g", "^", << >>)>>,
              <<Block("f", "^", << >>), Block("h", "^", << >>)>>}

OldPlan ==
    <<Block("f", "^", ("a" :> Mode("remediate", NoParameters))),
      Block("g", "^", ("a" :> Mode("remediate", NoParameters)))>>

Flag(base, id, m) == [base |-> base, id |-> id, mode |-> m]
Param(base, selector, value) == [base |-> base, selector |-> selector, value |-> value]
Command(files, toggles, overrides) ==
    [files |-> files, toggles |-> toggles, overrides |-> overrides]

MCCommands ==
    {\* the last flag decides, in both directions
     Command(<<"f">>, <<Flag(None, "a", "remediate"), Flag(None, "a", "audit")>>, << >>),
     Command(<<"f">>, <<Flag(None, "a", "audit"), Flag(None, "b", "remediate"),
                        Flag(None, "a", "remediate")>>, <<Param(None, <<"a", 1>>, "plan")>>),
     \* a selector that is unknown or ambiguous, depending on the definition
     Command(<<"f">>, << >>, <<Param(None, <<"a", 2>>, "plan")>>),
     \* two files; a value that is invalid until it is overridden again
     Command(<<"f", "g">>, <<Flag("x", "a", "remediate"), Flag("y", "a", "audit")>>,
             <<Param("x", <<"a", 1>>, "plan")>>),
     Command(<<"f", "g">>, <<Flag("y", "b", "remediate")>>,
             <<Param("y", <<"a", 2>>, "default"), Param("y", <<"a", 2>>, "plan")>>),
     \* a value that the parameter of rule b does not permit
     Command(<<"g">>, << >>, <<Param(None, <<"a", 2>>, "default")>>),
     \* refused: no qualifier, a qualifier, one file twice, two files of one name
     Command(<<"f", "g">>, <<Flag(None, "a", "remediate")>>, << >>),
     Command(<<"f">>, <<Flag("x", "a", "remediate")>>, << >>),
     Command(<<"f", "h">>, << >>, << >>),
     Command(<<"g", "k">>, <<Flag("y", "a", "remediate")>>, << >>)}

MCSessions ==
    {[old |-> p, command |-> None] : p \in MCPlans}
        \cup {[old |-> p, command |-> c] : p \in {<< >>, OldPlan}, c \in MCCommands}

MCRealpath == [f \in Files |-> IF f = "h" THEN "f" ELSE f]
MCBasename == [f \in Files |-> IF f \in {"g", "k"} THEN "y" ELSE IF f = "f" THEN "x" ELSE "h"]
=============================================================================
