-------------------------------- MODULE Plan --------------------------------
(***************************************************************************)
(* Benchmark definitions and plans of kompli, and the checks that both     *)
(* `kompli plan` and `kompli run` make on them (kompli/Plan.cpp,           *)
(* benchmarkio/BenchmarkDefinition.cpp).                                   *)
(***************************************************************************)
EXTENDS Engine, Sequences

CONSTANTS
    Documents,      \* the definitions that may be found in a file
    Ids, Files, Identities,
    Realpath        \* what a file name resolves to

Modes == {"audit", "remediate", "enforce"}

Version == Nat \X Nat \X Nat                \* MAJOR.MINOR.PATCH

\* permitted: the values that match the validation expression.
ParameterMetadata ==
    UNION {[D -> [default : Values, mandatory : BOOLEAN, permitted : SUBSET Values]] :
                D \in SUBSET Keys}

\* A rule of a definition.  Its init payload and desired value are absent.
ResourceType ==
    [id : Ids, ruleName : Rules, procedure : Procedures, metadata : ParameterMetadata]

\* A parsed definition: ids are unique and there is at least one rule.
IsDocument(d) ==
    /\ DOMAIN d = {"identity", "applicable", "version", "resources"}
    /\ d.identity \in Identities
    /\ d.applicable \in BOOLEAN             \* for the distribution of this host
    /\ d.version \in Version
    /\ d.resources \in Seq(ResourceType) /\ d.resources # << >>
    /\ \A m, n \in DOMAIN d.resources :
        d.resources[m].id = d.resources[n].id => m = n

RuleMode == [mode : Modes, parameters : ProcedureParameters]

PlanBenchmark ==
    [file : Files, version : Version, constraint : {"^", "~", "="},
     rules : UNION {[D -> RuleMode] : D \in SUBSET Ids}]

ASSUME PlanAssumption ==
    /\ \A d \in Documents : IsDocument(d)
    /\ Realpath \in [Files -> Files]

-----------------------------------------------------------------------------
(***************************************************************************)
(* CheckUniqueBenchmarkFiles: no file is named twice, under any name.      *)
(***************************************************************************)
UniqueFiles(files) ==
    \A m, n \in DOMAIN files : Realpath[files[m]] = Realpath[files[n]] => m = n

(***************************************************************************)
(* ValidateParameters.                                                     *)
(***************************************************************************)
ValidParameters(metadata, parameters) ==
    /\ \A k \in DOMAIN metadata : metadata[k].mandatory => k \in DOMAIN parameters
    /\ \A k \in DOMAIN parameters :
        k \in DOMAIN metadata /\ parameters[k] \in metadata[k].permitted

\* CompareContentVersion
AtLeast(v, w) ==
    \/ v[1] > w[1]
    \/ v[1] = w[1] /\ v[2] > w[2]
    \/ v[1] = w[1] /\ v[2] = w[2] /\ v[3] >= w[3]

Satisfies(version, benchmark) ==
    /\ AtLeast(version, benchmark.version)
    /\ benchmark.constraint = "^" => version[1] = benchmark.version[1]
    /\ benchmark.constraint = "~" => /\ version[1] = benchmark.version[1]
                                     /\ version[2] = benchmark.version[2]
    /\ benchmark.constraint = "=" => version = benchmark.version

(***************************************************************************)
(* One block of ValidatePlanForRun.                                        *)
(***************************************************************************)
ValidBlock(benchmark, document) ==
    /\ document.applicable
    /\ Satisfies(document.version, benchmark)
    /\ \A id \in DOMAIN benchmark.rules : \E n \in DOMAIN document.resources :
        /\ document.resources[n].id = id
        /\ ValidParameters(document.resources[n].metadata, benchmark.rules[id].parameters)
=============================================================================
