CONSTANTS
    Rules = {"rule"}
    Keys = {1, 2}
    Values = {"default", "plan"}
    Procedures <- MCProcedures
    UserValues = {}
    NoProcedure = NoProcedure
    Documents <- MCDocuments
    Ids = {"a", "b"}
    Files = {"f", "g", "h", "k"}
    Identities = {"cis", "stig"}
    Realpath <- MCRealpath
    Basename <- MCBasename
    Spelling <- MCSpelling
    Sessions <- MCSessions
    None = None
    End = End
    Nul = Nul
    Unknown = Unknown
SPECIFICATION SpecSession
INVARIANTS
    ValidatedBeforeTouched EvaluatesThePlan CompleteResult OverallStatus
    RunsAWholePlan ChangesOnlyWhatWasAsked AcceptedIfUnchanged
CHECK_DEADLOCK FALSE
