CONSTANTS
    Rules = {"Object"}
    Keys = {1, 2}
    Values = {"default", "user"}
    Procedures <- MCProcedures
    UserValues <- MCUserValues
    Resources <- MCResources
    FailValue <- MCFailValue
    NoProcedure = NoProcedure
    Absent = Absent
    NameOnly = NameOnly
    NoReport = NoReport
    Nothing = Nothing
    Platform = Platform
SPECIFICATION Spec
INVARIANTS CompliantMeansAudited OwnParameters RemediatesAsAsked ResultOfThisRead
