SPECIFICATION FairSpec
CONSTANTS
    Size = 4
    Rules <- MCRules
INVARIANTS RemediatesOnlyWhenAsked LastDecides StackIsPath SkippedLeavesDoNotMatter
PROPERTY Terminates
