CONSTANTS
    Artifacts <- MCArtifacts
    Specs <- MCSpecs
    Counts = {0, 1, 3}
    MaxRelease = 2
    None = None
SPECIFICATION FairHarness
INVARIANTS HashesTheFirst DifferenceExplained AgreementIsEarned PanicsOnlyAtZero FetchColumn
PROPERTY Ends
CHECK_DEADLOCK FALSE
