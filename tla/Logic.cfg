SPECIFICATION Spec
CONSTANTS
    MaxLines = 4
    MaxRows = 5
    MaxItems = 3
INVARIANTS
    ReportIsShownOnce ProjectsHaveColumns
    QuestionFits RecordsAreOwnAndLatest SamplesAreMerged
CHECK_DEADLOCK FALSE
