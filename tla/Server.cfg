SPECIFICATION Spec
CONSTANTS
    MaxStarts = 1
    NoDocument = NoDocument
    Unreadable = Unreadable
    NaN = NaN
    Documents <- SampleDocuments
INVARIANT TypeOK
INVARIANT ConfigAsWritten
INVARIANT ConfigFits
INVARIANT ThresholdsUsable
INVARIANT LivePipelineNotKilled
INVARIANT ExitIsClean
PROPERTY ShutdownServed
CHECK_DEADLOCK FALSE
