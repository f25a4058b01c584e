SPECIFICATION Spec
CONSTANTS
    Ids = {cam1}
    Callers = {rest}
    None = none
    MaxStreams = 1
    MaxAdds = 1
    MaxStarts = 1
INVARIANT SourcesPlay
CHECK_DEADLOCK FALSE
