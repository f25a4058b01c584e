SPECIFICATION FairSpec
CONSTANTS
    Ids = {cam1, cam2}
    Callers = {rest, grpc}
    None = none
    MaxStreams = 2
    MaxAdds = 2
    MaxStarts = 2
INVARIANT TypeOK
INVARIANT QuietWhenJoined
INVARIANT LoopIffRunning
INVARIANT NoLoopLeak
INVARIANT RegistryCoherent
INVARIANT FreshPad
INVARIANT SourcesPlayUnlessOvertaken
INVARIANT QuietUnlessOvertaken
PROPERTY ImplementsSourceSet
PROPERTY StopEndsRun
CHECK_DEADLOCK FALSE
