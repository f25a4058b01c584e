SPECIFICATION EnrollSpec
CONSTANTS
    ann = ann
    ben = ben
    Photos <- SomePhotos
    Hash <- HashOf
    MaxRuns = 2
INVARIANT EnrolledOnce
INVARIANT NamesKnown
CHECK_DEADLOCK FALSE
