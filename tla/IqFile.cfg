SPECIFICATION Spec
CONSTANTS
    Period = 3
    SfLen = 4
    SampleBytes = 2
    AnswerSamples = 5
    MaxRuns = 3
    MaxSubframes = 8
CHECK_DEADLOCK FALSE
INVARIANTS TypeOK AnswerFromOneRun
PROPERTIES CaptureIsRecent
