SPECIFICATION Spec
CONSTANTS
    Requests = {r1}
    Tests = {t}
    Captures <- MCCaptures
    TestCapture <- MCTest
    Urls = {"u1", "u2"}
    Names = {"a", "A"}
    Folded <- MCFolded
    Batches <- MCBatches
    MaxIndex = 4
    MaxJobs = 3
    None = None
CHECK_DEADLOCK FALSE
INVARIANTS PathsAreDisjoint RunningKeepsItsPart AnswerIsTrue
PROPERTY NoPromptIsAbandoned
