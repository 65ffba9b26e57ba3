CONSTANTS
    OutputCount = 4
    IdleWindow = 3
    Timeout = 6
SPECIFICATION FairSpec
INVARIANTS TypeOK EmptyIsEmpty PromptReplyIsWhole RebootSurvivesDrop
PROPERTIES CommandEnds
CHECK_DEADLOCK FALSE
