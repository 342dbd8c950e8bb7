SPECIFICATION FairSpec
CONSTANTS
    Subjects = {u1, u2}
    Callers = {c1, c2, c3}
    MaxTokens = 2
    Skew = 1
    DefaultLife = 3
    Lifetimes = {0, 2}
    MaxDelay = 1
    MaxTime = 2
    ClearsOnClose = TRUE
    None = None
INVARIANTS TypeOK TokensStayWithTheirSubject
PROPERTIES CallersShareFetches ReturnedTokensAreLive EveryCallerAnswered
CHECK_DEADLOCK FALSE
