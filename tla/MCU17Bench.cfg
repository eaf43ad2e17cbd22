SPECIFICATION Spec
CONSTANTS
    Base = 5
    XBase = 10
    SumEnd = 11
    Size = 15
    MarkHi = 3
    MarkLo = 2
    Payloads <- MCPayloads
    Template <- MCTemplate
    MaxLosses = 2
    Values = {0, 1, 2, 3, 6, 127, 128, 129, 251, 252, 255}
    Breaks = {good, failed}
    NBreaks = 2
    Limit = elsewhere
    Enough = 3
    MaxTalk = 2
    None = None
CHECK_DEADLOCK FALSE
INVARIANT VerdictsAgree
PROPERTY FrameLength
INVARIANT ReportIsTrue
