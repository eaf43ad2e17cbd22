SPECIFICATION Spec
CONSTANTS
    Letters = {a, b}
    Modifiers = {shift}
    Buttons = {left}
    Limit = 2
    MaxStrokes = 3
    MaxToggles = 1
INVARIANT FollowsKeyboard
INVARIANT NoOrphanKey
INVARIANT LedsAgree
PROPERTY RepeatEnds
