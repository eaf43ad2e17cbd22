SPECIFICATION Spec
CONSTANTS
    NInputs = 3
    Groups <- MCGroups
    Values = {0, 1}
    NoNode = NoNode
    Configured <- MonoMap
    ConfigTrim <- MCTrim
    MaxEdits = 1
    MaxWrites = 1
    MaxBacklog = 0
INVARIANT PublishedIsHeard
