SPECIFICATION Spec
CONSTANTS
    NInputs = 3
    Groups <- MCGroups
    Values = {0, 1}
    NoNode = NoNode
    Configured <- MixedMap
    ConfigTrim <- MCTrim
    MaxEdits = 3
    MaxWrites = 1
    MaxBacklog = 6
INVARIANT ProposalsCover
INVARIANT NeverDoubleRouted
INVARIANT RoutedWhenDrained
PROPERTY ImplementsInputMapping
INVARIANT SetsLand
PROPERTY ValuesFollowSource
