SPECIFICATION Spec
CONSTANTS
    Routers = {r1, r2}
    Used = {r1}
    Groups = {g1}
    Master = master
    Generator = generator
    Routing = routing
    Spatial = spatial
    Output = output
    MaxAttempts = 3
    MaxLives = 2
INVARIANT GraphOwned
INVARIANT GraphOnReturn
 
CHECK_DEADLOCK FALSE
