SPECIFICATION Spec
CONSTANTS
    MaxOps = 2
    MaxLosses = 2
    MaxBoots = 1
INVARIANTS ListMatches NothingForgotten
PROPERTY BootConverges
