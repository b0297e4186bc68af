SPECIFICATION Spec
CONSTANTS
    a = a
    b = b
    c = c
    gen = gen
    Paths = {a, b, c}
    WalkOrder <- MCWalkOrder
    Prefixes = {gen}
    NoPrefix = NoPrefix
    DefaultThreshold = 4
    Lines <- MCLines
    Configs <- MCConfigs
    Scenes <- MCScenes
INVARIANTS
    
    ExitExplained
    ErrorsMatchVerdict
CHECK_DEADLOCK FALSE
