SPECIFICATION Spec
CONSTANTS
    p = p
    q = q
    A = A
    B = B
    go = go
    js = js
    Patterns = {p, q}
    BadPattern = BadPattern
    NoPattern = NoPattern
    MatchString <- MCMatchString
    Ids = {A, B}
    Languages = {go, js}
    AnyLanguage = AnyLanguage
    HeaderLines = 2
    RuleDirs <- MCRuleDirs
    TestDirs <- MCTestDirs
    FileSets <- MCFileSets
INVARIANTS
    FindingsExact
    VerdictRight
    TestsExitRight
CHECK_DEADLOCK FALSE
