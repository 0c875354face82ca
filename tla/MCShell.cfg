CONSTANTS
    MaxTokens = 5
    FewTokens = 3
    Inputs <- MCInputs
    MAXARGS = 3
    MAXN = 800
    NPROC = 7
SPECIFICATION Spec
INVARIANTS ParsesTheGrammar LineIsDone
CHECK_DEADLOCK FALSE
