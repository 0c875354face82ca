SPECIFICATION Spec
CONSTANTS
    r1 = r1
    r2 = r2
    Reader <- MCReader
    INPUT_BUF = 3
    MaxTyped = 8
    MaxRead = 2
SYMMETRY Symmetry
INVARIANTS
    RingHoldsInput
    NoSleepWithInput
PROPERTY
    EofReadAlone
\* Nobody has to type while the readers sleep.
CHECK_DEADLOCK FALSE
