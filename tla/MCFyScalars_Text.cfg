CONSTANTS
    Width = 3
    Step = 2
    Texts <- MCTexts
    Values <- MCValues
SPECIFICATION Spec
INVARIANTS
    ScansRight
    HintsRight
    RoundTrip
CHECK_DEADLOCK FALSE
