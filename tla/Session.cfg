SPECIFICATION Spec
CONSTANTS
    NONE = NONE
    s1 = s1
    s2 = s2
    tcp = tcp
    Specs = {s1, s2}
    SpecOf <- MCSpecOf
    Blocks = {0, 1}
    MaxVersion = 2
    MaxPasses = 3
INVARIANTS
    AnswerCoherent
    FactsCurrent
PROPERTY
    NoSilentRetrack
