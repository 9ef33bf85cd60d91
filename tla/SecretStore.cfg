\* Two processes, two secrets; an interrupted create, a repair and a find fit
\* in four commands, and so do two creators, an update and a find.
SPECIFICATION Spec
CONSTANTS
    NoName = NoName
    NoValue = NoValue
    Process = {p1, p2}
    Name = {n1, n2}
    Value = {v1, v2}
    MaxOps = 4
SYMMETRY Symmetry
INVARIANTS ValuesBelong EmptyMeansInterrupted
PROPERTY FindsLatest
