\* Two commands race for names that the server's filter takes for the same; c2's
\* blueprint is brownfield.
SPECIFICATION Spec
CONSTANTS
    c1 = c1
    c2 = c2
    n1 = n1
    n2 = n2
    NoApp = NoApp
    Command = {c1, c2}
    Name = {n1, n2}
    Unnamed = {}
    NameOf <- TwoNames
    Matches <- AnyName
    Brownfield = {c2}
    Watching = {c1, c2}
    MaxPolls = 2
    MaxWatchPolls = 1
INVARIANTS
    TypeOK
    NoBlueprintLeftByReturn
    WatchesNoOlderApp
PROPERTIES
    PatientCleanup
    CommandsEnd
    KeepsLaunchContract
