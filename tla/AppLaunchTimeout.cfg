\* One command; the launch is still running when its polls are spent.
SPECIFICATION Spec
CONSTANTS
    c1 = c1
    c2 = c2
    n1 = n1
    n2 = n2
    NoApp = NoApp
    Command = {c1}
    Name = {n1}
    Unnamed = {}
    NameOf <- OneName
    Matches <- AnyName
    Brownfield = {}
    Watching = {c1}
    MaxPolls = 2
    MaxWatchPolls = 1
INVARIANTS
    FalseMeansLaunchFailed
