\* A delete command with two names and an action that is watched, on two
\* applications of the same name and a system application.
SPECIFICATION Spec
CONSTANTS
    web = web
    web2 = web2
    sys = sys
    nWeb = nWeb
    nWeb2 = nWeb2
    del = del
    act = act
    NoApp = NoApp
    App = {web, web2, sys}
    Name = {nWeb, nWeb2}
    NameOf <- Duplicates
    Matches <- Exact
    SystemApp = {sys}
    Command = {del, act}
    Deleter = {del}
    AllItems = {}
    Names <- Given
    NTask = 2
    MaxPolls = 2
INVARIANTS
    TypeOK
    ReportIsTrue
PROPERTIES
    CommandsEnd
