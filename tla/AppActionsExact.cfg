\* A delete command; the server's filter lets a second name through.
SPECIFICATION Spec
CONSTANTS
    web = web
    web2 = web2
    sys = sys
    nWeb = nWeb
    nWeb2 = nWeb2
    del = del
    act = act
    NoApp = NoApp
    App = {web, web2}
    Name = {nWeb, nWeb2}
    NameOf <- Distinct
    Matches <- Loose
    SystemApp = {}
    Command = {del}
    Deleter = {del}
    AllItems = {}
    Names <- GivenOne
    NTask = 2
    MaxPolls = 2
PROPERTIES
    ExactMatchIsUsed
