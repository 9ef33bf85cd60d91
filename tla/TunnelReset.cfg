\* One administrator; a reset of a tunnel whose task outlasts its poll.
SPECIFICATION AdministrationSpec
CONSTANTS
    Admin = {a1}
    MaxOps = 2
    u1 = u1
    u2 = u2
    q1 = q1
    q2 = q2
    r1 = r1
    s1 = s1
    s2 = s2
    n1 = n1
    n2 = n2
    e1 = e1
    e2 = e2
    User = {u1, u2}
    Role = {r1}
    Quota = {q1, q2}
    NoQuota = NoQuota
    Place = {s1, s2}
    DefaultPlace = s1
    MemberCount = 2
    Name = {n1, n2}
    Edition = {e1, e2}
    ProjectRequest <- ProjectRequests
    MarketRequest <- MarketRequests
    CatalogueRequest <- CatalogueRequests
    AccountRequest <- AccountRequests
    TunnelRequest <- TunnelRequests
    CacheRequest <- CacheRequests
    CacheServer <- CacheServers
    PageLen = 2
    AccountLength = 1
PROPERTY DeletesOnlyTheOldApp
