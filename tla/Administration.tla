----------------------------- MODULE Administration -----------------------------
(***************************************************************************)
(* The commands by which administrators look after a server: projects, the  *)
(* marketplace, named entities, accounts, network tunnels and the tables of *)
(* the local cache.  What one area keeps no command of another changes, so  *)
(* a behaviour stays in one.                                               *)
(***************************************************************************)
EXTENDS Projects, Marketplace, Catalogue, Accounts, NetworkTunnels, CacheTables

VARIABLE area    \* what the administrators of this behaviour work on

administrationVars ==
    <<area, projectOwn, marketOwn, catalogueOwn, accountOwn, tunnelOwn, cacheOwn, admins>>

Areas == {"projects", "marketplace", "catalogue", "accounts", "tunnels", "cache"}

(* Of the area at work; the others stay as they were.                       *)
AdministrationTypeOK ==
    /\ area \in Areas
    /\ CASE area = "projects" -> ProjectsTypeOK /\ AdminsTypeOK(ProjectStage, ProjectRequest)
         [] area = "marketplace" -> MarketplaceTypeOK /\ AdminsTypeOK(MarketStage, MarketRequest)
         [] area = "catalogue" -> CatalogueTypeOK /\ AdminsTypeOK(CatalogueStage, CatalogueRequest)
         [] area = "accounts" -> AccountsTypeOK /\ AdminsTypeOK(AccountStage, AccountRequest)
         [] area = "tunnels" -> TunnelsTypeOK /\ AdminsTypeOK(TunnelStage, TunnelRequest)
         [] area = "cache" -> CacheTypeOK /\ AdminsTypeOK(CacheStage, CacheRequest)

(* What an area keeps when it is not worked on.                             *)
AdministrationInit ==
    /\ AdminsInit
    /\ area \in Areas
    /\ ProjectsStart /\ (area # "projects" => projects = {})
    /\ MarketplaceStart /\ (area # "marketplace" => items = {})
    /\ CatalogueStart /\ (area # "catalogue" => entities = {} /\ kind = "task")
    /\ AccountsStart /\ (area # "accounts" => parts = {} /\ nature = "other")
    /\ TunnelsStart /\ (area # "tunnels" => tunnelApp = {})
    /\ CacheStart /\ (area # "cache" => cacheServer = CHOOSE s \in CacheServer : TRUE)

-----------------------------------------------------------------------------
(* One area moves, the others stay as they are.                             *)
InProjects(step) ==
    area = "projects" /\ step /\ UNCHANGED <<area, marketOwn, catalogueOwn, accountOwn, tunnelOwn, cacheOwn>>

InMarketplace(step) ==
    area = "marketplace" /\ step /\ UNCHANGED <<area, projectOwn, catalogueOwn, accountOwn, tunnelOwn, cacheOwn>>

InCatalogue(step) ==
    area = "catalogue" /\ step /\ UNCHANGED <<area, projectOwn, marketOwn, accountOwn, tunnelOwn, cacheOwn>>

InAccounts(step) ==
    area = "accounts" /\ step /\ UNCHANGED <<area, projectOwn, marketOwn, catalogueOwn, tunnelOwn, cacheOwn>>

InTunnels(step) ==
    area = "tunnels" /\ step /\ UNCHANGED <<area, projectOwn, marketOwn, catalogueOwn, accountOwn, cacheOwn>>

InCache(step) ==
    area = "cache" /\ step
    /\ UNCHANGED <<area, projectOwn, marketOwn, catalogueOwn, accountOwn, tunnelOwn>>

(* A command is started, goes on, and the server ends a task.               *)
AdministrationBegin(a) ==
    \/ InProjects(ProjectBegin(a))
    \/ InMarketplace(MarketBegin(a))
    \/ InCatalogue(CatalogueBegin(a))
    \/ InAccounts(AccountBegin(a))
    \/ InTunnels(TunnelBegin(a))
    \/ InCache(CacheBegin(a))

AdministrationWork(a) ==
    \/ InProjects(ProjectWork(a))
    \/ InMarketplace(MarketWork(a))
    \/ InCatalogue(CatalogueWork(a))
    \/ InAccounts(AccountWork(a))
    \/ InTunnels(TunnelWork(a))
    \/ InCache(CacheWork(a))

ServerStep ==
    \/ InProjects(TaskEnds)
    \/ InCatalogue(DeletionEnds)
    \/ InTunnels(SetupEnds \/ RemovalEnds \/ AppEnds)

AdministrationFinished ==
    /\ Quiet
    /\ Exhausted \/ (area = "projects" /\ complained # {})
    /\ UNCHANGED administrationVars

AdministrationNext ==
    \/ \E a \in Admin : AdministrationBegin(a) \/ AdministrationWork(a)
    \/ ServerStep
    \/ AdministrationFinished

(* A command goes on by itself; nothing makes a task of the server end.    *)
AdministrationFairness == \A a \in Admin : WF_administrationVars(AdministrationWork(a))

AdministrationSpec ==
    AdministrationInit /\ [][AdministrationNext]_administrationVars /\ AdministrationFairness
=============================================================================
