---------------------------- MODULE MCAdministration ----------------------------
(* Instances of Administration for TLC. *)
EXTENDS Administration, TLC

CONSTANTS u1, u2, q1, q2, r1, s1, s2, n1, n2, e1, e2

Project == [op |-> "deleteProject", users |-> {}, quota |-> NoQuota, force |-> FALSE,
            env |-> FALSE, append |-> FALSE, role |-> r1, add |-> {}, remove |-> {}]

ProjectRequests ==
    {Project}
    \cup {[Project EXCEPT !.op = "createProject", !.users = {u1}, !.quota = q, !.force = (q = q1),
                          !.env = (q = NoQuota)] : q \in {q1, NoQuota}}
    \cup {[Project EXCEPT !.op = "updateProject", !.users = {u1}, !.quota = q,
                          !.append = (q = NoQuota)] : q \in {q2, NoQuota}}
    \cup {[Project EXCEPT !.op = "switches", !.remove = {u1}]}
    \cup {[Project EXCEPT !.op = "createAcp", !.add = {u2}]}
    \cup {[Project EXCEPT !.op = "updateAcp", !.add = {u1}, !.remove = {u2}]}
    \cup {[Project EXCEPT !.op = o] : o \in {"deleteAcp", "createEnv", "deleteEnv"}}

MarketItem == [op |-> "delete", version |-> 1, kind |-> "blueprint", all |-> FALSE, places |-> {}, drop |-> {}, then |-> "nothing"]

MarketRequests ==
    {MarketItem}
    \cup {[MarketItem EXCEPT !.op = o, !.version = v, !.then = t] :
             o \in Publication, v \in {1, 2}, t \in {"nothing", "publish"}}
    \cup {[MarketItem EXCEPT !.op = "existing", !.version = 2, !.places = {s2}, !.then = "approve"]}
    \cup {[MarketItem EXCEPT !.op = o, !.version = 0, !.places = {s1}] : o \in {"approve", "publish"}}
    \cup {[MarketItem EXCEPT !.op = "approve", !.places = {s2}, !.drop = {s1}]}
    \cup {[MarketItem EXCEPT !.op = o, !.places = {s1}] : o \in {"update", "unpublish"}}
    \cup {[MarketItem EXCEPT !.op = "reject"]}
    \cup {[MarketItem EXCEPT !.op = o, !.version = 1, !.kind = "runbook"] : o \in Publication}
    \cup {[MarketItem EXCEPT !.op = "approve", !.kind = "runbook"]}
    \cup {[MarketItem EXCEPT !.op = "unpublish", !.kind = "any"]}
    \cup {[MarketItem EXCEPT !.op = "unpublish", !.version = 0, !.all = TRUE]}

CatalogueRequests ==
    {[op |-> "createEntity", names |-> {n1}, force |-> f, rename |-> {}] : f \in BOOLEAN}
    \cup {[op |-> "updateEntity", names |-> {n1}, force |-> FALSE, rename |-> n] : n \in {{}, {n2}}}
    \cup {[op |-> "deleteEntities", names |-> {n1, n2}, force |-> FALSE, rename |-> {}]}

AccountRequests ==
    {[op |-> o, edition |-> e2, force |-> f] : o \in AccountOp, f \in BOOLEAN}

TunnelRequests == [op : TunnelOp]

(* The tables one by one, with two entities in each, or two of which one     *)
(* looks something up in the other; for some, one entity where NDB is not   *)
(* enabled, or three, which are more than a page.  The second of two        *)
(* environments has no project, the second of two clusters no account.     *)
Pairs == {{"directory_service", "user"}, {"directory_service", "user_group"},
          {"ndb_timemachine", "ndb_snapshot"}}

CacheFocus ==
    {<<{t}, 2, 2>> : t \in Table \ UNION Pairs}
    \cup {<<p, 2, IF "ndb_snapshot" \in p THEN 2 ELSE 1>> : p \in Pairs}
    \cup {<<{"ndb_timemachine", "ndb_snapshot"}, 1, 1>>, <<{"project"}, 1, 1>>, <<{"project"}, 3, 3>>}
    \cup {<<{t}, 3, 1>> : t \in {"account", "ahv_vpc", "ahv_subnet", "user_group", "ndb_sla"}}

CacheServers ==
    {[enabled |-> f[1], stratos |-> f[2] # 1, accounts |-> 1..f[3],
      bare |-> IF f[1] \cap {"ahv_cluster", "environment"} = {} THEN {} ELSE {2},
      held |-> [t \in f[1] |->
                  {[id |-> k, under |-> IF k > f[3] /\ Syncs[t].by # "none" THEN 1 ELSE k] : k \in 1..f[2]}]
               @@ [t \in Table \ f[1] |-> {}]] :
       f \in CacheFocus}

CacheRequests ==
    {[op |-> "updateCache", tables |-> <<>>]}
    \cup {[op |-> "syncTables", tables |-> <<t>>] : t \in Table}
    \cup {[op |-> "syncTables",
           tables |-> <<"account", "ahv_disk_image", "ahv_cluster", "ahv_vpc", "ahv_subnet">>]}

(* Bound: the first command is always the same administrator's.  Nothing    *)
(* tells administrators apart, so that this loses no behaviour.            *)
FirstBegins == started = 1 => request[CHOOSE a \in Admin : TRUE] # NoRequest
===============================================================================
