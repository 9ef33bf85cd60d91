---------------------------- MODULE MCCompilation ----------------------------
(* Instance of Compilation for TLC. *)
EXTENDS Compilation

\* Every kind of block with every other, empty blocks included; branches
\* inside branches; decisions and loops inside one another; joins.
Grammar ==
    {[tasks |-> 3, depth |-> 1, words |-> {"together", "parallel", "decision", "loop", "pass"}],
     [tasks |-> 5, depth |-> 2, words |-> {"parallel"}],
     [tasks |-> 4, depth |-> 3, words |-> {"decision", "loop"}],
     [tasks |-> 4, depth |-> 1, words |-> {"together"}],
     [tasks |-> 4, depth |-> 2, words |-> {"parallel", "decision", "loop"}],
     [tasks |-> 2, depth |-> 2, words |-> {"together", "parallel", "decision", "loop", "pass"}]}

Over(word, name, block) ==
    <<Line(0, word, name, 0)>>
    \o IF block = <<>> THEN <<Line(1, "pass", 0, 0)>>
       ELSE [i \in DOMAIN block |-> [block[i] EXCEPT !.indent = @ + 1]]

\* Bodies(lo, hi, d, words): the bodies of the tasks lo..hi, nested at most d
\* deep, of the kinds in words; "pass" lets a block hold no task.
RECURSIVE Bodies(_, _, _, _)
Bodies(lo, hi, d, words) ==
    IF lo > hi THEN {<<>>}
    ELSE LET Blocks(l, h) == IF l > h /\ "pass" \notin words THEN {} ELSE Bodies(l, h, d - 1, words)
             Pairs(l, h) == UNION {Blocks(l, k) \X Blocks(k + 1, h) : k \in (l - 1) .. h}
             Tasks(l, h) == [k \in 1 .. (h - l + 1) |-> Line(0, "task", l + k - 1, 0)]
             Item(word, h) ==
                 CASE word = "together" -> {Over("together", 0, Tasks(lo, h))}
                   [] word = "parallel" ->
                          {Over("parallel", 0, Over("branch", 0, b)) : b \in Blocks(lo, h)}
                          \cup {Over("parallel", 0, Over("branch", 0, p[1]) \o Over("branch", 0, p[2])) :
                                    p \in Pairs(lo, h)}
                   [] word = "loop" -> {Over("loop", lo, b) : b \in Blocks(lo + 1, h)}
                   [] word = "decision" ->
                          {Over("decision", lo, Over("if", 0, p[1]) \o Over("else", 0, p[2])) :
                              p \in Pairs(lo + 1, h)}
             Item1(h) == (IF h = lo THEN {Tasks(lo, lo)} ELSE {})
                         \cup UNION {Item(word, h) : word \in IF d = 0 THEN {} ELSE words \ {"pass"}}
         IN UNION {{i \o b : i \in Item1(h), b \in Bodies(h + 1, hi, d, words)} : h \in lo .. hi}

Programs == UNION {UNION {Bodies(1, n, g.depth, g.words) : n \in 1 .. g.tasks} : g \in Grammar}

\* Account A with two clusters and two VPCs, account B with one of each; all
\* subnets have one of two names, and the clusters of A and B share one.
Cluster(uuid, name, account, pe) == [uuid |-> uuid, name |-> name, account |-> account, pe |-> pe]
Vpc(uuid, name, account) == [uuid |-> uuid, name |-> name, account |-> account]
Subnet(uuid, name, account, cluster, vpc) ==
    [uuid |-> uuid, name |-> name, account |-> account, cluster |-> cluster, vpc |-> vpc]

Base ==
    [subnets |-> {Subnet("s1", "vlan", "A", "k1", None), Subnet("s2", "vlan", "A", "k2", None),
                  Subnet("s3", "net", "A", None, "v1"), Subnet("s4", "net", "A", None, "v2"),
                  Subnet("s5", "vlan", "B", "k3", None), Subnet("s6", "net", "B", None, "v3")},
     clusters |-> {Cluster("k1", "east", "A", "p1"), Cluster("k2", "west", "A", "p2"),
                   Cluster("k3", "east", "B", "p3")},
     vpcs |-> {Vpc("v1", "one", "A"), Vpc("v2", "two", "A"), Vpc("v3", "one", "B")},
     project |-> <<"A", "B">>,
     projectAllows |-> {"k1", "k2", "k3", "v1", "v2", "v3", "s1", "s2", "s3", "s4", "s5"},
     environment |-> <<"B">>,
     environmentAllows |-> {"s5", "s6"},
     listed |-> {"A", "B", "p1", "p2", "p3"}]

\* Clusters, VPCs and VLANs have exchanged their names.
Renamed ==
    [Base EXCEPT
        !.clusters = {Cluster("k1", "west", "A", "p1"), Cluster("k2", "east", "A", "p2"),
                      Cluster("k3", "east", "B", "p3")},
        !.vpcs = {Vpc("v1", "two", "A"), Vpc("v2", "one", "A"), Vpc("v3", "one", "B")},
        !.subnets = {Subnet("s1", "vlan", "A", "k1", None), Subnet("s2", "net", "A", "k2", None),
                     Subnet("s3", "vlan", "A", None, "v1"), Subnet("s4", "net", "A", None, "v2"),
                     Subnet("s5", "net", "B", "k3", None), Subnet("s6", "net", "B", None, "v3")}]

\* A cluster without an account, a subnet withdrawn, less allowed, and the
\* accounts of clusters not in the cache.
Withdrawn ==
    [Base EXCEPT
        !.clusters = {Cluster("k1", "east", "A", "p1"), Cluster("k2", "west", "A", None),
                      Cluster("k3", "east", "B", "p3")},
        !.subnets = {Subnet("s1", "vlan", "A", "k1", None), Subnet("s2", "vlan", "A", "k2", None),
                     Subnet("s3", "net", "A", None, "v1"), Subnet("s6", "net", "B", None, "v3"),
                     Subnet("s7", "vlan", "A", None, None)},
        !.projectAllows = {"k1", "k3", "v1", "s1", "s3", "s7"},
        !.environment = <<"A">>, !.environmentAllows = {"s1", "s3"},
        !.listed = {"A", "B", "p1"}]

Unlisted == [Base EXCEPT !.listed = {"A", "B"}, !.project = <<"B", "A">>]

Worlds == {Base, Renamed, Withdrawn, Unlisted}

Nic(subnet, cluster, vpc) == [subnet |-> subnet, cluster |-> cluster, vpc |-> vpc]
Nics ==
    {Nic("vlan", None, None), Nic("vlan", "east", None), Nic("vlan", "west", None),
     Nic("net", None, None), Nic("net", None, "one"), Nic("net", None, "two"),
     Nic(Macro, None, None), Nic(Macro, "east", None), Nic("vlan", "east", "one")}

Machines ==
    [home : {"project", "environment"}, account : {None, "A", "B"},
     cluster : {None, [name |-> Macro, account |-> None], [name |-> "east", account |-> None],
                [name |-> "west", account |-> None], [name |-> "west", account |-> "A"]},
     nics : {<<n>> : n \in Nics} \cup Nics \X Nics]
=============================================================================
