------------------------------- MODULE Placement -------------------------------
(***************************************************************************)
(* Where an AHV virtual machine of a blueprint is put: its Prism Central    *)
(* account, the account of the cluster that serves it, the cluster and the  *)
(* subnets of its NICs.  Compilation finds them by name in the tables of    *)
(* the local cache (compile of SubstrateType, AhvVmType, AhvNicType,        *)
(* AhvClusterType, AhvVpcType and of the Ref classes), decompilation turns  *)
(* the identities of the payload into names again (decompile of the Ref     *)
(* classes, render_substrate_template, render_ahv_vm_nic), and the text     *)
(* that gives is compiled in turn.  The server may rename or withdraw things *)
(* between two of these commands, and the cache follows.                    *)
(*                                                                         *)
(* The file defines no spec of its own in YAML and no environment; disks,   *)
(* function chains and guest customization are left out.                    *)
(***************************************************************************)
EXTENDS Naturals, SequencesExt

CONSTANTS
    None,       \* nothing given, or nothing there
    Macro,      \* a name that the server fills in: @@{...}@@
    World,      \* what the server may have: see WorldAssumption
    Machine     \* how a machine may be written

\* The names of clusters and of VPCs are unique in an account, and those of
\* subnets in a cluster or a VPC: elsewhere the same name may come again.  A
\* subnet is in a cluster or in a VPC of its account.
ASSUME WorldAssumption ==
    \A w \in World :
        /\ \A t \in {w.subnets, w.clusters, w.vpcs} : \A r, q \in t :
               r.name \notin {None, Macro} /\ r.uuid \notin {None, Macro} /\ (r.uuid = q.uuid => r = q)
        /\ \A t \in {w.clusters, w.vpcs} : \A r, q \in t :
               r.name = q.name /\ r.account = q.account => r = q
        /\ \A r, q \in w.subnets :
               r.name = q.name /\ r.account = q.account /\ r.cluster = q.cluster /\ r.vpc = q.vpc => r = q
        /\ \A s \in w.subnets :
               /\ s.cluster # None => s.vpc = None
               /\ \A c \in w.clusters : c.uuid = s.cluster => c.account = s.account
               /\ \A v \in w.vpcs : v.uuid = s.vpc => v.account = s.account
        /\ w.project # <<>>
        /\ \A c \in w.clusters : [name |-> c.name, account |-> None] # None

\* What the server renames or withdraws stays where it is, and the account of
\* a cluster is below one account.
ASSUME ServerAssumption ==
    \A w, x \in World :
        /\ \A r \in w.subnets, q \in x.subnets : r.uuid = q.uuid =>
               r.account = q.account /\ r.cluster = q.cluster /\ r.vpc = q.vpc
        /\ \A c \in w.clusters, d \in x.clusters :
               /\ c.uuid = d.uuid => c.account = d.account /\ (c.pe = d.pe \/ None \in {c.pe, d.pe})
               /\ c.pe = d.pe /\ c.pe # None => c.account = d.account

\* The NICs of a machine are numbered.
ASSUME MachineAssumption == \A m \in Machine : DOMAIN m.nics \subseteq Nat

VARIABLES
    world,      \* what the server has, which the cache lists
    machine,    \* the machine as the user wrote it
    progress,   \* how far it has come
    spec,       \* the create_spec compiled from it
    rewritten,  \* the machine decompiled from that
    respec,     \* the create_spec compiled from that
    moves       \* history: the stages in which the server changed something

placementOwn == <<world, machine, progress, spec, rewritten, respec, moves>>

NoSpec == [pe |-> None, cluster |-> None, nics |-> <<>>]

-----------------------------------------------------------------------------
(* The cache.                                                              *)

\* AhvClustersCache.sync leaves out a cluster without an account of its own.
ClusterRows == {c \in world.clusters : c.pe # None}

Named(rows, name, a) == {r \in rows : r.name = name /\ r.account = a}
Identified(rows, uuid) == {r \in rows : r.uuid = uuid}

\* AhvSubnetsCache.get_entity_data: the rows its query selects, of which it
\* returns the first the database comes upon, ...
SubnetRows(nic, a) ==
    {s \in world.subnets :
        /\ s.name = nic.subnet /\ s.account = a
        /\ nic.cluster # None => \E c \in Named(ClusterRows, nic.cluster, a) : s.cluster = c.uuid
        /\ nic.cluster = None /\ nic.vpc # None =>
               s.cluster = None /\ \E v \in Named(world.vpcs, nic.vpc, a) : s.vpc = v.uuid}

\* ... if the row's own cluster or VPC is in the tables.
Readable(s) ==
    /\ s.cluster # None => Identified(ClusterRows, s.cluster) # {}
    /\ s.cluster = None /\ s.vpc # None => Identified(world.vpcs, s.vpc) # {}

ClusterOf(s) == CHOOSE c \in ClusterRows : c.uuid = s.cluster
VpcOf(s) == CHOOSE v \in world.vpcs : v.uuid = s.vpc
IsOverlay(s) == s.cluster = None /\ s.vpc # None

\* The subnet each NIC of m finds in account a; None for a macro and where
\* there is no such subnet.
Finds(m, a) ==
    {f \in [DOMAIN m.nics -> world.subnets \cup {None}] :
        \A i \in DOMAIN m.nics :
            LET rows == IF m.nics[i].subnet = Macro THEN {} ELSE SubnetRows(m.nics[i], a)
            IN IF rows = {} THEN f[i] = None ELSE f[i] \in rows}

-----------------------------------------------------------------------------
(* Compilation.                                                            *)

\* get_referenced_account_uuid: none if it refuses the account given.  The
\* environment of a profile allows one account of the kind, a project many.
AccountOf(m) ==
    LET scope == IF m.home = "environment" THEN world.environment ELSE world.project
    IN {a \in ToSet(scope) \cap world.listed :
            /\ m.account = None \/ m.home = "environment" => a = Head(scope)
            /\ m.account # None => a = m.account}

Allowed(m) == IF m.home = "environment" THEN world.environmentAllows ELSE world.projectAllows

\* create_ahv_nic and AhvVmType.compile look at the NICs as they are written.
NetworksAgree(m) ==
    /\ \A i \in DOMAIN m.nics : ~(m.nics[i].cluster # None /\ m.nics[i].vpc # None)
    /\ \A i, j \in DOMAIN m.nics :
           /\ ~(m.nics[i].vpc # None /\ m.nics[j].cluster # None)
           /\ m.nics[i].vpc # None /\ m.nics[j].vpc # None => m.nics[i].vpc = m.nics[j].vpc

\* AhvNicType.compile, and AhvVpcType.compile of the VPC it adds.
\* Mutant: a NIC may be on any cluster.
NicFits_AnyCluster(m, s, a) ==
    /\ Readable(s)
    /\ IsOverlay(s) =>
           /\ m.cluster # None
           /\ VpcOf(s).account = a /\ VpcOf(s).uuid \in world.projectAllows
    /\ s.uuid \in Allowed(m)
NicFits(m, s, a) ==
    /\ Readable(s)
    /\ s.cluster # None /\ m.cluster # None =>
           m.cluster.name \in {ClusterOf(s).name, Macro}
    /\ IsOverlay(s) =>
           /\ m.cluster # None
           /\ VpcOf(s).account = a /\ VpcOf(s).uuid \in world.projectAllows
    /\ s.uuid \in Allowed(m)

\* Ref.Cluster.compile: with an account of its own it is looked up there and
\* nowhere else; without, AhvClusterType.compile asks the project.
ClustersOf(m, a) ==
    IF m.cluster.account # None
    THEN {c \in Named(ClusterRows, m.cluster.name, m.cluster.account) : c.account \in world.listed}
    ELSE Named(ClusterRows, m.cluster.name, a) \cap {c \in ClusterRows : c.uuid \in world.projectAllows}

\* The accounts of an account's clusters, and that of a cluster by its name.
Pes(a) == {c.pe : c \in {d \in ClusterRows : d.account = a}}
PeOf(name, a) ==
    LET rows == Named(ClusterRows, name, a) IN IF rows = {} THEN None ELSE (CHOOSE c \in rows : TRUE).pe

\* SubstrateType.compile: the account the machine runs in is that of the
\* cluster it names, or else of the first NIC that names one, or else any.
Naming(m) == {i \in DOMAIN m.nics : m.nics[i].cluster # None /\ m.nics[i].subnet # Macro}
PeAccounts(m, f, a) ==
    IF m.cluster # None THEN {PeOf(m.cluster.name, a)}
    ELSE IF Naming(m) # {}
    THEN LET first == CHOOSE i \in Naming(m) : \A j \in Naming(m) : i <= j
         IN {PeOf(ClusterOf(f[first]).name, a)}
    ELSE Pes(a)

Fits(m, f, a) ==
    /\ Pes(a) # {}
    /\ NetworksAgree(m)
    /\ m.cluster # None /\ m.cluster.name # Macro => ClustersOf(m, a) # {}
    /\ \A i \in DOMAIN m.nics :
           m.nics[i].subnet # Macro => f[i] # None /\ NicFits(m, f[i], a)

SpecOf(m, f, a, pe) ==
    [pe |-> pe,
     cluster |-> IF m.cluster = None THEN None
                 ELSE IF m.cluster.name = Macro THEN Macro
                 ELSE (CHOOSE c \in ClustersOf(m, a) : TRUE).uuid,
     nics |-> [i \in DOMAIN m.nics |->
                  IF m.nics[i].subnet = Macro THEN [subnet |-> Macro, vpc |-> None]
                  ELSE [subnet |-> f[i].uuid, vpc |-> IF IsOverlay(f[i]) THEN f[i].vpc ELSE None]]]

\* What compilation may make of m, and whether it may refuse it.
Compilations(m) ==
    UNION {UNION {{SpecOf(m, f, a, pe) : pe \in PeAccounts(m, f, a)} :
                      f \in {g \in Finds(m, a) : Fits(m, g, a)}} : a \in AccountOf(m)}
Refused(m) == \A a \in AccountOf(m) : \E f \in Finds(m, a) : ~Fits(m, f, a)

-----------------------------------------------------------------------------
(* Decompilation.                                                          *)

\* Ref.Cluster.decompile and render_ahv_vm_nic: it stops at what is not there.
Decompilable(s) ==
    /\ s.cluster \notin {None, Macro} =>
           \E c \in Identified(ClusterRows, s.cluster) : c.account \in world.listed
    /\ \A i \in DOMAIN s.nics : s.nics[i].subnet # Macro =>
           \E r \in Identified(world.subnets, s.nics[i].subnet) :
               Readable(r) /\ (r.cluster # None \/ r.vpc # None)

\* render_substrate_template: the account above that of the machine's cluster,
\* and no account at all if the cache lacks one of the two.
AccountAbove(pe) ==
    LET above == {c.account : c \in {d \in world.clusters : d.pe = pe}} \cap world.listed
    IN IF pe \in world.listed /\ above # {} THEN CHOOSE a \in above : TRUE ELSE None

\* Mutant: the text of a NIC names its subnet and nothing else.
NicText_NameOnly(n) ==
    LET r == CHOOSE s \in world.subnets : s.uuid = n.subnet
    IN IF n.subnet = Macro THEN [subnet |-> Macro, cluster |-> None, vpc |-> None]
       ELSE [subnet |-> r.name, cluster |-> None, vpc |-> None]
NicText(n) ==
    LET r == CHOOSE s \in world.subnets : s.uuid = n.subnet
    IN IF n.subnet = Macro THEN [subnet |-> Macro, cluster |-> None, vpc |-> None]
       ELSE IF IsOverlay(r) THEN [subnet |-> r.name, cluster |-> None, vpc |-> VpcOf(r).name]
       ELSE [subnet |-> r.name, cluster |-> ClusterOf(r).name, vpc |-> None]

\* The text of the cluster leaves out the account that Ref.Cluster.decompile found.
Decompilation(s) ==
    [home |-> machine.home,
     account |-> AccountAbove(s.pe),
     cluster |-> IF s.cluster = None THEN None
                 ELSE [name |-> IF s.cluster = Macro THEN Macro
                                ELSE (CHOOSE c \in ClusterRows : c.uuid = s.cluster).name,
                       account |-> None],
     nics |-> [i \in DOMAIN s.nics |-> NicText(s.nics[i])]]

-----------------------------------------------------------------------------
PlacementStart ==
    /\ world \in World
    /\ machine \in Machine
    /\ progress = "written"
    /\ spec = NoSpec /\ rewritten = machine /\ respec = NoSpec
    /\ moves = {}

CompileMachine ==
    /\ progress = "written"
    /\ spec' \in Compilations(machine)
    /\ progress' = "compiled"
    /\ UNCHANGED <<world, machine, rewritten, respec, moves>>

RefuseMachine ==
    /\ progress = "written" /\ Refused(machine)
    /\ progress' = "refused"
    /\ UNCHANGED <<world, machine, spec, rewritten, respec, moves>>

DecompileMachine ==
    /\ progress = "compiled" /\ Decompilable(spec)
    /\ rewritten' = Decompilation(spec)
    /\ progress' = "decompiled"
    /\ UNCHANGED <<world, machine, spec, respec, moves>>

DecompileMachineFails ==
    /\ progress = "compiled" /\ ~Decompilable(spec)
    /\ progress' = "lost"
    /\ UNCHANGED <<world, machine, spec, rewritten, respec, moves>>

RecompileMachine ==
    /\ progress = "decompiled"
    /\ respec' \in Compilations(rewritten)
    /\ progress' = "recompiled"
    /\ UNCHANGED <<world, machine, spec, rewritten, moves>>

RefuseRewritten ==
    /\ progress = "decompiled" /\ Refused(rewritten)
    /\ progress' = "estranged"
    /\ UNCHANGED <<world, machine, spec, rewritten, respec, moves>>

\* The server changes, and `calm update cache` follows: once in a stage.
WorldMoves ==
    /\ progress \in {"compiled", "decompiled"} \ moves
    /\ world' \in World \ {world}
    /\ moves' = moves \cup {progress}
    /\ UNCHANGED <<machine, progress, spec, rewritten, respec>>

PlacementNext ==
    \/ CompileMachine \/ RefuseMachine
    \/ DecompileMachine \/ DecompileMachineFails
    \/ RecompileMachine \/ RefuseRewritten
    \/ WorldMoves

PlacementSpec == PlacementStart /\ [][PlacementNext]_placementOwn

-----------------------------------------------------------------------------
Row(n) == CHOOSE s \in world.subnets : s.uuid = n.subnet
Found(i) == Row(spec.nics[i])
Literal == {i \in DOMAIN machine.nics : machine.nics[i].subnet # Macro}

\* The machine says which cluster it is for: its own one, in the account it
\* runs in, or else the same one in each of its NICs.
SaysItsCluster ==
    IF machine.cluster # None
    THEN machine.cluster.name # Macro /\ machine.cluster.account = None
    ELSE /\ Literal # {}
         /\ \A i, j \in Literal :
                machine.nics[i].cluster # None /\ machine.nics[i].cluster = machine.nics[j].cluster

\* What compilation puts into one machine belongs together, although the
\* account of the cluster, the cluster and each NIC are looked up apart and by
\* name: the account serves the cluster of every VLAN, every subnet is in the
\* account above it, and the project or the environment allows it.
PlacedTogether ==
    progress = "compiled" /\ moves = {} /\ SaysItsCluster =>
        \A i \in Literal :
            /\ Found(i).cluster # None => ClusterOf(Found(i)).pe = spec.pe
            /\ \E c \in world.clusters : c.pe = spec.pe /\ c.account = Found(i).account
            /\ Found(i).uuid \in Allowed(machine)

\* What decompile writes compiles to the same placement, also when things were
\* renamed since the machine was compiled, or it is refused; and it is not
\* refused if nothing changed and every NIC said its cluster or its VPC.  The
\* cache must list the account of the cluster.
DecompileKeepsPlacement ==
    (/\ progress \in {"lost", "estranged", "recompiled"} /\ "decompiled" \notin moves
     /\ SaysItsCluster
     /\ progress = "lost" \/ rewritten.account # None) =>
        /\ progress = "recompiled" => respec = spec
        /\ (/\ moves = {}
            /\ \A i \in Literal : machine.nics[i].cluster # None \/ machine.nics[i].vpc # None) =>
               progress = "recompiled"
=============================================================================
