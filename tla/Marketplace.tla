------------------------------ MODULE Marketplace ------------------------------
(***************************************************************************)
(* The marketplace manager (src/calm/dsl/cli/marketplace.py): the items of  *)
(* one name, each a version of a blueprint or of a runbook that is          *)
(* published to the manager (PENDING), approved (ACCEPTED), put into the    *)
(* store (PUBLISHED) or rejected, and the projects each is shared with.     *)
(* Items are grouped into families; those of one name may be of several.   *)
(* A command finds an item by version, state and mostly kind, and then      *)
(* changes it by its identity.                                             *)
(*                                                                         *)
(* The server is external: it stores what it is sent, and refuses a change  *)
(* that was not made from the version it holds, so that reading an item and *)
(* putting it back are one step here.                                      *)
(***************************************************************************)
EXTENDS Administrators, FiniteSets

CONSTANTS
    Place,           \* projects an item is shared with
    DefaultPlace,    \* the one of the context
    MemberCount,     \* versions a listing of all returns (20 in the code)
    MarketRequest

Kind == {"blueprint", "runbook"}

Verb == {"new", "existing", "approve", "publish", "update", "reject", "unpublish", "delete"}
Version == Nat \ {0}

(* A version of 0 is one not given, a kind "any" one that is not looked at, *)
(* "all" asks for all versions, "then" says how far a publication goes on   *)
(* by itself, and "drop" is the projects an approval is to take away.       *)
ASSUME MarketplaceAssumption ==
    /\ DefaultPlace \in Place
    /\ MemberCount \in Nat
    /\ \A r \in MarketRequest :
         /\ r.op # "approve" => r.drop = {}
         /\ r.op \in {"new", "existing"} => r.version # 0 /\ r.kind \in Kind
         /\ r.all => r.op = "unpublish"
    /\ MarketRequest \subseteq
         [op : Verb, version : Nat, kind : Kind \cup {"any"}, all : BOOLEAN,
          places : SUBSET Place, drop : SUBSET Place, then : {"nothing", "approve", "publish"}]

VARIABLES
    items,      \* the items of the name
    verb,       \* what each command is doing now
    family,     \* the family a publication goes to, 0 for a new one
    shared,     \* the projects it goes to
    todo,       \* the versions it has still to find
    target,     \* the item it has found, or 0
    itemIds     \* identities handed out

marketOwn == <<items, verb, family, shared, todo, target, itemIds>>
marketVars == <<marketOwn, admins>>

ItemState == {"PENDING", "ACCEPTED", "PUBLISHED", "REJECTED"}
Live == ItemState \ {"REJECTED"}

(* How often an item names a project.                                      *)
Places == [Place -> Nat]

(* A family has the identity of its first item.                            *)
Item == [id : Nat, family : Nat \ {0}, kind : Kind, version : Version, state : ItemState, places : Places]

MarketStage == {"idle", "search", "checkVersion", "post", "latest", "find", "change"}

MarketplaceTypeOK ==
    /\ items \subseteq Item
    /\ verb \in [Admin -> Verb \cup {"none"}]
    /\ family \in [Admin -> Nat]
    /\ shared \in [Admin -> Places]
    /\ todo \in [Admin -> SUBSET Version]
    /\ target \in [Admin -> Nat]
    /\ itemIds \in Nat

(* Each of these projects once.                                            *)
Once(ps) == [p \in Place |-> IF p \in ps THEN 1 ELSE 0]

(* Start with no item, one of a kind in any state, or some versions of a    *)
(* blueprint that are published.                                           *)
MarketplaceStart ==
    /\ \/ items = {} /\ itemIds = 0
       \/ \E s \in ItemState, k \in Kind :
            /\ items = {[id |-> 1, family |-> 1, kind |-> k, version |-> 1, state |-> s,
                         places |-> Once({DefaultPlace})]}
            /\ itemIds = 1
       \/ \E n \in {2, 3} :
            /\ items = {[id |-> v, family |-> 1, kind |-> "blueprint", version |-> v, state |-> "PUBLISHED",
                         places |-> Once(Place)] : v \in 1..n}
            /\ itemIds = n
    /\ verb = [a \in Admin |-> "none"]
    /\ family = [a \in Admin |-> 0]
    /\ shared = [a \in Admin |-> Once({})]
    /\ todo = [a \in Admin |-> {}]
    /\ target = [a \in Admin |-> 0]

MarketplaceInit == AdminsInit /\ MarketplaceStart

-----------------------------------------------------------------------------
Publication == {"new", "existing"}

(* The state of an item each verb looks for; rejected items may have the   *)
(* version of another item.                                                *)
Sought(v) ==
    CASE v \in {"approve", "reject"} -> {"PENDING"}
      [] v = "publish" -> {"ACCEPTED"}
      [] v = "unpublish" -> {"PUBLISHED"}
      [] v = "delete" -> ItemState \ {"PUBLISHED"}
      [] OTHER -> Live

(* Two publications, or two commands on items one of which changes the      *)
(* state the other looks for, are not meant to run at the same time.       *)
MarketClash(r, q) ==
    \/ {r.op, q.op} \subseteq Publication
    \/ {r.op, q.op} \cap {"approve", "publish", "reject", "unpublish", "delete"} # {}

MarketBegin(a) ==
    \E r \in MarketRequest :
        /\ Start(a, r, IF r.op \in Publication THEN "search"
                       ELSE IF r.version = 0 THEN "latest" ELSE "find", MarketClash)
        /\ verb' = [verb EXCEPT ![a] = r.op]
        /\ family' = [family EXCEPT ![a] = 0]
        /\ shared' = [shared EXCEPT ![a] = Once(r.places)]
        /\ todo' = [todo EXCEPT ![a] = IF r.version = 0 THEN {} ELSE {r.version}]
        /\ target' = [target EXCEPT ![a] = 0]
        /\ UNCHANGED <<items, itemIds>>

(* What a publication takes for its family: a blueprint asks for the        *)
(* blueprints of the name, a runbook for all items of it.                   *)
Rivals(a) == {i \in items : request[a].kind = "blueprint" => i.kind = "blueprint"}

(* A new family must not have an item yet; as an existing one, the family   *)
(* listed first is taken, whichever it is.                                 *)
Search(a) ==
    /\ stage[a] = "search"
    /\ \/ verb[a] = "new" /\ Rivals(a) = {} /\ Proceed(a, "post") /\ UNCHANGED family
       \/ /\ verb[a] = "existing"
          /\ \E i \in Rivals(a) : family' = [family EXCEPT ![a] = i.family]
          /\ Proceed(a, "checkVersion")
       \/ Fail(a) /\ UNCHANGED family
    /\ UNCHANGED <<items, verb, shared, todo, target, itemIds>>

CheckVersion_Skipped(a) == \* Mutant: a version there already is published again
    /\ stage[a] = "checkVersion"
    /\ Proceed(a, "post")
    /\ UNCHANGED marketOwn

(* The server lists the versions of a family latest first; the first of    *)
(* the list is one of these.                                               *)
Latest(is) == {i \in is : \A j \in is : j.version <= i.version}

(* Without projects, those of the latest version are taken over.           *)
TakenOver(a, latest) ==
    IF request[a].places = {} THEN latest.places ELSE shared[a]

(* The version must be new among the items of the family that are not       *)
(* rejected.  When all are, the listing is empty and its first element an   *)
(* IndexError.  Projects are taken over with Calm 4.0.0 and later.         *)
CheckVersion(a) ==
    /\ stage[a] = "checkVersion"
    /\ LET live == {i \in items : i.family = family[a] /\ i.state \in Live}
       IN  \/ /\ \A i \in live : i.version # request[a].version
              /\ \E i \in Latest(live) :
                    shared' \in {shared, [shared EXCEPT ![a] = TakenOver(a, i)]}
              /\ Proceed(a, "post")
           \/ Fail(a) /\ UNCHANGED shared
    /\ UNCHANGED <<items, verb, family, todo, target, itemIds>>

Chained(a) ==
    IF request[a].then = "nothing"
      THEN Proceed(a, "idle") /\ UNCHANGED verb
      ELSE Proceed(a, "find") /\ verb' = [verb EXCEPT ![a] = "approve"]

Posted(a) ==
    [id |-> itemIds + 1, family |-> IF family[a] = 0 THEN itemIds + 1 ELSE family[a], kind |-> request[a].kind,
     version |-> request[a].version, state |-> "PENDING", places |-> shared[a]]

PostItem(a) ==
    /\ stage[a] = "post"
    /\ \/ /\ items' = items \cup {Posted(a)}
          /\ itemIds' = itemIds + 1
          /\ \/ Chained(a)
             \/ Fail(a) /\ UNCHANGED verb
       \/ Fail(a) /\ UNCHANGED <<items, itemIds, verb>>
    /\ UNCHANGED <<family, shared, todo, target>>

(* What a command looks among: the items of its kind in the state it looks  *)
(* for.  The approval and the publication that go on from a publication do  *)
(* not say of what kind the item is.                                       *)
Candidates(a) ==
    {i \in items : /\ i.state \in Sought(verb[a])
                   /\ request[a].op \in Publication \/ request[a].kind \in {i.kind, "any"}}

OfFamily(is, f) == {i \in is : i.family = f}

LatestVersion_First(a) == \* Mutant: "all" finds the latest version only
    /\ stage[a] = "latest"
    /\ \/ /\ \E f \in {i.family : i \in Candidates(a)} :
               \E i \in Latest(OfFamily(Candidates(a), f)) : todo' = [todo EXCEPT ![a] = {i.version}]
          /\ Proceed(a, "find")
       \/ Fail(a) /\ UNCHANGED todo
    /\ UNCHANGED <<items, verb, family, shared, target, itemIds>>

VersionsOf(is) == {i.version : i \in is}

Above(v, vs) == {w \in vs : w > v}

(* As many versions as a listing returns, latest first.                     *)
Listed(vs) == {v \in vs : Cardinality(Above(v, vs)) < MemberCount}

(* Without a version, the latest one in the state is taken, or all that a   *)
(* listing returns, of the family listed first.                            *)
LatestVersion(a) ==
    /\ stage[a] = "latest"
    /\ \/ /\ \E f \in {i.family : i \in Candidates(a)} :
               LET found == OfFamily(Candidates(a), f)
               IN  IF request[a].all
                     THEN todo' = [todo EXCEPT ![a] = Listed(VersionsOf(found))]
                     ELSE \E i \in Latest(found) : todo' = [todo EXCEPT ![a] = {i.version}]
          /\ Proceed(a, "find")
       \/ Fail(a) /\ UNCHANGED todo
    /\ UNCHANGED <<items, verb, family, shared, target, itemIds>>

(* The first item listed with a version still to do, of whatever family.    *)
Find(a) ==
    /\ stage[a] = "find"
    /\ \/ \E v \in todo[a], i \in Candidates(a) :
            /\ i.version = v
            /\ todo' = [todo EXCEPT ![a] = @ \ {v}]
            /\ target' = [target EXCEPT ![a] = i.id]
            /\ Proceed(a, "change")
       \/ /\ Fail(a)
          /\ UNCHANGED <<todo, target>>
    /\ UNCHANGED <<items, verb, family, shared, itemIds>>

ChangedState(v, old) ==
    CASE v = "approve" -> "ACCEPTED" [] v = "publish" -> "PUBLISHED"
      [] v = "reject" -> "REJECTED" [] v = "unpublish" -> "ACCEPTED" [] OTHER -> old

(* A publication to no project is approved for that of the context.        *)
Given(a) ==
    IF request[a].op \in Publication /\ shared[a] = Once({}) THEN Once({DefaultPlace}) ELSE shared[a]

(* Lists of projects: one appended to another, and the first of each of     *)
(* some taken out.                                                         *)
Appended(ps, qs) == [p \in Place |-> ps[p] + qs[p]]
Without(ps, gone) == [p \in Place |-> IF p \in gone /\ ps[p] > 0 THEN ps[p] - 1 ELSE ps[p]]

(* What the item becomes.  approve appends projects, also those it has, and *)
(* takes others away, publish and update replace them, and unpublish from   *)
(* projects leaves the state as it is.                                     *)
ChangedItem(a, i) ==
    LET r == request[a]
        replaced == IF r.op \notin Publication /\ r.places # {} THEN Once(r.places) ELSE i.places
    IN  CASE verb[a] = "approve" ->
               [i EXCEPT !.state = "ACCEPTED", !.places = Without(Appended(@, Given(a)), r.drop)]
          [] verb[a] \in {"publish", "update"} ->
               [i EXCEPT !.state = ChangedState(verb[a], @), !.places = replaced]
          [] verb[a] = "unpublish" /\ r.places # {} -> [i EXCEPT !.places = Without(@, r.places)]
          [] OTHER -> [i EXCEPT !.state = ChangedState(verb[a], @)]

SharedWith(ps) == {p \in Place : ps[p] > 0}

(* What is refused of the item as read by identity - its state is not       *)
(* looked at again.                                                        *)
Unfit(a, i) ==
    \/ verb[a] = "publish" /\ SharedWith(ChangedItem(a, i).places) = {}
    \/ verb[a] = "unpublish" /\ ~ request[a].places \subseteq SharedWith(i.places)

(* A project to take away that the item is not shared with is logged as an  *)
(* error, which does not keep the others from being changed.               *)
Unassociated(a, i) == ~ request[a].drop \subseteq SharedWith(Appended(i.places, Given(a)))

NextVerb(a) ==
    IF todo[a] # {}
      THEN Proceed(a, "find") /\ UNCHANGED <<verb, todo>>
    ELSE IF verb[a] = "approve" /\ request[a].op \in Publication /\ request[a].then = "publish"
      THEN /\ Proceed(a, "find")
           /\ verb' = [verb EXCEPT ![a] = "publish"]
           /\ todo' = [todo EXCEPT ![a] = {request[a].version}]
    ELSE Proceed(a, "idle") /\ UNCHANGED <<verb, todo>>

Change(a) ==
    /\ stage[a] = "change"
    /\ \/ \E i \in items :
            /\ i.id = target[a]
            /\ ~ Unfit(a, i)
            /\ items' = (items \ {i}) \cup (IF verb[a] = "delete" THEN {} ELSE {ChangedItem(a, i)})
            /\ \/ ~ Unassociated(a, i) /\ NextVerb(a)
               \/ Fail(a) /\ UNCHANGED <<verb, todo>>
       \/ Fail(a) /\ UNCHANGED <<items, verb, todo>>
    /\ UNCHANGED <<family, shared, target, itemIds>>

MarketWork(a) ==
    \/ Search(a) \/ CheckVersion(a) \/ PostItem(a) \/ LatestVersion(a) \/ Find(a) \/ Change(a)

MarketplaceFinished == Exhausted /\ UNCHANGED marketVars

MarketplaceNext ==
    \/ \E a \in Admin : MarketBegin(a) \/ MarketWork(a)
    \/ MarketplaceFinished

MarketplaceSpec == MarketplaceInit /\ [][MarketplaceNext]_marketVars

-----------------------------------------------------------------------------
(* A version is that of one live item in its family, and of one live        *)
(* blueprint of the name, though nobody but the publisher checks it, and    *)
(* that with a call of its own before the item is created.  Two runbooks of *)
(* the name, or a runbook and a blueprint, may have it in two families.     *)
OneLiveVersion ==
    ~ overlapped =>
        \A i, j \in items :
            /\ i.version = j.version
            /\ {i.state, j.state} \subseteq Live
            /\ i.family = j.family \/ {i.kind, j.kind} = {"blueprint"}
            => i = j

(* The state a publication is asked to bring its item to.                   *)
Aim(r) == CASE r.then = "nothing" -> "PENDING" [] r.then = "approve" -> "ACCEPTED" [] OTHER -> "PUBLISHED"

OfVersion(is, r) == {i \in is : i.version = r.version /\ i.state \in Live}

(* The items of its version that have come as far as it asks for, shared    *)
(* with a project unless they are only pending.                            *)
Arrived(is, r) ==
    {i \in OfVersion(is, r) : i.state = Aim(r) /\ (r.then # "nothing" => SharedWith(i.places) # {})}

(* A publication that ends without an error has left a live item of its     *)
(* kind and version, and one of that version, its own unless another family *)
(* has one too, has gone as far as it was asked to, through commands that   *)
(* find the item anew.  Unpublishing all versions of a blueprint leaves     *)
(* none but those with more above them than a listing returns.             *)
MarketEndsAsAsked ==
    [][\A a \in Admin : EndsSilently(a) /\ ~ overlapped' =>
         LET r == request[a]
         IN  /\ r.op \in Publication =>
                    /\ \E i \in OfVersion(items', r) : i.kind = r.kind
                    /\ Arrived(items', r) # {}
                    /\ r.then = "nothing" => \E i \in Arrived(items', r) : i.kind = r.kind
             /\ r.op = "unpublish" /\ r.version = 0 /\ r.all /\ r.places = {} /\ r.kind = "blueprint" =>
                    \A i \in items' :
                       i.state = "PUBLISHED" /\ i.kind = "blueprint" =>
                         Cardinality(Above(i.version, VersionsOf(items'))) >= MemberCount]_marketVars
=============================================================================
