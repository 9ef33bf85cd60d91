-------------------------- MODULE AdministrationProofs --------------------------
(* Theorems about Marketplace, Catalogue, Accounts, NetworkTunnels and       *)
(* CacheTables, for every set of administrators, any number of commands and *)
(* every request, and about all areas of Administration together: what is   *)
(* proved of an area alone holds beside the others.                        *)
EXTENDS Administration, ProjectsProofs, FiniteSetTheorems, TLAPS

-----------------------------------------------------------------------------
(* The marketplace.                                                        *)

MarketStateOK == AdminsTypeOK(MarketStage, MarketRequest) /\ MarketplaceTypeOK

(* Identities are handed out once.                                         *)
ItemsDiffer ==
    /\ \A i \in items : i.id <= itemIds /\ i.family <= itemIds
    /\ \A i, j \in items : i.id = j.id => i = j
    /\ \A a \in Admin : target[a] <= itemIds /\ family[a] <= itemIds

(* A command at work does what it was asked for; only a publication, which  *)
(* goes on to approve and publish its item, does more than one thing.      *)
MarketAsked ==
    \A a \in Admin : ~ Idle(a) =>
        /\ request[a] \in MarketRequest
        /\ IF request[a].op \in Publication THEN verb[a] \in Publication \cup {"approve", "publish"}
                                            ELSE verb[a] = request[a].op
        /\ stage[a] \in {"search", "checkVersion", "post"} => request[a].op \in Publication
        /\ stage[a] = "search" => family[a] = 0

(* Commands that have not overlapped: one publication, or updates of items, *)
(* or one of the other commands alone.                                     *)
Apart ==
    ~ overlapped => \A a, b \in Admin : ~ Idle(a) /\ ~ Idle(b) /\ a # b =>
        /\ {request[a].op, request[b].op} \subseteq Publication \cup {"update"}
        /\ ~ {request[a].op, request[b].op} \subseteq Publication

(* All blueprints of the name are of one family, which is the one a new     *)
(* version of a blueprint goes to.                                         *)
OneFamily ==
    ~ overlapped =>
        /\ \A i, j \in items : {i.kind, j.kind} = {"blueprint"} => i.family = j.family
        /\ \A a \in Admin : stage[a] \in {"checkVersion", "post"} /\ request[a].kind = "blueprint" =>
              \A i \in items : i.kind = "blueprint" => i.family = family[a]

(* No live item of the family has the version that is about to be           *)
(* published, and an item about to be changed is in the state it was looked *)
(* for in.                                                                 *)
StillFresh ==
    ~ overlapped => \A a \in Admin : stage[a] = "post" =>
        \A i \in items : i.family = family[a] /\ i.state \in Live => i.version # request[a].version

StillSought ==
    ~ overlapped => \A a \in Admin : stage[a] = "change" =>
        \A i \in items : i.id = target[a] => i.state \in Sought(verb[a])

MarketIInv ==
    /\ MarketStateOK /\ ItemsDiffer /\ MarketAsked /\ Apart
    /\ OneFamily /\ StillFresh /\ StillSought /\ OneLiveVersion

LEMMA MarketInit == MarketplaceInit => MarketIInv
<1> SUFFICES ASSUME MarketplaceInit PROVE MarketIInv
  OBVIOUS
<1> USE MarketplaceAssumption DEF MarketplaceInit, AdminsInit, MarketplaceStart
<1>1. \A a \in Admin : stage[a] = "idle" /\ target[a] = 0 /\ family[a] = 0
  OBVIOUS
<1>0. \A ps : Once(ps) \in Places
  BY DEF Once, Places
<1>2. AdminsTypeOK(MarketStage, MarketRequest)
  BY DEF AdminsTypeOK, MarketStage
<1>3. /\ items \subseteq Item /\ itemIds \in Nat
      /\ \A i \in items : i.id <= itemIds /\ i.family = 1 /\ 1 <= itemIds
      /\ \A i, j \in items : i.id = j.id \/ i.version = j.version => i = j
  <2>1. CASE items = {} /\ itemIds = 0
    BY <2>1
  <2>2. ASSUME NEW s \in ItemState, NEW k \in Kind, itemIds = 1,
               items = {[id |-> 1, family |-> 1, kind |-> k, version |-> 1, state |-> s,
                         places |-> Once({DefaultPlace})]}
        PROVE <1>3
    BY <1>0, <2>2 DEF Item, Version
  <2>3. ASSUME NEW n \in {2, 3}, itemIds = n,
               items = {[id |-> v, family |-> 1, kind |-> "blueprint", version |-> v, state |-> "PUBLISHED",
                         places |-> Once(Place)] : v \in 1..n}
        PROVE <1>3
    BY <1>0, <2>3 DEF Item, Version, ItemState, Kind
  <2> QED
    BY <2>1, <2>2, <2>3
<1>4. MarketplaceTypeOK
  BY <1>0, <1>3 DEF MarketplaceTypeOK
<1>5. ItemsDiffer
  BY <1>1, <1>3 DEF ItemsDiffer
<1> QED
  BY <1>1, <1>2, <1>3, <1>4, <1>5 DEF MarketIInv, MarketStateOK, MarketAsked, Apart, Idle,
     OneFamily, StillFresh, StillSought, OneLiveVersion

(* What is known of a request.                                             *)
LEMMA RequestParts ==
    ASSUME NEW r \in MarketRequest
    PROVE  /\ r.op \in Verb /\ r.version \in Nat /\ r.all \in BOOLEAN
           /\ r.places \subseteq Place /\ r.drop \subseteq Place
           /\ r.op \in Publication => r.version \in Version
           /\ r.op \in Publication => r.kind \in Kind
           /\ r.then \in {"nothing", "approve", "publish"}
           /\ Once(r.places) \in Places
BY MarketplaceAssumption DEF Publication, Version, Once, Places

(* A new command overlaps with those it is not meant to run with.          *)
LEMMA MarketBeginKeeps ==
    ASSUME MarketIInv, NEW a \in Admin, MarketBegin(a) PROVE MarketIInv'
<1> USE DEF MarketIInv, MarketStateOK
<1>1. PICK r \in MarketRequest :
        /\ Start(a, r, IF r.op \in Publication THEN "search"
                       ELSE IF r.version = 0 THEN "latest" ELSE "find", MarketClash)
        /\ verb' = [verb EXCEPT ![a] = r.op]
        /\ family' = [family EXCEPT ![a] = 0]
        /\ shared' = [shared EXCEPT ![a] = Once(r.places)]
        /\ todo' = [todo EXCEPT ![a] = IF r.version = 0 THEN {} ELSE {r.version}]
        /\ target' = [target EXCEPT ![a] = 0]
        /\ UNCHANGED <<items, itemIds>>
  BY DEF MarketBegin
<1>2. PICK s \in {"search", "latest", "find"} :
        stage' = [stage EXCEPT ![a] = s] /\ (s = "search" => r.op \in Publication)
  BY <1>1 DEF Start, Goto
<1>3. /\ Idle(a)
      /\ request' = [request EXCEPT ![a] = r]
      /\ started' = started + 1 /\ complained' = complained \ {a} /\ UNCHANGED patient
      /\ overlapped' = (overlapped \/ \E b \in Admin \ {a} : ~ Idle(b) /\ MarketClash(r, request[b]))
  BY <1>1 DEF Start
<1>4. /\ r.op \in Verb /\ r.version \in Nat /\ Once(r.places) \in Places
      /\ r.version # 0 => r.version \in Version
  BY RequestParts DEF Version
<1>5. AdminsTypeOK(MarketStage, MarketRequest)'
  BY <1>2, <1>3 DEF AdminsTypeOK, MarketStage
<1>6. MarketplaceTypeOK'
  BY <1>1, <1>4 DEF MarketplaceTypeOK
<1>7. ItemsDiffer'
  BY <1>1 DEF ItemsDiffer, MarketplaceTypeOK
<1>8. MarketAsked'
  <2>1. \A b \in Admin \ {a} : UNCHANGED <<stage[b], request[b], verb[b], family[b]>>
    BY <1>1, <1>2, <1>3 DEF AdminsTypeOK, MarketplaceTypeOK
  <2>2. stage'[a] = s /\ request'[a] = r /\ verb'[a] = r.op /\ family'[a] = 0
    BY <1>1, <1>2, <1>3 DEF AdminsTypeOK, MarketplaceTypeOK
  <2>3. r.op \in Publication \/ s # "search"
    BY <1>2
  <2> QED
    BY <1>2, <2>1, <2>2, <2>3, SMTT(30) DEF MarketAsked, Idle, Publication
<1>9. Apart'
  <2>1. \A b \in Admin \ {a} : UNCHANGED <<stage[b], request[b]>>
    BY <1>2, <1>3 DEF AdminsTypeOK
  <2>2. request'[a] = r
    BY <1>3 DEF AdminsTypeOK
  <2>3. ASSUME ~ overlapped', NEW b \in Admin \ {a}, ~ Idle(b)
        PROVE  /\ {r.op, request[b].op} \subseteq Publication \cup {"update"}
               /\ ~ {r.op, request[b].op} \subseteq Publication
    <3>1. ~ MarketClash(r, request[b])
      BY <1>3, <2>3
    <3>2. request[b].op \in Verb
      BY <2>3, RequestParts DEF MarketAsked
    <3> QED
      BY <1>4, <3>1, <3>2 DEF MarketClash, Verb, Publication
  <2>4. ASSUME ~ overlapped', NEW b \in Admin \ {a}, NEW d \in Admin \ {a},
               ~ Idle(b), ~ Idle(d), b # d
        PROVE  /\ {request[b].op, request[d].op} \subseteq Publication \cup {"update"}
               /\ ~ {request[b].op, request[d].op} \subseteq Publication
    BY <1>3, <2>4 DEF Apart
  <2> SUFFICES ASSUME ~ overlapped', NEW b \in Admin, NEW d \in Admin,
                      ~ Idle(b)', ~ Idle(d)', b # d
               PROVE  /\ {request'[b].op, request'[d].op} \subseteq Publication \cup {"update"}
                      /\ ~ {request'[b].op, request'[d].op} \subseteq Publication
    BY DEF Apart
  <2>5. CASE b = a
    BY <2>1, <2>2, <2>3, <2>5 DEF Idle
  <2>6. CASE d = a
    BY <2>1, <2>2, <2>3, <2>6 DEF Idle
  <2>7. CASE b # a /\ d # a
    BY <2>1, <2>4, <2>7 DEF Idle
  <2> QED
    BY <2>5, <2>6, <2>7
<1>10. OneFamily' /\ StillFresh' /\ StillSought' /\ OneLiveVersion'
  <2>1. /\ \A b \in Admin \ {a} : UNCHANGED <<stage[b], request[b], verb[b], family[b], target[b]>>
        /\ stage'[a] \notin {"checkVersion", "post", "change"}
        /\ UNCHANGED items /\ (~ overlapped' => ~ overlapped)
    BY <1>1, <1>2, <1>3 DEF AdminsTypeOK, MarketplaceTypeOK
  <2>2. OneFamily'
    BY <2>1 DEF OneFamily
  <2>3. StillFresh'
    BY <2>1 DEF StillFresh
  <2>4. StillSought' /\ OneLiveVersion'
    BY <2>1 DEF StillSought, OneLiveVersion
  <2> QED
    BY <2>2, <2>3, <2>4
<1> QED
  BY <1>5, <1>6, <1>7, <1>8, <1>9, <1>10

(* A step of a command at work leaves the requests alone, and is its own.   *)
LEMMA MarketWorkFrame ==
    ASSUME AdminsTypeOK(MarketStage, MarketRequest), NEW a \in Admin, MarketWork(a)
    PROVE  /\ AdminsTypeOK(MarketStage, MarketRequest)'
           /\ ~ Idle(a)
           /\ \A b \in Admin \ {a} : stage'[b] = stage[b]
           /\ UNCHANGED <<request, overlapped>>
<1> DEFINE Frame ==
        /\ stage[a] # "idle"
        /\ \E s \in MarketStage : stage' = [stage EXCEPT ![a] = s]
        /\ complained' \in SUBSET (complained \cup {a})
        /\ UNCHANGED <<request, started, patient, overlapped>>
<1> SUFFICES Frame
  BY DEF AdminsTypeOK, Idle
<1> USE DEF Proceed, Fail, Complain, Goto, MarketStage
<1>1. CASE Search(a) \/ CheckVersion(a) \/ LatestVersion(a) \/ Find(a)
  BY <1>1 DEF Search, CheckVersion, LatestVersion, Find
<1>2. CASE PostItem(a)
  BY <1>2 DEF PostItem, Chained
<1>3. CASE Change(a)
  BY <1>3 DEF Change, NextVerb
<1> QED
  BY <1>1, <1>2, <1>3 DEF MarketWork

(* Lists of projects.                                                      *)
LEMMA ListsOfPlaces ==
    /\ \A ps : Once(ps) \in Places
    /\ \A ps, qs \in Places : Appended(ps, qs) \in Places
    /\ \A ps \in Places : \A out : Without(ps, out) \in Places
BY DEF Once, Appended, Without, Places

(* A change keeps what an item is, and moves its state as the verb says or  *)
(* not at all.                                                             *)
LEMMA ChangedItemIs ==
    ASSUME MarketStateOK, MarketAsked, NEW a \in Admin, ~ Idle(a), NEW i \in items
    PROVE  /\ ChangedItem(a, i) \in Item
           /\ ChangedItem(a, i).id = i.id /\ ChangedItem(a, i).version = i.version
           /\ ChangedItem(a, i).family = i.family /\ ChangedItem(a, i).kind = i.kind
           /\ ChangedItem(a, i).state \in {i.state, ChangedState(verb[a], i.state)}
<1> DEFINE replaced == IF request[a].op \notin Publication /\ request[a].places # {}
                         THEN Once(request[a].places) ELSE i.places
<1>1. i \in Item /\ i.places \in Places /\ Given(a) \in Places /\ replaced \in Places
  BY ListsOfPlaces DEF MarketStateOK, MarketplaceTypeOK, Item, Given
<1>2. ChangedState(verb[a], i.state) \in ItemState
  BY <1>1 DEF ChangedState, ItemState, Item
<1>3. /\ Without(Appended(i.places, Given(a)), request[a].drop) \in Places
      /\ Without(i.places, request[a].places) \in Places
  BY <1>1, ListsOfPlaces
<1>4. \E places \in Places, s \in {i.state, ChangedState(verb[a], i.state)} :
        ChangedItem(a, i) = [i EXCEPT !.state = s, !.places = places]
  <2>1. CASE verb[a] = "approve"
    BY <1>1, <1>3, <2>1 DEF ChangedItem, ChangedState, Item
  <2>2. CASE verb[a] \in {"publish", "update"}
    BY <1>1, <2>2 DEF ChangedItem, ChangedState, Item
  <2>3. CASE verb[a] = "unpublish" /\ request[a].places # {}
    BY <1>1, <1>3, <2>3 DEF ChangedItem, Item
  <2>4. CASE verb[a] \notin {"approve", "publish", "update"} /\ ~ (verb[a] = "unpublish" /\ request[a].places # {})
    BY <1>1, <2>4 DEF ChangedItem, Item
  <2> QED
    BY <2>1, <2>2, <2>3, <2>4
<1> QED
  BY <1>1, <1>2, <1>4 DEF Item

(* The types of what a step changes.                                       *)
LEMMA MarketWorkTypes ==
    ASSUME MarketIInv, NEW a \in Admin, MarketWork(a) PROVE MarketplaceTypeOK' /\ ItemsDiffer'
<1> USE DEF MarketIInv
<1>1. ~ Idle(a) /\ request[a] \in MarketRequest
  BY MarketWorkFrame DEF MarketStateOK, MarketAsked
<1>2. /\ request[a].op \in Publication => request[a].version \in Version
      /\ request[a].op \in Publication => request[a].kind \in Kind
  BY <1>1, RequestParts
<1>3. \A i \in items : /\ i.id \in Nat /\ i.version \in Version /\ i.places \in Places
                       /\ i.family \in Nat \ {0} /\ i.family <= itemIds
  BY DEF MarketStateOK, MarketplaceTypeOK, Item, ItemsDiffer
<1> USE DEF MarketStateOK, MarketplaceTypeOK, ItemsDiffer
<1>4. CASE Search(a)
  <2>1. family' = family \/ \E f \in Nat : f <= itemIds /\ family' = [family EXCEPT ![a] = f]
    BY <1>3, <1>4 DEF Search, Rivals
  <2>2. UNCHANGED <<items, verb, shared, todo, target, itemIds>>
    BY <1>4 DEF Search
  <2> QED
    BY <2>1, <2>2
<1>5. CASE CheckVersion(a)
  <2>1. shared' = shared \/ \E places \in Places : shared' = [shared EXCEPT ![a] = places]
    BY <1>3, <1>5 DEF CheckVersion, Latest, TakenOver
  <2>2. UNCHANGED <<items, verb, family, todo, target, itemIds>>
    BY <1>5 DEF CheckVersion
  <2> QED
    BY <2>1, <2>2
<1>6. CASE LatestVersion(a)
  <2>1. ASSUME NEW f
        PROVE  /\ Listed(VersionsOf(OfFamily(Candidates(a), f))) \subseteq Version
               /\ \A i \in Latest(OfFamily(Candidates(a), f)) : {i.version} \subseteq Version
    <3>1. \A i \in OfFamily(Candidates(a), f) : i.version \in Version
      BY <1>3 DEF OfFamily, Candidates
    <3> QED
      BY <3>1 DEF Listed, VersionsOf, Latest
  <2>2. todo' = todo \/ \E vs \in SUBSET Version : todo' = [todo EXCEPT ![a] = vs]
    <3>1. CASE UNCHANGED todo
      BY <3>1
    <3>2. ASSUME NEW f,
                 IF request[a].all
                   THEN todo' = [todo EXCEPT ![a] = Listed(VersionsOf(OfFamily(Candidates(a), f)))]
                   ELSE \E i \in Latest(OfFamily(Candidates(a), f)) : todo' = [todo EXCEPT ![a] = {i.version}]
          PROVE  <2>2
      BY <2>1, <3>2
    <3> QED
      BY <1>6, <3>1, <3>2 DEF LatestVersion
  <2> QED
    BY <1>6, <2>2 DEF LatestVersion
<1>7. CASE Find(a)
  <2>1. target' = target \/ \E i \in items : target' = [target EXCEPT ![a] = i.id]
    BY <1>7 DEF Find, Candidates
  <2>2. todo' = todo \/ \E v : todo' = [todo EXCEPT ![a] = @ \ {v}]
    BY <1>7 DEF Find
  <2>3. UNCHANGED <<items, verb, family, shared, itemIds>>
    BY <1>7 DEF Find
  <2> QED
    BY <1>3, <2>1, <2>2, <2>3
<1>8. CASE PostItem(a)
  <2>1. request[a].op \in Publication
    BY <1>1, <1>8 DEF PostItem, MarketAsked
  <2>2. CASE UNCHANGED <<items, itemIds>>
    BY <1>8, <2>2 DEF PostItem, Chained, Verb
  <2>3. CASE items' = items \cup {Posted(a)} /\ itemIds' = itemIds + 1
    <3>1. Posted(a) \in Item /\ Posted(a).id = itemIds + 1 /\ Posted(a).family <= itemIds + 1
      BY <1>2, <2>1 DEF Item, ItemState, Posted
    <3>2. items' = items \cup {Posted(a)} /\ itemIds' \in Nat /\ itemIds' = itemIds + 1
      BY <2>3
    <3>3. verb' \in [Admin -> Verb \cup {"none"}] /\ UNCHANGED <<family, shared, todo, target>>
      BY <1>8 DEF PostItem, Chained, Verb
    <3>4. \A i \in items' :
            /\ i.id <= itemIds' /\ i.family <= itemIds'
            /\ \A j \in items' : i.id = j.id => i = j
      BY <1>3, <3>1, <3>2
    <3> QED
      BY <1>3, <3>1, <3>2, <3>3, <3>4
  <2> QED
    BY <1>8, <2>2, <2>3 DEF PostItem
<1>9. CASE Change(a)
  <2>1. UNCHANGED <<family, shared, target, itemIds>>
    BY <1>9 DEF Change
  <2>2. verb' \in [Admin -> Verb \cup {"none"}]
    BY <1>9 DEF Change, NextVerb, Verb
  <2>3. todo' \in [Admin -> SUBSET Version]
    BY <1>2, <1>9 DEF Change, NextVerb
  <2>4. CASE items' = items
    BY <2>1, <2>2, <2>3, <2>4
  <2>5. ASSUME NEW i \in items, items' \subseteq (items \ {i}) \cup {ChangedItem(a, i)}
        PROVE  MarketplaceTypeOK' /\ ItemsDiffer'
    <3>1. ChangedItem(a, i) \in Item /\ ChangedItem(a, i).id = i.id /\ ChangedItem(a, i).family = i.family
      BY <1>1, ChangedItemIs
    <3>2. /\ items' \subseteq Item
          /\ \A j \in items' : j.id <= itemIds' /\ j.family <= itemIds' /\ \A k \in items' : j.id = k.id => j = k
      BY <2>1, <2>5, <3>1
    <3> QED
      BY <2>1, <2>2, <2>3, <3>2
  <2> QED
    BY <1>9, <2>4, <2>5 DEF Change
<1> QED
  BY <1>4, <1>5, <1>6, <1>7, <1>8, <1>9 DEF MarketWork

(* A command goes on doing what it was asked for.                          *)
LEMMA MarketWorkAsked ==
    ASSUME MarketIInv, NEW a \in Admin, MarketWork(a) PROVE MarketAsked' /\ Apart'
<1>1. /\ ~ Idle(a) /\ UNCHANGED <<request, overlapped>>
      /\ \A b \in Admin \ {a} : stage'[b] = stage[b]
  BY MarketWorkFrame DEF MarketIInv, MarketStateOK
<1>2. \A b \in Admin \ {a} : verb'[b] = verb[b] /\ family'[b] = family[b]
  BY DEF MarketIInv, MarketStateOK, MarketplaceTypeOK, MarketWork, Search, CheckVersion,
         PostItem, Chained, LatestVersion, Find, Change, NextVerb
<1>3. stage'[a] # "idle" =>
        /\ IF request[a].op \in Publication THEN verb'[a] \in Publication \cup {"approve", "publish"}
                                            ELSE verb'[a] = request[a].op
        /\ stage'[a] \in {"search", "checkVersion", "post"} => request[a].op \in Publication
        /\ stage'[a] # "search"
  <2> USE <1>1 DEF MarketIInv, MarketAsked, MarketStateOK, MarketplaceTypeOK, AdminsTypeOK,
                   Proceed, Fail, Complain, Goto
  <2>1. CASE Search(a) \/ CheckVersion(a) \/ LatestVersion(a) \/ Find(a)
    BY <2>1 DEF Search, CheckVersion, LatestVersion, Find, marketOwn
  <2>2. CASE PostItem(a)
    BY <2>2 DEF PostItem, Chained
  <2>3. CASE Change(a)
    BY <2>3 DEF Change, NextVerb
  <2> QED
    BY <2>1, <2>2, <2>3 DEF MarketWork
<1> QED
  BY <1>1, <1>2, <1>3 DEF MarketIInv, MarketAsked, Apart, Idle

(* Which states a verb looks for; only a deletion takes a rejected item.    *)
LEMMA SoughtIsLive ==
    ASSUME NEW v \in Verb, v # "delete" PROVE Sought(v) \subseteq Live
BY DEF Sought, Live, ItemState, Verb

(* What a step leaves of the commands of the others.                       *)
LEMMA MarketOthers ==
    ASSUME MarketIInv, NEW a \in Admin, MarketWork(a)
    PROVE  /\ ~ Idle(a) /\ UNCHANGED <<request, overlapped>>
           /\ \A b \in Admin \ {a} :
                UNCHANGED <<stage[b], verb[b], family[b], target[b], todo[b]>>
<1>1. \A b \in Admin \ {a} : UNCHANGED <<verb[b], family[b], target[b], todo[b]>>
  <2> USE DEF MarketIInv, MarketStateOK, MarketplaceTypeOK
  <2>1. CASE Search(a) \/ CheckVersion(a)
    BY <2>1 DEF Search, CheckVersion
  <2>2. CASE PostItem(a)
    BY <2>2 DEF PostItem, Chained
  <2>3. CASE LatestVersion(a)
    BY <2>3 DEF LatestVersion
  <2>4. CASE Find(a)
    BY <2>4 DEF Find
  <2>5. CASE Change(a)
    BY <2>5 DEF Change, NextVerb
  <2> QED
    BY <2>1, <2>2, <2>3, <2>4, <2>5 DEF MarketWork
<1> QED
  BY <1>1, MarketWorkFrame DEF MarketIInv, MarketStateOK

(* The steps that change no item.                                          *)
LEMMA MarketLookKeeps ==
    ASSUME MarketIInv, ~ overlapped, NEW a \in Admin,
           Search(a) \/ CheckVersion(a) \/ LatestVersion(a) \/ Find(a)
    PROVE  OneFamily' /\ StillFresh' /\ StillSought' /\ OneLiveVersion'
<1>1. MarketWork(a)
  BY DEF MarketWork
<1>2. /\ UNCHANGED <<items, verb, itemIds, request, overlapped>> /\ ~ Idle(a)
      /\ \A b \in Admin \ {a} : UNCHANGED <<stage[b], family[b], target[b]>>
  BY <1>1, MarketOthers DEF Search, CheckVersion, LatestVersion, Find
<1>3. /\ stage \in [Admin -> MarketStage] /\ family \in [Admin -> Nat] /\ target \in [Admin -> Nat]
      /\ items \subseteq Item /\ MarketAsked /\ OneFamily /\ StillFresh /\ StillSought /\ ItemsDiffer
  BY DEF MarketIInv, MarketStateOK, AdminsTypeOK, MarketplaceTypeOK
<1> USE DEF Proceed, Fail, Complain, Goto
<1>4. /\ stage'[a] = "post" =>
           \A i \in items : i.family = family'[a] /\ i.state \in Live => i.version # request[a].version
      /\ stage'[a] \in {"checkVersion", "post"} /\ request[a].kind = "blueprint" =>
           \A i \in items : i.kind = "blueprint" => i.family = family'[a]
  <2>1. CASE Search(a)
    <3>1. CASE stage'[a] = "idle"
      BY <3>1
    <3>2. CASE Rivals(a) = {} /\ stage'[a] = "post" /\ UNCHANGED family
      <4>1. family[a] = 0
        BY <1>2, <1>3, <2>1 DEF Search, MarketAsked
      <4>2. \A i \in items : i.family # 0
        BY <1>3 DEF Item
      <4>3. request[a].kind = "blueprint" => \A i \in items : i.kind # "blueprint"
        BY <3>2 DEF Rivals
      <4> QED
        BY <3>2, <4>1, <4>2, <4>3
    <3>3. ASSUME NEW i \in Rivals(a), family' = [family EXCEPT ![a] = i.family], stage'[a] = "checkVersion"
          PROVE  <1>4
      <4>1. i \in items /\ (request[a].kind = "blueprint" => i.kind = "blueprint") /\ family'[a] = i.family
        BY <1>3, <3>3 DEF Rivals
      <4> QED
        BY <3>3, <4>1, <1>3 DEF OneFamily
    <3> QED
      BY <1>3, <2>1, <3>1, <3>2, <3>3 DEF Search
  <2>2. CASE CheckVersion(a)
    <3>1. stage[a] = "checkVersion" /\ UNCHANGED family
      BY <2>2 DEF CheckVersion
    <3>2. stage'[a] = "post" =>
            \A i \in items : i.family = family[a] /\ i.state \in Live => i.version # request[a].version
      BY <1>3, <2>2 DEF CheckVersion
    <3> QED
      BY <1>3, <3>1, <3>2 DEF OneFamily
  <2>3. CASE LatestVersion(a) \/ Find(a)
    BY <1>3, <2>3 DEF LatestVersion, Find
  <2> QED
    BY <2>1, <2>2, <2>3
<1>5. stage'[a] = "change" => \A i \in items : i.id = target'[a] => i.state \in Sought(verb[a])
  <2>1. CASE Search(a) \/ CheckVersion(a) \/ LatestVersion(a)
    BY <1>3, <2>1 DEF Search, CheckVersion, LatestVersion
  <2>2. CASE Find(a)
    BY <1>3, <2>2 DEF Find, Candidates, ItemsDiffer
  <2> QED
    BY <2>1, <2>2
<1>6. OneFamily'
  BY <1>2, <1>3, <1>4 DEF OneFamily
<1>7. StillFresh'
  BY <1>2, <1>3, <1>4 DEF StillFresh
<1>8. StillSought' /\ OneLiveVersion'
  BY <1>2, <1>3, <1>5 DEF MarketIInv, StillSought, OneLiveVersion
<1> QED
  BY <1>6, <1>7, <1>8

(* A publication: nobody else publishes, and the identity is new.          *)
LEMMA PostItemKeeps ==
    ASSUME MarketIInv, ~ overlapped, NEW a \in Admin, PostItem(a)
    PROVE  OneFamily' /\ StillFresh' /\ StillSought' /\ OneLiveVersion'
<1>1. MarketWork(a)
  BY DEF MarketWork
<1>2. /\ ~ Idle(a) /\ UNCHANGED <<request, overlapped, target, family>>
      /\ \A b \in Admin \ {a} : UNCHANGED <<stage[b], verb[b]>>
  BY <1>1, MarketOthers DEF PostItem
<1>3. stage'[a] \notin {"checkVersion", "post", "change"}
  BY DEF MarketIInv, MarketStateOK, AdminsTypeOK, PostItem, Chained, Proceed, Fail, Complain, Goto
<1>4. CASE UNCHANGED items
  <2>1. OneFamily' /\ StillFresh'
    BY <1>2, <1>3, <1>4 DEF MarketIInv, OneFamily, StillFresh
  <2> QED
    BY <1>2, <1>3, <1>4, <2>1 DEF MarketIInv, StillSought, OneLiveVersion
<1>5. CASE items' = items \cup {Posted(a)}
  <2> DEFINE new == Posted(a)
  <2>1. /\ new.id = itemIds + 1 /\ new.version = request[a].version /\ new.kind = request[a].kind
        /\ new.family = (IF family[a] = 0 THEN itemIds + 1 ELSE family[a])
        /\ items' = items \cup {new}
    BY <1>5 DEF Posted
  <2> HIDE DEF new
  <2>2. stage[a] = "post" /\ request[a].op \in Publication
    BY <1>2 DEF PostItem, MarketIInv, MarketAsked
  <2>3. \A b \in Admin \ {a} : stage[b] \notin {"checkVersion", "post"}
    BY <1>2, <2>2 DEF MarketIInv, MarketAsked, Apart, Idle
  <2>4. \A b \in Admin : target[b] # new.id
    BY <2>1 DEF MarketIInv, MarketStateOK, MarketplaceTypeOK, ItemsDiffer
  <2>5. \A i \in items : new.kind = "blueprint" /\ i.kind = "blueprint" => i.family = new.family
    <3>1. \A i \in items : i.family # 0
      BY DEF MarketIInv, MarketStateOK, MarketplaceTypeOK, Item
    <3> QED
      BY <2>1, <2>2, <3>1 DEF MarketIInv, OneFamily
  <2>6. \A i \in items : i.state \in Live /\ i.family = new.family => i.version # new.version
    <3>1. \A i \in items : i.family # itemIds + 1
      BY DEF MarketIInv, MarketStateOK, MarketplaceTypeOK, ItemsDiffer, Item
    <3> QED
      BY <2>1, <2>2, <3>1 DEF MarketIInv, StillFresh
  <2>7. OneFamily'
    BY <1>2, <1>3, <2>1, <2>3, <2>5 DEF MarketIInv, OneFamily
  <2>8. StillFresh'
    BY <1>2, <1>3, <2>3 DEF StillFresh
  <2>9. StillSought'
    BY <1>2, <1>3, <2>1, <2>4 DEF MarketIInv, StillSought
  <2>10. OneLiveVersion'
    <3>1. ASSUME NEW i \in items, {i.state, new.state} \subseteq Live, i.version = new.version,
                 i.family = new.family \/ {i.kind, new.kind} = {"blueprint"}
          PROVE  FALSE
      BY <2>5, <2>6, <3>1
    <3>2. \A i \in items' : i \in items \/ i = new
      BY <2>1
    <3> QED
      BY <1>2, <3>1, <3>2 DEF MarketIInv, OneLiveVersion
  <2> QED
    BY <2>7, <2>8, <2>9, <2>10
<1> QED
  BY <1>4, <1>5 DEF PostItem

(* A change: a live item comes from a live one, and a command that runs     *)
(* beside this one is an update, to which every live state is the same, or  *)
(* runs beside an update, which keeps the state.                           *)
LEMMA ChangeKeeps ==
    ASSUME MarketIInv, ~ overlapped, NEW a \in Admin, Change(a)
    PROVE  OneFamily' /\ StillFresh' /\ StillSought' /\ OneLiveVersion'
<1>1. MarketWork(a)
  BY DEF MarketWork
<1>2. /\ ~ Idle(a) /\ UNCHANGED <<request, overlapped, target, family>>
      /\ \A b \in Admin \ {a} : UNCHANGED <<stage[b], verb[b]>>
  BY <1>1, MarketOthers DEF Change
<1>3. stage'[a] \notin {"checkVersion", "post", "change"}
  BY DEF MarketIInv, MarketStateOK, AdminsTypeOK, Change, NextVerb, Proceed, Fail, Complain, Goto
<1>4. CASE items' \subseteq items
  <2>1. OneFamily' /\ StillFresh'
    BY <1>2, <1>3, <1>4 DEF MarketIInv, OneFamily, StillFresh
  <2> QED
    BY <1>2, <1>3, <1>4, <2>1 DEF MarketIInv, StillSought, OneLiveVersion
<1>5. ASSUME NEW i \in items, i.id = target[a], verb[a] # "delete",
             items' = (items \ {i}) \cup {ChangedItem(a, i)}
      PROVE  OneFamily' /\ StillFresh' /\ StillSought' /\ OneLiveVersion'
  <2>1. PICK c : /\ items' = (items \ {i}) \cup {c}
                 /\ c.id = i.id /\ c.version = i.version /\ c.family = i.family /\ c.kind = i.kind
                 /\ c.state \in {i.state, ChangedState(verb[a], i.state)}
    BY <1>2, <1>5, ChangedItemIs DEF MarketIInv
  <2>2. stage[a] = "change" /\ request[a] \in MarketRequest /\ verb[a] \in Verb
    BY <1>2, RequestParts DEF Change, MarketIInv, MarketAsked, Publication, Verb
  <2>3. i.state \in Live
    BY <1>5, <2>2, SoughtIsLive DEF MarketIInv, StillSought
  <2>4. OneLiveVersion'
    <3>1. \A j \in items' : j \in items \ {i} \/ j = c
      BY <2>1
    <3>2. ASSUME NEW j \in items \ {i}, {j.state, c.state} \subseteq Live, j.version = c.version,
                 j.family = c.family \/ {j.kind, c.kind} = {"blueprint"}
          PROVE  FALSE
      BY <2>1, <2>3, <3>2 DEF MarketIInv, OneLiveVersion
    <3> QED
      BY <1>2, <3>1, <3>2 DEF MarketIInv, OneLiveVersion
  <2>5. StillFresh'
    BY <1>2, <1>3, <2>1, <2>3 DEF MarketIInv, StillFresh
  <2>6. OneFamily'
    BY <1>2, <1>3, <2>1 DEF MarketIInv, OneFamily
  <2>7. ASSUME NEW b \in Admin \ {a}, stage[b] = "change", target[b] = i.id
        PROVE  c.state \in Sought(verb[b])
    <3>1. /\ {request[a].op, request[b].op} \subseteq Publication \cup {"update"}
          /\ ~ {request[a].op, request[b].op} \subseteq Publication
      BY <1>2, <2>7 DEF MarketIInv, Apart, Idle
    <3>2. CASE request[b].op \in Publication
      <4>1. request[a].op = "update" /\ verb[a] = "update"
        BY <1>2, <3>1, <3>2 DEF MarketIInv, MarketAsked, Publication
      <4> QED
        BY <1>5, <2>1, <2>7, <4>1 DEF MarketIInv, StillSought, ChangedState
    <3>3. CASE request[b].op = "update"
      <4>1. verb[b] = "update"
        BY <2>7, <3>3 DEF MarketIInv, MarketAsked, Idle, Publication
      <4>2. verb[a] \in {"new", "existing", "approve", "publish", "update"}
        BY <1>2, <3>1 DEF MarketIInv, MarketAsked, Publication
      <4>3. c.state \in Live
        BY <2>1, <2>3, <4>2 DEF ChangedState, Live, ItemState
      <4> QED
        BY <4>1, <4>3 DEF Sought
    <3> QED
      BY <3>1, <3>2, <3>3
  <2>8. StillSought'
    BY <1>2, <1>3, <2>1, <2>7 DEF MarketIInv, StillSought
  <2> QED
    BY <2>4, <2>5, <2>6, <2>8
<1> QED
  BY <1>4, <1>5 DEF Change

LEMMA MarketStep == MarketIInv /\ [MarketplaceNext]_marketVars => MarketIInv'
<1> SUFFICES ASSUME MarketIInv, [MarketplaceNext]_marketVars PROVE MarketIInv'
  OBVIOUS
<1>1. ASSUME NEW a \in Admin, MarketBegin(a) PROVE MarketIInv'
  BY <1>1, MarketBeginKeeps
<1>2. ASSUME NEW a \in Admin, MarketWork(a) PROVE MarketIInv'
  <2>1. AdminsTypeOK(MarketStage, MarketRequest)' /\ overlapped' = overlapped
    BY <1>2, MarketWorkFrame DEF MarketIInv, MarketStateOK
  <2>2. CASE overlapped
    BY <1>2, <2>1, <2>2, MarketWorkTypes, MarketWorkAsked
       DEF MarketIInv, MarketStateOK, OneFamily, StillFresh, StillSought, OneLiveVersion
  <2>3. CASE ~ overlapped
    BY <1>2, <2>1, <2>3, MarketWorkTypes, MarketWorkAsked, MarketLookKeeps, PostItemKeeps,
       ChangeKeeps DEF MarketIInv, MarketStateOK, MarketWork
  <2> QED
    BY <2>2, <2>3
<1>3. CASE UNCHANGED marketVars
  BY <1>3 DEF marketVars, marketOwn, admins, MarketIInv, MarketStateOK, AdminsTypeOK,
     MarketplaceTypeOK, ItemsDiffer, MarketAsked, Apart, Idle, OneFamily, StillFresh, StillSought,
     OneLiveVersion
<1> QED
  BY <1>1, <1>2, <1>3 DEF MarketplaceNext, MarketplaceFinished

(* The invariant holds in every state of the marketplace.                  *)
THEOREM MarketInvariant == MarketplaceSpec => []MarketIInv
BY MarketInit, MarketStep, PTL DEF MarketplaceSpec

(* The items, the verbs and the targets of the commands have their types.   *)
THEOREM MarketTypes == MarketplaceSpec => []MarketplaceTypeOK
<1>1. MarketIInv => MarketplaceTypeOK
  BY DEF MarketIInv, MarketStateOK
<1> QED
  BY <1>1, MarketInvariant, PTL

(* A version is that of one item that is not rejected, through every        *)
(* interleaving of publications, updates and the other commands that is     *)
(* meant to be.                                                            *)
THEOREM MarketOneLiveVersion == MarketplaceSpec => []OneLiveVersion
<1>1. MarketIInv => OneLiveVersion
  BY DEF MarketIInv
<1> QED
  BY <1>1, MarketInvariant, PTL

-----------------------------------------------------------------------------
(* What a command that ends without an error has done.                      *)

(* What a command relies on of its own: a publication has one version to    *)
(* find, and goes as far as it was asked to.                               *)
PublishesOne ==
    \A a \in Admin : ~ Idle(a) /\ request[a].op \in Publication =>
        /\ stage[a] \in {"search", "checkVersion", "post"} =>
             /\ verb[a] = request[a].op
             /\ todo[a] = {request[a].version}
        /\ stage[a] # "latest"
        /\ stage[a] \in {"find", "change"} =>
             /\ verb[a] \in {"approve", "publish"}
             /\ request[a].then # "nothing"
             /\ verb[a] = "publish" => request[a].then = "publish"
        /\ stage[a] = "find" => todo[a] = {request[a].version}
        /\ stage[a] = "change" =>
             /\ todo[a] = {}
             /\ \A i \in items : i.id = target[a] => i.version = request[a].version

(* The item of a publication stays a live one, whichever its commands find. *)
OwnStands ==
    ~ overlapped => \A a \in Admin :
        request[a].op \in Publication /\ stage[a] \in {"find", "change"} =>
            \E i \in OfVersion(items, request[a]) : i.kind = request[a].kind

UnpublishesAll(a) ==
    /\ request[a].op = "unpublish" /\ request[a].version = 0 /\ request[a].all
    /\ request[a].places = {} /\ request[a].kind = "blueprint"

(* With more versions above it than a listing returns.                     *)
Beyond(v, is) == Cardinality(Above(v, VersionsOf(is))) >= MemberCount

InStore(i) == i.state = "PUBLISHED" /\ i.kind = "blueprint"

(* What is still published is to be found yet, in hand, or beyond reach.    *)
StillPublished ==
    ~ overlapped => \A a \in Admin : UnpublishesAll(a) =>
        /\ stage[a] = "find" =>
             \A i \in items : InStore(i) => i.version \in todo[a] \/ Beyond(i.version, items)
        /\ stage[a] = "change" =>
             \A i \in items : InStore(i) =>
                i.version \in todo[a] \/ i.id = target[a] \/ Beyond(i.version, items)

MarketAtWork == IsFiniteSet(items) /\ PublishesOne /\ OwnStands /\ StillPublished

LEMMA MarketAtWorkInit == MarketplaceInit => MarketAtWork
<1> SUFFICES ASSUME MarketplaceInit PROVE MarketAtWork
  OBVIOUS
<1>1. \A a \in Admin : stage[a] = "idle"
  BY DEF MarketplaceInit, AdminsInit
<1>2. IsFiniteSet(items)
  <2>1. CASE items = {}
    BY <2>1, FS_EmptySet
  <2>2. ASSUME NEW s \in ItemState, NEW k \in Kind,
               items = {[id |-> 1, family |-> 1, kind |-> k, version |-> 1, state |-> s,
                         places |-> Once({DefaultPlace})]}
        PROVE  IsFiniteSet(items)
    BY <2>2, FS_Singleton
  <2>3. ASSUME NEW n \in {2, 3},
               items = {[id |-> v, family |-> 1, kind |-> "blueprint", version |-> v, state |-> "PUBLISHED",
                         places |-> Once(Place)] : v \in 1..n}
        PROVE  IsFiniteSet(items)
    <3> DEFINE f(v) == [id |-> v, family |-> 1, kind |-> "blueprint", version |-> v, state |-> "PUBLISHED",
                        places |-> Once(Place)]
    <3>1. items = {f(1), f(2)} \/ items = {f(1), f(2)} \cup {f(3)}
      <4>1. \A v \in 1..n : v \in {1, 2, 3} /\ (v = 3 => n = 3)
        OBVIOUS
      <4>2. {1, 2} \subseteq 1..n /\ (n = 3 => 3 \in 1..n)
        OBVIOUS
      <4>3. items = {f(v) : v \in 1..n}
        BY <2>3
      <4> HIDE DEF f
      <4> QED
        BY <4>1, <4>2, <4>3
    <3> HIDE DEF f
    <3>2. IsFiniteSet({f(1)} \cup {f(2)}) /\ IsFiniteSet({f(3)})
      BY FS_Singleton, FS_Union
    <3>3. {f(1), f(2)} = {f(1)} \cup {f(2)}
      OBVIOUS
    <3>4. IsFiniteSet({f(1), f(2)} \cup {f(3)})
      BY <3>2, <3>3, FS_Union
    <3> QED
      BY <3>1, <3>2, <3>3, <3>4
  <2> QED
    BY <2>1, <2>2, <2>3 DEF MarketplaceInit, MarketplaceStart
<1> QED
  BY <1>1, <1>2 DEF MarketAtWork, PublishesOne, OwnStands, StillPublished, Idle

LEMMA MarketAtWorkBegin ==
    ASSUME MarketIInv, MarketAtWork, NEW a \in Admin, MarketBegin(a) PROVE MarketAtWork'
<1>1. PICK r \in MarketRequest :
        /\ Start(a, r, IF r.op \in Publication THEN "search"
                       ELSE IF r.version = 0 THEN "latest" ELSE "find", MarketClash)
        /\ verb' = [verb EXCEPT ![a] = r.op]
        /\ todo' = [todo EXCEPT ![a] = IF r.version = 0 THEN {} ELSE {r.version}]
        /\ target' = [target EXCEPT ![a] = 0]
        /\ UNCHANGED <<items, itemIds>>
  BY DEF MarketBegin
<1>2. /\ Idle(a)
      /\ stage' = [stage EXCEPT ![a] = IF r.op \in Publication THEN "search"
                       ELSE IF r.version = 0 THEN "latest" ELSE "find"]
      /\ request' = [request EXCEPT ![a] = r]
      /\ ~ overlapped' => ~ overlapped
  BY <1>1 DEF Start, Goto
<1>3. MarketStateOK /\ stage \in [Admin -> MarketStage] /\ request \in [Admin -> MarketRequest \cup {NoRequest}]
  BY DEF MarketIInv, MarketStateOK, AdminsTypeOK
<1>4. r.op \in Publication => r.version # 0
  BY MarketplaceAssumption DEF Publication
<1>5. /\ \A b \in Admin \ {a} : UNCHANGED <<stage[b], request[b], verb[b], todo[b], target[b]>>
      /\ stage'[a] \in {"search", "latest", "find"} /\ request'[a] = r
      /\ r.op \in Publication => stage'[a] = "search" /\ verb'[a] = r.op /\ todo'[a] = {r.version}
      /\ r.version = 0 => stage'[a] # "find"
  BY <1>1, <1>2, <1>3, <1>4 DEF MarketStateOK, MarketplaceTypeOK, Publication
<1>6. PublishesOne'
  <2> SUFFICES ASSUME NEW b \in Admin, ~ Idle(b)', request'[b].op \in Publication
               PROVE  /\ stage'[b] \in {"search", "checkVersion", "post"} =>
                           verb'[b] = request'[b].op /\ todo'[b] = {request'[b].version}
                      /\ stage'[b] # "latest"
                      /\ stage'[b] \in {"find", "change"} =>
                           /\ verb'[b] \in {"approve", "publish"}
                           /\ request'[b].then # "nothing"
                           /\ verb'[b] = "publish" => request'[b].then = "publish"
                      /\ stage'[b] = "find" => todo'[b] = {request'[b].version}
                      /\ stage'[b] = "change" =>
                           /\ todo'[b] = {}
                           /\ \A i \in items : i.id = target'[b] => i.version = request'[b].version
    BY <1>1 DEF PublishesOne
  <2>1. CASE b = a
    BY <1>5, <2>1
  <2>2. CASE b # a
    <3>1. UNCHANGED <<stage[b], request[b], verb[b], todo[b], target[b]>> /\ ~ Idle(b)
      BY <1>5, <2>2 DEF Idle
    <3> QED
      BY <3>1 DEF MarketAtWork, PublishesOne
  <2> QED
    BY <2>1, <2>2
<1>7. StillPublished'
  BY <1>1, <1>2, <1>5 DEF MarketAtWork, StillPublished, UnpublishesAll, Publication
<1>8. OwnStands'
  BY <1>1, <1>2, <1>5 DEF MarketAtWork, OwnStands, OfVersion
<1> QED
  BY <1>1, <1>6, <1>7, <1>8 DEF MarketAtWork

(* The versions there are: a change leaves them alone.                      *)
LEMMA ChangeKeepsVersions ==
    ASSUME MarketIInv, NEW a \in Admin, ~ Idle(a), NEW i \in items, NEW is,
           is = (items \ {i}) \cup {ChangedItem(a, i)}
    PROVE  VersionsOf(is) = VersionsOf(items)
<1>1. ChangedItem(a, i).version = i.version
  BY ChangedItemIs DEF MarketIInv
<1> QED
  BY <1>1 DEF VersionsOf

LEMMA PublishesOneWork ==
    ASSUME MarketIInv, PublishesOne, NEW a \in Admin, MarketWork(a) PROVE PublishesOne'
<1>1. /\ MarketStateOK /\ MarketAsked /\ ItemsDiffer
      /\ ~ Idle(a) /\ UNCHANGED request
      /\ \A b \in Admin \ {a} : stage'[b] = stage[b]
  BY MarketWorkFrame DEF MarketIInv, MarketStateOK
<1>2. /\ \A b \in Admin \ {a} : UNCHANGED <<verb[b], todo[b], target[b]>>
      /\ stage \in [Admin -> MarketStage] /\ todo \in [Admin -> SUBSET Version] /\ target \in [Admin -> Nat]
      /\ verb \in [Admin -> Verb \cup {"none"}]
  BY <1>1 DEF MarketStateOK, AdminsTypeOK, MarketplaceTypeOK, MarketWork, Search, marketOwn,
     CheckVersion, PostItem, Chained, LatestVersion, Find, Change, NextVerb
<1>3. ASSUME NEW j \in items', NEW b \in Admin, j.id = target[b]
      PROVE  \E i \in items : i.id = target[b] /\ i.version = j.version
  <2>1. CASE UNCHANGED items
    BY <1>3, <2>1
  <2>2. CASE items' = items \cup {Posted(a)}
    BY <1>1, <1>2, <1>3, <2>2 DEF ItemsDiffer, MarketStateOK, MarketplaceTypeOK, Posted
  <2>3. ASSUME NEW i \in items, items' \subseteq (items \ {i}) \cup {ChangedItem(a, i)}
        PROVE  \E k \in items : k.id = target[b] /\ k.version = j.version
    <3>1. ChangedItem(a, i).id = i.id /\ ChangedItem(a, i).version = i.version
      BY <1>1, ChangedItemIs
    <3> QED
      BY <1>3, <2>3, <3>1
  <2>4. CASE Change(a)
    <3>1. UNCHANGED items \/ \E i \in items : items' \subseteq (items \ {i}) \cup {ChangedItem(a, i)}
      BY <2>4 DEF Change
    <3> QED
      BY <2>1, <2>3, <3>1
  <2> QED
    BY <2>1, <2>2, <2>4 DEF MarketWork, Search, marketOwn, CheckVersion, PostItem, LatestVersion,
       Find
<1>4. ASSUME NEW b \in Admin \ {a}, ~ Idle(b)', request[b].op \in Publication
      PROVE  /\ stage[b] = "change" => \A i \in items' : i.id = target[b] => i.version = request[b].version
             /\ ~ Idle(b)
  BY <1>1, <1>3, <1>4 DEF PublishesOne, Idle
<1>5. ASSUME request[a].op \in Publication, stage'[a] # "idle"
      PROVE  /\ stage'[a] \in {"search", "checkVersion", "post"} =>
                  verb'[a] = request[a].op /\ todo'[a] = {request[a].version}
             /\ stage'[a] # "latest"
             /\ stage'[a] \in {"find", "change"} =>
                  /\ verb'[a] \in {"approve", "publish"}
                  /\ request[a].then # "nothing"
                  /\ verb'[a] = "publish" => request[a].then = "publish"
             /\ stage'[a] = "find" => todo'[a] = {request[a].version}
             /\ stage'[a] = "change" =>
                  /\ todo'[a] = {}
                  /\ \A i \in items' : i.id = target'[a] => i.version = request[a].version
  <2> USE <1>1, <1>2, <1>5 DEF PublishesOne, Proceed, Fail, Complain, Goto
  <2>1. CASE Search(a) \/ CheckVersion(a)
    BY <2>1 DEF Search, CheckVersion, marketOwn
  <2>2. CASE PostItem(a)
    BY <2>2 DEF PostItem, Chained
  <2>3. CASE LatestVersion(a)
    BY <2>3 DEF LatestVersion
  <2>4. CASE Find(a)
    <3>1. PICK v \in todo[a], i \in items :
            /\ stage[a] = "find" /\ i.version = v
            /\ todo' = [todo EXCEPT ![a] = @ \ {v}] /\ target' = [target EXCEPT ![a] = i.id]
            /\ stage' = [stage EXCEPT ![a] = "change"] /\ UNCHANGED <<items, verb>>
      BY <2>4 DEF Find, Candidates
    <3>2. todo[a] = {request[a].version} /\ v = request[a].version /\ todo'[a] = {} /\ target'[a] = i.id
      BY <3>1 DEF Idle
    <3>3. \A j \in items : j.id = i.id => j = i
      BY DEF ItemsDiffer
    <3> QED
      BY <3>1, <3>2, <3>3
  <2>5. CASE Change(a)
    BY <2>5 DEF Change, NextVerb
  <2> QED
    BY <2>1, <2>2, <2>3, <2>4, <2>5 DEF MarketWork
<1>6. ASSUME NEW b \in Admin, ~ Idle(b)', request[b].op \in Publication
      PROVE  /\ stage'[b] \in {"search", "checkVersion", "post"} =>
                  verb'[b] = request[b].op /\ todo'[b] = {request[b].version}
             /\ stage'[b] # "latest"
             /\ stage'[b] \in {"find", "change"} =>
                  /\ verb'[b] \in {"approve", "publish"}
                  /\ request[b].then # "nothing"
                  /\ verb'[b] = "publish" => request[b].then = "publish"
             /\ stage'[b] = "find" => todo'[b] = {request[b].version}
             /\ stage'[b] = "change" =>
                  /\ todo'[b] = {}
                  /\ \A i \in items' : i.id = target'[b] => i.version = request[b].version
  <2>1. CASE b = a
    BY <1>5, <1>6, <2>1 DEF Idle
  <2>2. CASE b # a
    BY <1>1, <1>2, <1>4, <1>6, <2>2 DEF PublishesOne, Idle
  <2> QED
    BY <2>1, <2>2
<1> QED
  BY <1>1, <1>6 DEF PublishesOne

(* Only one command is at work when it unpublishes.                         *)
LEMMA UnpublishesAlone ==
    ASSUME MarketIInv, ~ overlapped, NEW a \in Admin, ~ Idle(a), UnpublishesAll(a)
    PROVE  \A b \in Admin \ {a} : Idle(b)
BY DEF MarketIInv, Apart, UnpublishesAll, Publication

(* What a listing of all published versions leaves out is beyond reach.     *)
LEMMA ListsTheLatest ==
    ASSUME IsFiniteSet(items), NEW is \in SUBSET items, NEW i \in is, MarketplaceTypeOK,
           Cardinality(Above(i.version, VersionsOf(is))) >= MemberCount
    PROVE  Beyond(i.version, items)
<1> DEFINE few == Above(i.version, VersionsOf(is))
           all == Above(i.version, VersionsOf(items))
<1>1. few \subseteq all
  BY DEF Above, VersionsOf
<1>2. IsFiniteSet(VersionsOf(items))
  <2> DEFINE f == [k \in items |-> k.version]
  <2>1. f \in Surjection(items, VersionsOf(items))
    BY DEF Surjection, VersionsOf
  <2> QED
    BY <2>1, FS_Surjection
<1>3. IsFiniteSet(all)
  BY <1>2, FS_Subset DEF Above
<1>4. Cardinality(few) <= Cardinality(all) /\ Cardinality(few) \in Nat /\ Cardinality(all) \in Nat
  BY <1>1, <1>3, FS_Subset, FS_CardinalityType
<1> QED
  BY <1>4, MarketplaceAssumption DEF Beyond

LEMMA FiniteItems ==
    ASSUME MarketIInv, IsFiniteSet(items), NEW a \in Admin, MarketWork(a) PROVE IsFiniteSet(items')
<1>1. CASE UNCHANGED items
  BY <1>1
<1>2. CASE items' = items \cup {Posted(a)}
  BY <1>2, FS_AddElement
<1>3. ASSUME NEW i \in items, items' \subseteq (items \ {i}) \cup {ChangedItem(a, i)} PROVE IsFiniteSet(items')
  <2>1. IsFiniteSet(items \cup {ChangedItem(a, i)})
    BY FS_AddElement
  <2>2. items' \subseteq items \cup {ChangedItem(a, i)}
    BY <1>3
  <2> QED
    BY <2>1, <2>2, FS_Subset
<1>4. CASE Change(a)
  <2>1. UNCHANGED items \/ \E i \in items : items' \subseteq (items \ {i}) \cup {ChangedItem(a, i)}
    BY <1>4 DEF Change
  <2> QED
    BY <1>1, <1>3, <2>1
<1> QED
  BY <1>1, <1>2, <1>4 DEF MarketWork, Search, marketOwn, CheckVersion, PostItem, LatestVersion,
     Find

LEMMA StillPublishedWork ==
    ASSUME MarketIInv, MarketAtWork, NEW a \in Admin, MarketWork(a) PROVE StillPublished'
<1>1. /\ MarketStateOK /\ MarketAsked /\ ItemsDiffer /\ OneLiveVersion
      /\ ~ Idle(a) /\ UNCHANGED <<request, overlapped>>
      /\ \A b \in Admin \ {a} : stage'[b] = stage[b]
  BY MarketWorkFrame DEF MarketIInv, MarketStateOK
<1>2. /\ stage \in [Admin -> MarketStage] /\ todo \in [Admin -> SUBSET Version] /\ target \in [Admin -> Nat]
      /\ MarketplaceTypeOK
  BY <1>1 DEF MarketStateOK, AdminsTypeOK, MarketplaceTypeOK
<1> SUFFICES ASSUME ~ overlapped, NEW b \in Admin, UnpublishesAll(b)
             PROVE  /\ stage'[b] = "find" =>
                         \A i \in items' : InStore(i) => i.version \in todo'[b] \/ Beyond(i.version, items')
                    /\ stage'[b] = "change" =>
                         \A i \in items' : InStore(i) =>
                            i.version \in todo'[b] \/ i.id = target'[b] \/ Beyond(i.version, items')
  BY <1>1 DEF StillPublished, UnpublishesAll
<1>3. CASE b # a
  <2>1. stage'[b] = "idle"
    BY <1>1, <1>3, UnpublishesAlone DEF Idle
  <2> QED
    BY <2>1
<1>4. CASE b = a
  <2>1. request[a].op = "unpublish" /\ verb[a] = "unpublish" /\ request[a].all /\ request[a].op \notin Publication
    BY <1>1, <1>4 DEF UnpublishesAll, MarketAsked, Publication
  <2> USE <1>1, <1>2, <1>4, <2>1 DEF Proceed, Fail, Complain, Goto
  <2>2. CASE Search(a) \/ CheckVersion(a) \/ PostItem(a)
    BY <2>2 DEF Search, CheckVersion, PostItem, MarketAsked
  <2>3. CASE LatestVersion(a)
    <3> DEFINE sought == {i \in items : InStore(i)}
    <3>1. Candidates(a) = sought
      BY DEF Candidates, Sought, UnpublishesAll, Publication, InStore
    <3>2. \A f \in {i.family : i \in sought} : OfFamily(sought, f) = sought
      BY DEF OfFamily, MarketIInv, OneFamily, InStore
    <3>3. UNCHANGED items /\ (stage'[a] = "idle" \/ (stage'[a] = "find" /\ todo'[a] = Listed(VersionsOf(sought))))
      <4> HIDE DEF sought
      <4>1. \/ stage' = [stage EXCEPT ![a] = "idle"]
            \/ /\ stage' = [stage EXCEPT ![a] = "find"]
               /\ \E f \in {i.family : i \in sought} :
                    todo' = [todo EXCEPT ![a] = Listed(VersionsOf(OfFamily(sought, f)))]
        BY <2>3, <3>1 DEF LatestVersion
      <4>2. UNCHANGED items
        BY <2>3 DEF LatestVersion
      <4>3. CASE stage' = [stage EXCEPT ![a] = "idle"]
        BY <4>2, <4>3
      <4>4. ASSUME NEW f \in {i.family : i \in sought}, stage' = [stage EXCEPT ![a] = "find"],
                   todo' = [todo EXCEPT ![a] = Listed(VersionsOf(OfFamily(sought, f)))]
            PROVE  stage'[a] = "find" /\ todo'[a] = Listed(VersionsOf(sought))
        BY <3>2, <4>4
      <4> QED
        BY <4>1, <4>2, <4>3, <4>4
    <3>4. ASSUME NEW i \in items, InStore(i), i.version \notin Listed(VersionsOf(sought))
          PROVE  Beyond(i.version, items)
      <4>1. i \in sought /\ sought \in SUBSET items /\ i.version \in VersionsOf(sought)
        BY <3>4 DEF VersionsOf
      <4>2. Cardinality(Above(i.version, VersionsOf(sought))) \in Nat
        <5>1. IsFiniteSet(sought)
          BY FS_Subset DEF MarketAtWork
        <5>2. [k \in sought |-> k.version] \in Surjection(sought, VersionsOf(sought))
          BY DEF Surjection, VersionsOf
        <5>3. IsFiniteSet(VersionsOf(sought))
          BY <5>1, <5>2, FS_Surjection
        <5> QED
          BY <5>3, FS_Subset, FS_CardinalityType DEF Above
      <4> HIDE DEF sought
      <4>3. Cardinality(Above(i.version, VersionsOf(sought))) >= MemberCount
        BY <3>4, <4>1, <4>2, MarketplaceAssumption DEF Listed
      <4> QED
        BY <4>1, <4>3, ListsTheLatest DEF MarketAtWork
    <3> HIDE DEF sought
    <3> QED
      BY <3>3, <3>4
  <2>4. CASE Find(a)
    <3>1. UNCHANGED items
      BY <2>4 DEF Find
    <3>2. CASE stage'[a] = "idle"
      BY <3>2
    <3>3. ASSUME NEW v \in todo[a], NEW j \in items,
                 stage[a] = "find", j.version = v, InStore(j),
                 todo' = [todo EXCEPT ![a] = @ \ {v}], target' = [target EXCEPT ![a] = j.id],
                 stage' = [stage EXCEPT ![a] = "change"]
          PROVE  stage'[a] = "change" /\
                   \A i \in items : InStore(i) =>
                     i.version \in todo'[a] \/ i.id = target'[a] \/ Beyond(i.version, items)
      <4>1. target'[a] = j.id /\ todo'[a] = todo[a] \ {v}
        BY <3>3
      <4>2. \A i \in items : InStore(i) /\ i.version = v => i = j
        <5> SUFFICES ASSUME NEW i \in items, InStore(i), i.version = v PROVE i = j
          OBVIOUS
        <5>1. {i.state, j.state} \subseteq Live /\ {i.kind, j.kind} = {"blueprint"} /\ i.version = j.version
          BY <3>3 DEF InStore, Live, ItemState
        <5> QED
          BY <5>1 DEF OneLiveVersion
      <4>3. \A i \in items : InStore(i) => i.version \in todo[a] \/ Beyond(i.version, items)
        BY <3>3 DEF MarketAtWork, StillPublished
      <4> QED
        BY <3>3, <4>1, <4>2, <4>3
    <3>4. \A i \in Candidates(a) : i \in items /\ InStore(i)
      BY DEF Candidates, Sought, UnpublishesAll, Publication, InStore
    <3> QED
      BY <2>4, <3>1, <3>2, <3>3, <3>4 DEF Find
  <2>5. CASE Change(a)
    <3>1. CASE stage'[a] = "idle"
      BY <3>1
    <3>2. ASSUME NEW j \in items, j.id = target[a], stage[a] = "change",
                 items' = (items \ {j}) \cup {ChangedItem(a, j)}, todo' = todo
          PROVE  \A i \in items' : InStore(i) => i.version \in todo'[a] \/ Beyond(i.version, items')
      <4>1. ChangedItem(a, j).state = "ACCEPTED"
        <5>1. request[a].places = {} /\ j \in Item
          BY <3>2 DEF UnpublishesAll, MarketplaceTypeOK
        <5> QED
          BY <5>1 DEF ChangedItem, ChangedState, Item
      <4>2. VersionsOf(items') = VersionsOf(items)
        BY <3>2, ChangeKeepsVersions
      <4>3. \A i \in items \ {j} : InStore(i) => i.version \in todo[a] \/ Beyond(i.version, items)
        BY <3>2 DEF MarketAtWork, StillPublished, ItemsDiffer
      <4> QED
        BY <3>2, <4>1, <4>2, <4>3 DEF Beyond, InStore
    <3> QED
      BY <2>5, <3>1, <3>2 DEF Change, NextVerb
  <2> QED
    BY <2>2, <2>3, <2>4, <2>5 DEF MarketWork
<1> QED
  BY <1>3, <1>4

(* Only updates run beside a publication, and they keep the state.          *)
LEMMA OwnStandsWork ==
    ASSUME MarketIInv, MarketAtWork, NEW a \in Admin, MarketWork(a) PROVE OwnStands'
<1>1. /\ MarketStateOK /\ MarketAsked /\ ~ Idle(a) /\ UNCHANGED <<request, overlapped>>
      /\ \A b \in Admin \ {a} : UNCHANGED stage[b]
  BY MarketOthers DEF MarketIInv
<1> SUFFICES ASSUME ~ overlapped, NEW b \in Admin, request[b].op \in Publication, stage'[b] \in {"find", "change"}
             PROVE  \E i \in OfVersion(items', request[b]) : i.kind = request[b].kind
  BY <1>1 DEF OwnStands
<1>2. CASE a = b /\ PostItem(a)
  <2>1. CASE items' = items \cup {Posted(a)}
    <3>1. Posted(a) \in OfVersion(items', request[a]) /\ Posted(a).kind = request[a].kind
      BY <2>1 DEF OfVersion, Posted, Live, ItemState
    <3> QED
      BY <1>2, <3>1
  <2>2. CASE UNCHANGED items
    <3>1. stage'[a] = "idle" \/ items' = items \cup {Posted(a)}
      BY <1>1, <1>2 DEF PostItem, Fail, Complain, Goto, MarketStateOK, AdminsTypeOK
    <3> QED
      BY <1>2, <2>1, <3>1
  <2> QED
    BY <1>2, <2>1, <2>2 DEF PostItem
<1>3. CASE stage[b] \notin {"find", "change"} /\ ~ (a = b /\ PostItem(a))
  <2>1. a = b
    BY <1>1, <1>3
  <2>2. stage[a] # "latest"
    BY <1>1, <2>1 DEF MarketAtWork, PublishesOne
  <2> QED
    BY <1>1, <1>3, <2>1, <2>2 DEF MarketWork, Search, CheckVersion, LatestVersion, Find, Change,
       MarketStateOK, AdminsTypeOK, Proceed, Fail, Complain, Goto
<1>4. CASE stage[b] \in {"find", "change"} /\ ~ (a = b /\ PostItem(a))
  <2>1. PICK own \in OfVersion(items, request[b]) : own.kind = request[b].kind
    BY <1>4 DEF MarketAtWork, OwnStands
  <2>2. CASE items \subseteq items'
    BY <2>1, <2>2 DEF OfVersion
  <2>3. ASSUME NEW i \in items,
               items' = (items \ {i}) \cup (IF verb[a] = "delete" THEN {} ELSE {ChangedItem(a, i)})
        PROVE  \E j \in OfVersion(items', request[b]) : j.kind = request[b].kind
    <3>1. verb[a] \in {"new", "existing", "approve", "publish", "update"}
      <4>1. CASE a = b
        BY <1>1, <4>1 DEF MarketAsked, Publication
      <4>2. CASE a # b
        <5>1. request[a].op = "update"
          BY <1>1, <1>4, <4>2 DEF MarketIInv, Apart, Idle
        <5> QED
          BY <1>1, <5>1 DEF MarketAsked, Publication
      <4> QED
        BY <4>1, <4>2
    <3>2. /\ ChangedItem(a, i).version = i.version /\ ChangedItem(a, i).kind = i.kind
          /\ ChangedItem(a, i).state \in {i.state, ChangedState(verb[a], i.state)}
      BY <1>1, ChangedItemIs
    <3>3. i.state \in Live => ChangedItem(a, i).state \in Live
      BY <3>1, <3>2 DEF ChangedState, Live, ItemState
    <3>4. CASE own = i
      <4>1. ChangedItem(a, i) \in items'
        BY <2>3, <3>1
      <4> QED
        BY <2>1, <3>2, <3>3, <3>4, <4>1 DEF OfVersion
    <3>5. CASE own # i
      BY <2>1, <2>3, <3>5 DEF OfVersion
    <3> QED
      BY <3>4, <3>5
  <2>4. items \subseteq items' \/ Change(a)
    BY DEF MarketWork, Search, CheckVersion, PostItem, LatestVersion, Find
  <2> QED
    BY <2>2, <2>3, <2>4 DEF Change
<1> QED
  BY <1>2, <1>3, <1>4

LEMMA MarketAtWorkStep ==
    MarketIInv /\ MarketAtWork /\ [MarketplaceNext]_marketVars => MarketAtWork'
<1> SUFFICES ASSUME MarketIInv, MarketAtWork, [MarketplaceNext]_marketVars PROVE MarketAtWork'
  OBVIOUS
<1>1. ASSUME NEW a \in Admin, MarketWork(a) PROVE MarketAtWork'
  BY <1>1, FiniteItems, PublishesOneWork, OwnStandsWork, StillPublishedWork DEF MarketAtWork
<1>2. ASSUME UNCHANGED marketVars PROVE MarketAtWork'
  BY <1>2 DEF marketVars, marketOwn, admins, MarketAtWork, PublishesOne, OwnStands, OfVersion,
     StillPublished, UnpublishesAll, Beyond, InStore, Idle, Above, VersionsOf
<1> QED
  BY <1>1, <1>2, MarketAtWorkBegin DEF MarketplaceNext, MarketplaceFinished

(* The step in which a command on the marketplace ends.                     *)
MarketEnds ==
    \A a \in Admin : EndsSilently(a) /\ ~ overlapped' =>
         LET r == request[a]
         IN  /\ r.op \in Publication =>
                    /\ \E i \in OfVersion(items', r) : i.kind = r.kind
                    /\ Arrived(items', r) # {}
                    /\ r.then = "nothing" => \E i \in Arrived(items', r) : i.kind = r.kind
             /\ r.op = "unpublish" /\ r.version = 0 /\ r.all /\ r.places = {} /\ r.kind = "blueprint" =>
                    \A i \in items' :
                       i.state = "PUBLISHED" /\ i.kind = "blueprint" =>
                         Cardinality(Above(i.version, VersionsOf(items'))) >= MemberCount

(* A list of projects that is not empty names one, and naming more leaves   *)
(* it so.                                                                  *)
LEMMA GivenToSome ==
    ASSUME NEW a \in Admin, shared[a] \in Places, request[a].op \in Publication, NEW ps \in Places
    PROVE  SharedWith(Without(Appended(ps, Given(a)), {})) # {}
<1>1. Given(a) \in Places /\ \E p \in Place : Given(a)[p] > 0
  <2>1. CASE shared[a] = Once({})
    <3>1. Given(a) = Once({DefaultPlace}) /\ Given(a) \in Places
      BY <2>1, ListsOfPlaces DEF Given
    <3>2. Once({DefaultPlace})[DefaultPlace] = 1
      BY MarketplaceAssumption DEF Once
    <3>3. DefaultPlace \in Place /\ Given(a)[DefaultPlace] > 0
      BY <3>1, <3>2, MarketplaceAssumption
    <3> QED
      BY <3>1, <3>3
  <2>2. CASE shared[a] # Once({})
    <3>1. \E p \in Place : shared[a][p] # 0
      BY <2>2 DEF Once, Places
    <3> QED
      BY <2>2, <3>1 DEF Given, Places
  <2> QED
    BY <2>1, <2>2
<1>2. PICK p \in Place : Given(a)[p] > 0
  BY <1>1
<1>3. Appended(ps, Given(a))[p] > 0 /\ Without(Appended(ps, Given(a)), {})[p] = Appended(ps, Given(a))[p]
  BY <1>1, <1>2 DEF Appended, Without, Places
<1> QED
  BY <1>3 DEF SharedWith

LEMMA MarketEndsRight == MarketIInv /\ MarketAtWork /\ [MarketplaceNext]_marketVars => MarketEnds
<1> SUFFICES ASSUME MarketIInv, MarketAtWork, [MarketplaceNext]_marketVars,
                    NEW a \in Admin, EndsSilently(a), ~ overlapped'
             PROVE  /\ request[a].op \in Publication =>
                         /\ \E i \in OfVersion(items', request[a]) : i.kind = request[a].kind
                         /\ Arrived(items', request[a]) # {}
                         /\ request[a].then = "nothing" =>
                              \E i \in Arrived(items', request[a]) : i.kind = request[a].kind
                    /\ UnpublishesAll(a) =>
                         \A i \in items' : InStore(i) => Beyond(i.version, items')
  BY DEF MarketEnds, UnpublishesAll, Beyond, InStore
<1>1. ~ Idle(a) /\ stage'[a] = "idle" /\ a \notin complained'
  BY DEF EndsSilently
<1>2. /\ stage \in [Admin -> MarketStage] /\ todo \in [Admin -> SUBSET Version] /\ target \in [Admin -> Nat]
      /\ MarketplaceTypeOK /\ MarketStateOK /\ MarketAsked /\ ItemsDiffer
  BY DEF MarketIInv, MarketStateOK, AdminsTypeOK, MarketplaceTypeOK
<1>3. MarketWork(a)
  <2>1. CASE UNCHANGED marketVars
    BY <1>1, <2>1 DEF marketVars, admins, Idle
  <2>2. ASSUME NEW b \in Admin, MarketBegin(b) PROVE FALSE
    <3>1. Idle(b) /\ stage'[a] = IF a = b THEN stage'[b] ELSE stage[a]
      BY <1>2, <2>2 DEF MarketBegin, Start, Goto
    <3>2. stage'[b] \in {"search", "latest", "find"}
      BY <1>2, <2>2 DEF MarketBegin, Start, Goto
    <3> QED
      BY <1>1, <3>1, <3>2 DEF Idle
  <2>3. ASSUME NEW b \in Admin \ {a}, MarketWork(b) PROVE FALSE
    BY <1>1, <1>2, <2>3, MarketWorkFrame DEF MarketStateOK, Idle
  <2> QED
    BY <2>1, <2>2, <2>3 DEF MarketplaceNext, MarketplaceFinished
<1>4. ~ overlapped
  BY <1>2, <1>3, MarketWorkFrame DEF MarketStateOK
<1> USE DEF Proceed, Fail, Complain, Goto
<1>5. PostItem(a) \/ Change(a)
  BY <1>1, <1>2, <1>3 DEF MarketWork, Search, CheckVersion, LatestVersion, Find
<1>6. CASE PostItem(a)
  <2>1. Posted(a) \in items' /\ stage[a] = "post" /\ request[a].then = "nothing"
    <3>1. stage' # [stage EXCEPT ![a] = "idle"] \/ a \in complained' \/ Posted(a) \in items'
      BY <1>1, <1>6 DEF PostItem
    <3>2. request[a].then = "nothing"
      BY <1>1, <1>2, <1>6 DEF PostItem, Chained
    <3>3. stage[a] = "post"
      BY <1>6 DEF PostItem
    <3>4. stage' = [stage EXCEPT ![a] = "idle"]
      BY <1>6, <3>2 DEF PostItem, Chained
    <3> QED
      BY <1>1, <3>1, <3>2, <3>3, <3>4
  <2>2. /\ Posted(a).version = request[a].version /\ Posted(a).state = "PENDING"
        /\ Posted(a).kind = request[a].kind
    BY DEF Posted
  <2>3. request[a].op \in Publication
    BY <1>1, <1>2, <2>1 DEF MarketAsked
  <2>4. Posted(a) \in OfVersion(items', request[a]) /\ Posted(a) \in Arrived(items', request[a])
    BY <2>1, <2>2 DEF OfVersion, Arrived, Aim, Live, ItemState
  <2> QED
    BY <2>2, <2>3, <2>4 DEF UnpublishesAll, Publication
<1>7. CASE Change(a)
  <2>1. PICK i \in items :
          /\ stage[a] = "change" /\ i.id = target[a] /\ ~ Unfit(a, i)
          /\ items' = (items \ {i}) \cup (IF verb[a] = "delete" THEN {} ELSE {ChangedItem(a, i)})
          /\ NextVerb(a)
    BY <1>1, <1>2, <1>7 DEF Change
  <2>2. /\ ChangedItem(a, i).version = i.version /\ ChangedItem(a, i).kind = i.kind /\ i \in Item
        /\ ChangedItem(a, i).state \in {i.state, ChangedState(verb[a], i.state)}
    BY <1>1, <1>2, <2>1, ChangedItemIs DEF MarketplaceTypeOK
  <2>3. CASE request[a].op \in Publication
    <3>1. /\ verb[a] \in {"approve", "publish"} /\ request[a].then # "nothing" /\ i.version = request[a].version
          /\ verb[a] = "publish" => request[a].then = "publish"
      BY <1>1, <2>1, <2>3 DEF MarketAtWork, PublishesOne
    <3>2. verb[a] = "approve" => request[a].then # "publish"
      BY <1>1, <1>2, <2>1, <2>3 DEF NextVerb
    <3>3. verb[a] = "approve" => ChangedItem(a, i).state = "ACCEPTED" /\ SharedWith(ChangedItem(a, i).places) # {}
      <4>1. request[a].drop = {}
        BY <1>1, <1>2, <2>3, MarketplaceAssumption DEF MarketAsked, Publication
      <4>2. SharedWith(Without(Appended(i.places, Given(a)), {})) # {}
        BY <1>2, <2>2, <2>3, GivenToSome DEF MarketplaceTypeOK, Item
      <4>3. i.places \in Places
        BY <2>2 DEF Item
      <4>4. ASSUME verb[a] = "approve"
            PROVE  ChangedItem(a, i) = [i EXCEPT !.state = "ACCEPTED", !.places = Without(Appended(i.places, Given(a)), {})]
        BY <4>1, <4>4, <2>2 DEF ChangedItem, Item
      <4> QED
        BY <2>2, <4>2, <4>4 DEF Item
    <3>4. verb[a] = "publish" => ChangedItem(a, i).state = "PUBLISHED" /\ SharedWith(ChangedItem(a, i).places) # {}
      <4>1. verb[a] = "publish" => SharedWith(ChangedItem(a, i).places) # {}
        BY <2>1 DEF Unfit
      <4>2. verb[a] = "publish" => ChangedItem(a, i).state = "PUBLISHED"
        BY <2>2 DEF ChangedItem, ChangedState, Item
      <4> QED
        BY <4>1, <4>2
    <3>5. ChangedItem(a, i) \in items'
      BY <2>1, <3>1
    <3>6. request[a].then \in {"approve", "publish"}
      BY <1>1, <1>2, <3>1, RequestParts DEF MarketAsked
    <3>7. ChangedItem(a, i) \in Arrived(items', request[a])
      BY <2>2, <3>1, <3>2, <3>3, <3>4, <3>5, <3>6 DEF Arrived, OfVersion, Aim, Live, ItemState
    <3>8. \E j \in OfVersion(items', request[a]) : j.kind = request[a].kind
      <4>1. PICK own \in OfVersion(items, request[a]) : own.kind = request[a].kind
        BY <1>4, <2>1, <2>3 DEF MarketAtWork, OwnStands
      <4>2. CASE own = i
        BY <2>2, <3>7, <4>1, <4>2 DEF Arrived
      <4>3. CASE own # i
        BY <2>1, <4>1, <4>3 DEF OfVersion
      <4> QED
        BY <4>2, <4>3
    <3> QED
      BY <2>3, <3>1, <3>7, <3>8 DEF UnpublishesAll, Publication
  <2>4. CASE UnpublishesAll(a)
    <3>1. verb[a] = "unpublish" /\ todo[a] = {}
      BY <1>1, <1>2, <2>1, <2>4 DEF NextVerb, UnpublishesAll, MarketAsked, Publication
    <3>2. ChangedItem(a, i).state = "ACCEPTED"
      BY <2>2, <2>4, <3>1 DEF ChangedItem, ChangedState, UnpublishesAll, Item
    <3>3. VersionsOf(items') = VersionsOf(items)
      BY <1>1, <2>1, <3>1, ChangeKeepsVersions
    <3>4. \A j \in items \ {i} : InStore(j) => Beyond(j.version, items)
      BY <1>2, <1>4, <2>1, <2>4, <3>1 DEF MarketAtWork, StillPublished, ItemsDiffer
    <3> QED
      BY <2>1, <2>4, <3>1, <3>2, <3>3, <3>4 DEF Beyond, InStore, UnpublishesAll, Publication
  <2>5. CASE request[a].op \notin Publication /\ ~ UnpublishesAll(a)
    BY <2>5
  <2> QED
    BY <2>3, <2>4, <2>5
<1> QED
  BY <1>5, <1>6, <1>7

-----------------------------------------------------------------------------
(* The catalogue: what is known of names and identities.  For every finite  *)
(* set of names and every kind of entity.                                  *)

CatalogueStateOK == AdminsTypeOK(CatalogueStage, CatalogueRequest) /\ CatalogueTypeOK

(* Identities are handed out once.                                         *)
EntitiesDiffer ==
    /\ \A e \in entities : e.id <= entityIds
    /\ \A e, f \in entities : e.id = f.id => e = f

(* A command at work is on names it was asked for; one that creates is on   *)
(* one name, and only tunnels get new names.                               *)
NamesAsked ==
    \A a \in Admin : ~ Idle(a) =>
        /\ request[a] \in CatalogueRequest
        /\ names[a] \subseteq request[a].names
        /\ request[a].rename # {} => kind = "tunnel"
        /\ stage[a] \in {"check", "deleteFirst", "projectOf", "createEntity"}
             => request[a].op = "createEntity"

(* Commands that have not overlapped are on different names, or update and  *)
(* rename nothing.                                                         *)
ApartInNames ==
    ~ overlapped => \A a, b \in Admin : ~ Idle(a) /\ ~ Idle(b) /\ a # b =>
        \/ ~ Reassigns(request[a]) /\ ~ Reassigns(request[b])
        \/ NamesOf(request[a]) \cap NamesOf(request[b]) = {}

(* What was found by the check still holds when the entity is created: the  *)
(* name is free.  An entity to be deleted first is one of the name.        *)
NameFree ==
    Creation.checks /\ ~ overlapped =>
        \A a \in Admin : stage[a] \in {"projectOf", "createEntity"} =>
            \A e \in entities : e.name \notin names[a]

OldOneFound ==
    Creation.checks /\ ~ overlapped =>
        \A a \in Admin : stage[a] = "deleteFirst" =>
            /\ \A i \in found[a] : i <= entityIds
            /\ \A e \in entities : e.id \in found[a] => e.name \in names[a]

CatalogueIInv ==
    /\ CatalogueStateOK /\ EntitiesDiffer /\ NamesAsked /\ ApartInNames
    /\ NameFree /\ OldOneFound /\ OnePerName

(* At most one entity is in hand.                                          *)
LEMMA AtMostOne == Cardinality({}) <= 1 /\ \A i \in Nat : Cardinality({i}) <= 1
BY FS_EmptySet, FS_Singleton

LEMMA CatalogueInitOK == CatalogueInit => CatalogueIInv
<1> SUFFICES ASSUME CatalogueInit PROVE CatalogueIInv
  OBVIOUS
<1> USE CatalogueAssumption DEF CatalogueInit, AdminsInit, CatalogueStart
<1>1. AdminsTypeOK(CatalogueStage, CatalogueRequest)
  BY DEF AdminsTypeOK, CatalogueStage
<1>2. /\ entities \subseteq Entity /\ entityIds \in Nat /\ EntitiesDiffer
      /\ \A e, f \in entities : e.name = f.name => e = f
  <2>1. CASE entities = {} /\ entityIds = 0
    BY <2>1 DEF EntitiesDiffer
  <2>2. ASSUME NEW f \in [Name -> 1 .. Cardinality(Name)],
               \A m, n \in Name : f[m] = f[n] => m = n,
               entities = {[id |-> f[n], name |-> n, whole |-> TRUE] : n \in Name},
               entityIds = Cardinality(Name)
        PROVE  <1>2
    <3>1. Cardinality(Name) \in Nat
      BY FS_CardinalityType
    <3>2. \A n \in Name : f[n] \in Nat /\ f[n] <= entityIds
      BY <2>2, <3>1
    <3> DEFINE entityOf(n) == [id |-> f[n], name |-> n, whole |-> TRUE]
    <3>3. \A n \in Name : entityOf(n) \in Entity /\ entityOf(n).name = n /\ entityOf(n).id = f[n]
      BY <3>2 DEF Entity
    <3>4. \A e \in entities : \E n \in Name : e = entityOf(n)
      BY <2>2, Zenon
    <3> HIDE DEF entityOf
    <3>5. \A e \in entities : e \in Entity /\ e.name \in Name /\ e = entityOf(e.name) /\ e.id = f[e.name]
      BY ONLY <3>3, <3>4
    <3>6. EntitiesDiffer
      BY <2>2, <3>2, <3>5 DEF EntitiesDiffer
    <3> QED
      BY <2>2, <3>1, <3>5, <3>6
  <2> QED
    BY <2>1, <2>2
<1>3. entityRows \subseteq [id : Nat, name : Name]
  BY <1>2 DEF RowsOf, Entity
<1>4. CatalogueTypeOK
  BY <1>2, <1>3, AtMostOne DEF CatalogueTypeOK
<1>5. \A a \in Admin : Idle(a)
  BY DEF Idle
<1> QED
  BY <1>1, <1>2, <1>4, <1>5 DEF CatalogueIInv, CatalogueStateOK, NamesAsked, ApartInNames,
     NameFree, OldOneFound, OnePerName, Idle

(* What the kinds have in common.                                          *)
LEMMA KindFacts ==
    kind \in DOMAIN Kinds =>
        /\ Creation.row => ~ Creation.patched /\ Deletion.row # "never"
        /\ kind \in DOMAIN Updates => (Creation.patched <=> Updates[kind] = "strip")
        /\ Deletion.lax => Deletion.spares
        /\ Deletion.task => Deletion.row = "last"
        /\ Deletion.row \in {"never", "each", "last"}
        /\ kind = "tunnel" =>
             /\ ~ Creation.checks /\ ~ Creation.patched /\ Deletion.spares
             /\ Deletion.row = "last" /\ Deletion.finds = "call"
<1> SUFFICES ASSUME kind \in DOMAIN Kinds
             PROVE  /\ Creation.row => ~ Creation.patched /\ Deletion.row # "never"
                    /\ kind \in DOMAIN Updates => (Creation.patched <=> Updates[kind] = "strip")
                    /\ Deletion.lax => Deletion.spares
                    /\ Deletion.task => Deletion.row = "last"
                    /\ Deletion.row \in {"never", "each", "last"}
                    /\ kind = "tunnel" =>
                         /\ ~ Creation.checks /\ ~ Creation.patched /\ Deletion.spares
                         /\ Deletion.row = "last" /\ Deletion.finds = "call"
  OBVIOUS
<1> USE DEF Kinds, Creation, Deletion, Updates
<1>1. CASE kind \in {"blueprint", "job", "policy"}
  BY <1>1 DEF CreateBlueprint, DeleteBlueprint, CreateJob, DeleteJob, CreatePolicy, DeletePolicy
<1>2. CASE kind \in {"runbook"}
  BY <1>2 DEF CreateRunbook, DeleteRunbook
<1>3. CASE kind \in {"endpoint", "task"}
  BY <1>3 DEF CreateEndpoint, DeleteEndpoint, CreateTask, DeleteTask
<1>4. CASE kind \in {"variable"}
  BY <1>4 DEF CreateVariable, DeleteVariable
<1>5. CASE kind \in {"provider"}
  BY <1>5 DEF CreateProvider, DeleteProvider
<1>6. CASE kind \in {"user", "group"}
  BY <1>6 DEF CreateUser, DeleteUser, CreateGroup, DeleteGroup
<1>7. CASE kind \in {"tunnel"}
  BY <1>7 DEF CreateTunnel, DeleteTunnel
<1> QED
  BY <1>1, <1>2, <1>3, <1>4, <1>5, <1>6, <1>7

(* A new command overlaps with those it is not meant to run with.          *)
LEMMA CatalogueBeginKeeps ==
    ASSUME CatalogueIInv, NEW a \in Admin, CatalogueBegin(a) PROVE CatalogueIInv'
<1> USE DEF CatalogueIInv, CatalogueStateOK
<1>1. PICK r \in CatalogueRequest :
        /\ r.rename # {} => kind = "tunnel"
        /\ Start(a, r, CASE r.op = "createEntity" ->
                               IF Creation.checks THEN "check" ELSE "createEntity"
                          [] r.op = "deleteEntities" /\ Deletion.finds = "listing" -> "listAll"
                          [] OTHER -> "find",
                 CatalogueClash)
        /\ names' = [names EXCEPT ![a] = r.names]
  BY DEF CatalogueBegin
<1>2. /\ seen' = [seen EXCEPT ![a] = {}]
      /\ found' = [found EXCEPT ![a] = {}]
      /\ gone' = [gone EXCEPT ![a] = {}]
      /\ UNCHANGED <<kind, entities, deletions, ended, entityRows, entityIds>>
  BY DEF CatalogueBegin
<1>3. PICK s \in {"check", "createEntity", "listAll", "find"} :
        /\ stage' = [stage EXCEPT ![a] = s]
        /\ s \in {"check", "createEntity"} => r.op = "createEntity"
        /\ s = "createEntity" => ~ Creation.checks
  BY <1>1 DEF Start, Goto
<1>4. /\ Idle(a)
      /\ request' = [request EXCEPT ![a] = r]
      /\ started' = started + 1 /\ complained' = complained \ {a} /\ UNCHANGED patient
      /\ overlapped' = (overlapped \/ \E b \in Admin \ {a} : ~ Idle(b) /\ CatalogueClash(r, request[b]))
  BY <1>1 DEF Start
<1>5. r.names \subseteq Name
  BY CatalogueAssumption
<1>6. AdminsTypeOK(CatalogueStage, CatalogueRequest)'
  BY <1>3, <1>4 DEF AdminsTypeOK, CatalogueStage
<1>7. CatalogueTypeOK'
  BY <1>1, <1>2, <1>5, AtMostOne DEF CatalogueTypeOK
<1>8. /\ \A b \in Admin \ {a} : UNCHANGED <<stage[b], request[b], names[b], found[b]>>
      /\ stage'[a] = s /\ request'[a] = r /\ names'[a] = r.names
  BY <1>1, <1>2, <1>3, <1>4 DEF AdminsTypeOK, CatalogueTypeOK
<1>9. EntitiesDiffer' /\ NamesAsked'
  BY <1>1, <1>2, <1>3, <1>8 DEF EntitiesDiffer, NamesAsked, Idle
<1>10. ApartInNames'
  <2>1. ASSUME ~ overlapped', NEW b \in Admin \ {a}, ~ Idle(b)
        PROVE  \/ ~ Reassigns(r) /\ ~ Reassigns(request[b])
               \/ NamesOf(r) \cap NamesOf(request[b]) = {}
    BY <1>4, <2>1 DEF CatalogueClash
  <2> SUFFICES ASSUME ~ overlapped', NEW b \in Admin, NEW d \in Admin,
                      ~ Idle(b)', ~ Idle(d)', b # d
               PROVE  \/ ~ Reassigns(request'[b]) /\ ~ Reassigns(request'[d])
                      \/ NamesOf(request'[b]) \cap NamesOf(request'[d]) = {}
    BY DEF ApartInNames
  <2>2. CASE b = a
    BY <1>8, <2>1, <2>2 DEF Idle
  <2>3. CASE d = a
    <3>1. NamesOf(r) \cap NamesOf(request[b]) = {} => NamesOf(request[b]) \cap NamesOf(r) = {}
      OBVIOUS
    <3> QED
      BY <1>8, <2>1, <2>3, <3>1 DEF Idle
  <2>4. CASE b # a /\ d # a
    BY <1>4, <1>8, <2>4 DEF ApartInNames, Idle
  <2> QED
    BY <2>2, <2>3, <2>4
<1>11. NameFree' /\ OldOneFound' /\ OnePerName'
  BY <1>2, <1>3, <1>4, <1>8 DEF NameFree, OldOneFound, OnePerName, Creation
<1> QED
  BY <1>6, <1>7, <1>9, <1>10, <1>11

(* A step of a command at work leaves the requests and the kind alone, and  *)
(* is its own.                                                             *)
LEMMA CatalogueWorkFrame ==
    ASSUME CatalogueStateOK, NEW a \in Admin, CatalogueWork(a)
    PROVE  /\ AdminsTypeOK(CatalogueStage, CatalogueRequest)'
           /\ ~ Idle(a)
           /\ \A b \in Admin \ {a} : UNCHANGED <<stage[b], names[b], found[b]>>
           /\ names'[a] \subseteq names[a]
           /\ UNCHANGED <<request, overlapped, kind>>
<1> DEFINE Frame ==
        /\ stage[a] # "idle"
        /\ \E s \in CatalogueStage : stage' = [stage EXCEPT ![a] = s]
        /\ complained' \in SUBSET (complained \cup {a})
        /\ patient' \in BOOLEAN
        /\ UNCHANGED <<request, started, overlapped>>
<1> DEFINE OwnFrame ==
        /\ UNCHANGED kind
        /\ \E f \in SUBSET names[a] : names' = [names EXCEPT ![a] = f]
        /\ found' = found \/ \E f : found' = [found EXCEPT ![a] = f]
<1>1. Frame
  <2> USE DEF Proceed, Fail, Complain, GiveUp, Goto, CatalogueStage, EntityRefused, NextName,
             CatalogueStateOK, AdminsTypeOK
  <2>1. CASE Check(a) \/ DeleteFirst(a) \/ ProjectOf(a)
    BY <2>1 DEF Check, DeleteFirst, ProjectOf, AfterCheck
  <2>2. CASE CreateEntity(a) \/ Patch(a) \/ AddRow(a)
    BY <2>2 DEF CreateEntity, Patch, AddRow, AfterCreate
  <2>3. CASE ListAll(a) \/ FindEntity(a) \/ Strip(a) \/ PutEntity(a) \/ UpdateRow(a)
    BY <2>3 DEF ListAll, FindEntity, Strip, PutEntity, UpdateRow, AfterPut, AfterFind
  <2>4. CASE UsageOf(a) \/ PollDeletion(a) \/ DropRows(a)
    BY <2>4 DEF UsageOf, PollDeletion, DropRows
  <2>5. CASE DeleteEntity(a)
    BY <2>5 DEF DeleteEntity, DeletionFails
  <2> QED
    BY <2>1, <2>2, <2>3, <2>4, <2>5 DEF CatalogueWork
<1>2. OwnFrame
  <2>1. names = [names EXCEPT ![a] = names[a]]
    BY DEF CatalogueStateOK, CatalogueTypeOK
  <2> USE <2>1 DEF EntityRefused, catalogueOwn
  <2>2. CASE Check(a) \/ DeleteFirst(a) \/ ProjectOf(a)
    BY <2>2 DEF Check, DeleteFirst, ProjectOf
  <2>3. CASE CreateEntity(a) \/ Patch(a) \/ AddRow(a)
    BY <2>3 DEF CreateEntity, Patch, AddRow
  <2>4. CASE ListAll(a) \/ Strip(a) \/ PutEntity(a) \/ UpdateRow(a) \/ UsageOf(a)
    BY <2>4 DEF ListAll, Strip, PutEntity, UpdateRow, UsageOf
  <2>5. CASE FindEntity(a)
    BY <2>5 DEF FindEntity
  <2>6. CASE PollDeletion(a) \/ DropRows(a) \/ DeleteEntity(a)
    BY <2>6 DEF PollDeletion, DropRows, DeleteEntity
  <2> QED
    BY <2>2, <2>3, <2>4, <2>5, <2>6 DEF CatalogueWork
<1> QED
  BY <1>1, <1>2 DEF CatalogueStateOK, AdminsTypeOK, CatalogueTypeOK, Idle

(* The three ways in which a kind finds what it deletes.                    *)
LEMMA WaysToFind == kind \in DOMAIN Kinds => Deletion.finds \in {"call", "listing", "row"}
BY DEF Kinds, Deletion, DeleteBlueprint, DeleteRunbook, DeleteEndpoint, DeleteTask,
   DeleteVariable, DeleteProvider, DeleteJob, DeletePolicy, DeleteUser, DeleteGroup, DeleteTunnel

(* The types of what a step changes.                                       *)
LEMMA CatalogueWorkTypes ==
    ASSUME CatalogueStateOK, NamesAsked, NEW a \in Admin, CatalogueWork(a) PROVE CatalogueTypeOK'
<1> USE DEF CatalogueStateOK, CatalogueTypeOK
<1>1. /\ \A e \in entities : e.id \in Nat /\ e.name \in Name
      /\ \A e \in entities, w \in BOOLEAN : [e EXCEPT !.whole = w] \in Entity
  BY DEF Entity
<1>2. \A es \in SUBSET Entity : RowsOf(es) \subseteq [id : Nat, name : Name]
  BY DEF RowsOf, Entity
<1>3. CASE ProjectOf(a) \/ UsageOf(a) \/ PollDeletion(a)
  BY <1>3 DEF ProjectOf, UsageOf, PollDeletion, catalogueOwn
<1>4. CASE Check(a)
  BY <1>1, <1>4, AtMostOne DEF Check, EntityRefused, catalogueOwn
<1>5. CASE DeleteFirst(a)
  BY <1>5 DEF DeleteFirst, EntityRefused, catalogueOwn
<1>6. CASE CreateEntity(a)
  <2>1. ASSUME NEW n \in names[a] PROVE [id |-> entityIds + 1, name |-> n, whole |-> ~ Creation.patched] \in Entity
    <3>1. (~ Creation.patched) \in BOOLEAN
      OBVIOUS
    <3> QED
      BY <3>1 DEF Entity
  <2> QED
    BY <1>6, <2>1, AtMostOne DEF CreateEntity, EntityRefused, catalogueOwn
<1>7. CASE Patch(a)
  BY <1>1, <1>7 DEF Patch, InHand, EntityRefused, catalogueOwn
<1>8. CASE AddRow(a)
  <2>1. RowsOf(InHand(a)) \subseteq [id : Nat, name : Name]
    BY <1>2 DEF InHand
  <2>2. [id : found[a], name : names[a]] \subseteq [id : Nat, name : Name]
    OBVIOUS
  <2> QED
    BY <1>8, <2>1, <2>2 DEF AddRow, EntityRefused, catalogueOwn
<1>9. CASE ListAll(a)
  BY <1>9 DEF ListAll, EntityRefused, catalogueOwn
<1>10. CASE FindEntity(a)
  <2>1. RowsOf(entities) \cup RowsOf(seen[a]) \cup entityRows \subseteq [id : Nat, name : Name]
    BY <1>2
  <2>2. Known(a) \subseteq [id : Nat, name : Name]
    BY <2>1, WaysToFind DEF Known
  <2>3. \A m \in Known(a) : m.id \in Nat
    BY <2>2
  <2> QED
    BY <1>10, <2>3, AtMostOne DEF FindEntity, EntityRefused, catalogueOwn
<1>11. CASE Strip(a)
  BY <1>1, <1>11 DEF Strip, InHand, EntityRefused, catalogueOwn
<1>12. CASE DropRows(a)
  BY <1>12 DEF DropRows
<1>14. CASE PutEntity(a)
  <2>1. ASSUME NEW e \in entities, NEW n \in Name PROVE [e EXCEPT !.name = n] \in Entity
    BY DEF Entity
  <2>2. request[a].rename \subseteq Name
    BY <1>14, CatalogueAssumption DEF PutEntity, NamesAsked, Idle
  <2> QED
    BY <1>1, <1>14, <2>1, <2>2 DEF PutEntity, InHand, EntityRefused, catalogueOwn
<1>15. CASE UpdateRow(a)
  <2>1. RowsOf(InHand(a)) \subseteq [id : Nat, name : Name]
    BY <1>2 DEF InHand
  <2> QED
    BY <1>15, <2>1 DEF UpdateRow, EntityRefused, catalogueOwn
<1>13. CASE DeleteEntity(a)
  <2>1. CASE UNCHANGED catalogueOwn
    BY <2>1 DEF catalogueOwn
  <2>2. ASSUME NEW e \in entities,
               entities' \subseteq entities, entityRows' \subseteq entityRows,
               deletions' \subseteq deletions \cup {[by |-> a, id |-> e.id]},
               ended' = ended \/ ended' = [ended EXCEPT ![a] = "pending"],
               gone' = gone \/ gone' = [gone EXCEPT ![a] = @ \cup {e.id}],
               UNCHANGED <<kind, seen, names, found, entityIds>>
        PROVE  CatalogueTypeOK'
    BY <1>1, <2>2
  <2>3. ASSUME NEW e \in InHand(a),
               IF Deletion.task
                 THEN /\ deletions' = deletions \cup {[by |-> a, id |-> e.id]}
                      /\ ended' = [ended EXCEPT ![a] = "pending"]
                      /\ UNCHANGED entities
                 ELSE /\ entities' = entities \ {e}
                      /\ UNCHANGED <<deletions, ended>>,
               \/ /\ gone' = [gone EXCEPT ![a] = @ \cup {e.id}]
                  /\ entityRows' = IF Deletion.row = "each" THEN entityRows \ RowsOf({e})
                                   ELSE entityRows
               \/ gone' = [gone EXCEPT ![a] = @ \cup {e.id}] /\ UNCHANGED entityRows
               \/ UNCHANGED <<gone, entityRows>>,
               UNCHANGED <<kind, seen, names, found, entityIds>>
        PROVE  CatalogueTypeOK'
    <3>1. entities' \subseteq entities /\ deletions' \subseteq deletions \cup {[by |-> a, id |-> e.id]}
      BY <2>3
    <3>2. entityRows' \subseteq entityRows /\ e \in entities
      BY <2>3 DEF InHand
    <3> QED
      BY <2>2, <2>3, <3>1, <3>2
  <2> QED
    BY <1>13, <2>1, <2>3 DEF DeleteEntity
<1> QED
  BY <1>3, <1>4, <1>5, <1>6, <1>7, <1>8, <1>9, <1>10, <1>11, <1>12, <1>13, <1>14, <1>15
     DEF CatalogueWork

(* A command goes on with what it was asked for.                           *)
LEMMA CatalogueWorkAsked ==
    ASSUME CatalogueIInv, NEW a \in Admin, CatalogueWork(a) PROVE NamesAsked' /\ ApartInNames'
<1>1. /\ ~ Idle(a) /\ UNCHANGED <<request, overlapped>>
      /\ \A b \in Admin \ {a} : UNCHANGED <<stage[b], names[b]>>
      /\ names'[a] \subseteq names[a]
  BY CatalogueWorkFrame DEF CatalogueIInv
<1>2. stage'[a] \in {"check", "deleteFirst", "projectOf", "createEntity"} => request[a].op = "createEntity"
  <2> USE DEF Proceed, Fail, Complain, GiveUp, Goto, EntityRefused, NextName,
              CatalogueIInv, CatalogueStateOK, AdminsTypeOK
  <2>1. CASE Check(a) \/ DeleteFirst(a) \/ ProjectOf(a)
    BY <1>1, <2>1 DEF Check, DeleteFirst, ProjectOf, NamesAsked
  <2>2. CASE CreateEntity(a) \/ Patch(a) \/ AddRow(a)
    BY <2>2 DEF CreateEntity, Patch, AddRow, AfterCreate
  <2>3. CASE ListAll(a) \/ FindEntity(a) \/ Strip(a) \/ PutEntity(a) \/ UpdateRow(a)
    BY <2>3 DEF ListAll, FindEntity, Strip, PutEntity, UpdateRow, AfterPut, AfterFind
  <2>4. CASE UsageOf(a) \/ PollDeletion(a) \/ DropRows(a)
    BY <2>4 DEF UsageOf, PollDeletion, DropRows
  <2>5. CASE DeleteEntity(a)
    BY <2>5 DEF DeleteEntity, DeletionFails
  <2> QED
    BY <2>1, <2>2, <2>3, <2>4, <2>5 DEF CatalogueWork
<1> QED
  BY <1>1, <1>2, CatalogueWorkFrame DEF CatalogueIInv, NamesAsked, ApartInNames, Idle

(* The steps that create and rename nothing leave no entity but those that  *)
(* were there.                                                             *)
Thinned ==
    /\ UNCHANGED entityIds
    /\ \A e \in entities' : \E f \in entities : e.id = f.id /\ e.name = f.name
    /\ \A e, f \in entities' : e.id = f.id => e = f

(* An update puts one entity in the place of the one in hand.               *)
LEMMA PutEffect ==
    ASSUME CatalogueIInv, NEW a \in Admin, PutEntity(a)
    PROVE  \/ UNCHANGED catalogueOwn /\ stage'[a] = "idle" /\ a \in complained'
           \/ /\ \E e \in InHand(a), d \in Entity :
                   /\ d.id = e.id /\ d.whole = e.whole
                   /\ d.name \in (IF request[a].rename = {} THEN {e.name} ELSE request[a].rename)
                   /\ kind # "tunnel" => d = e
                   /\ entities' = (entities \ {e}) \cup {d}
              /\ stage'[a] \in {"idle", "updateRow"}
              /\ a \in complained' \/ stage'[a] = AfterPut
              /\ UNCHANGED <<kind, seen, names, found, gone, deletions, ended, entityRows, entityIds>>
<1> USE DEF Proceed, Complain, Fail, Goto
<1>1. stage \in [Admin -> CatalogueStage] /\ complained \subseteq Admin /\ entities \subseteq Entity
  BY DEF CatalogueIInv, CatalogueStateOK, AdminsTypeOK, CatalogueTypeOK
<1>2. request[a] \in CatalogueRequest /\ (request[a].rename # {} => kind = "tunnel")
  BY DEF CatalogueIInv, NamesAsked, PutEntity, Idle
<1>3. CASE EntityRefused(a)
  BY <1>1, <1>3 DEF EntityRefused
<1>4. CASE ~ EntityRefused(a)
  <2>0. PICK e \in InHand(a) : \E n \in IF request[a].rename = {} THEN {e.name} ELSE request[a].rename :
          entities' = (entities \ {e}) \cup {[e EXCEPT !.name = n]}
    BY <1>4 DEF PutEntity
  <2>1. PICK n \in IF request[a].rename = {} THEN {e.name} ELSE request[a].rename :
          entities' = (entities \ {e}) \cup {[e EXCEPT !.name = n]}
    BY <2>0
  <2>2. e \in Entity /\ n \in Name
    BY <1>1, <1>2, <2>1, CatalogueAssumption DEF InHand, Entity
  <2> DEFINE d == [e EXCEPT !.name = n]
  <2>3. /\ d \in Entity /\ d.id = e.id /\ d.whole = e.whole /\ d.name = n
        /\ n = e.name => d = e
    BY <2>2 DEF Entity
  <2>4. kind # "tunnel" => n = e.name
    BY <1>2, <2>1
  <2>5. /\ stage'[a] \in {"idle", "updateRow"}
        /\ a \in complained' \/ stage'[a] = AfterPut
        /\ UNCHANGED <<kind, seen, names, found, gone, deletions, ended, entityRows, entityIds>>
    BY <1>1, <1>4 DEF PutEntity, AfterPut
  <2>6. /\ d.name \in (IF request[a].rename = {} THEN {e.name} ELSE request[a].rename)
        /\ entities' = (entities \ {e}) \cup {d}
    BY <2>1, <2>3
  <2> HIDE DEF d
  <2> QED
    BY <2>1, <2>3, <2>4, <2>5, <2>6
<1> QED
  BY <1>3, <1>4

LEMMA CatalogueWorkThins ==
    ASSUME CatalogueIInv, NEW a \in Admin, CatalogueWork(a), ~ CreateEntity(a),
           kind # "tunnel" \/ ~ PutEntity(a)
    PROVE  Thinned
<1>1. CASE entities' \subseteq entities /\ entityIds' = entityIds
  BY <1>1 DEF Thinned, CatalogueIInv, EntitiesDiffer
<1>2. ASSUME NEW e \in entities, NEW w \in BOOLEAN, entityIds' = entityIds,
             entities' = (entities \ {e}) \cup {[e EXCEPT !.whole = w]}
      PROVE  Thinned
  <2>1. [e EXCEPT !.whole = w].id = e.id /\ [e EXCEPT !.whole = w].name = e.name
    BY DEF CatalogueIInv, CatalogueStateOK, CatalogueTypeOK, Entity
  <2> QED
    BY <1>2, <2>1 DEF Thinned, CatalogueIInv, EntitiesDiffer
<1>3. CASE Patch(a) \/ Strip(a)
  BY <1>1, <1>2, <1>3 DEF Patch, Strip, InHand, EntityRefused, catalogueOwn
<1>5. CASE PutEntity(a)
  <2>1. CASE UNCHANGED catalogueOwn
    BY <1>1, <2>1 DEF catalogueOwn
  <2>2. ASSUME NEW e \in InHand(a), entities' = (entities \ {e}) \cup {e}, UNCHANGED entityIds
        PROVE  Thinned
    BY <1>1, <2>2 DEF InHand
  <2> QED
    BY <1>5, <2>1, <2>2, PutEffect
<1>4. CASE ~ Patch(a) /\ ~ Strip(a) /\ ~ PutEntity(a)
  <2>1. UNCHANGED entityIds
    BY <1>4 DEF CatalogueWork, Check, DeleteFirst, ProjectOf, AddRow, ListAll, FindEntity,
       PutEntity, UpdateRow, AfterPut, UsageOf, DeleteEntity, PollDeletion, DropRows, EntityRefused, catalogueOwn
  <2>2. entities' \subseteq entities
    BY <1>4 DEF CatalogueWork, Check, DeleteFirst, ProjectOf, AddRow, ListAll, FindEntity,
       PutEntity, UpdateRow, AfterPut, UsageOf, DeleteEntity, PollDeletion, DropRows, EntityRefused, catalogueOwn
  <2> QED
    BY <1>1, <2>1, <2>2
<1> QED
  BY <1>3, <1>4, <1>5

LEMMA ThinnedKeeps ==
    ASSUME CatalogueIInv, Thinned, UNCHANGED kind, overlapped' = overlapped
    PROVE  EntitiesDiffer' /\ OnePerName'
<1>1. EntitiesDiffer'
  BY DEF CatalogueIInv, Thinned, EntitiesDiffer
<1>2. OnePerName'
  BY DEF CatalogueIInv, Thinned, OnePerName, EntitiesDiffer, Creation
<1> QED
  BY <1>1, <1>2

(* A name that is free stays free: the one command that may create it is    *)
(* the one that has found it so.                                           *)
LEMMA CatalogueWorkKeeps ==
    ASSUME CatalogueIInv, NEW a \in Admin, CatalogueWork(a)
    PROVE  EntitiesDiffer' /\ NameFree' /\ OldOneFound' /\ OnePerName'
<1> USE DEF CatalogueIInv
<1>1. /\ ~ Idle(a) /\ UNCHANGED <<request, overlapped, kind>>
      /\ \A b \in Admin \ {a} : UNCHANGED <<stage[b], names[b], found[b]>>
      /\ names'[a] \subseteq names[a]
  BY CatalogueWorkFrame
<1> USE DEF Creation
<1>2. CASE CreateEntity(a)
  <2>1. stage'[a] \notin {"deleteFirst", "projectOf", "createEntity"}
    BY <1>2 DEF CreateEntity, AfterCreate, EntityRefused, Proceed, Complain, Fail, Goto,
       CatalogueStateOK, AdminsTypeOK
  <2>2. CASE UNCHANGED <<entities, entityIds>>
    BY <1>1, <2>1, <2>2 DEF EntitiesDiffer, NameFree, OldOneFound, OnePerName
  <2>3. ASSUME NEW n \in names[a], NEW new, new.id = entityIds + 1, new.name = n,
               entities' = entities \cup {new}, entityIds' = entityIds + 1
        PROVE  EntitiesDiffer' /\ NameFree' /\ OldOneFound' /\ OnePerName'
    <3>1. entityIds \in Nat /\ \A e \in entities : e.id \in Nat
      BY DEF CatalogueStateOK, CatalogueTypeOK, Entity
    <3>2. EntitiesDiffer'
      BY <2>3, <3>1 DEF EntitiesDiffer
    <3>3. stage[a] = "createEntity" /\ request[a].op = "createEntity" /\ n \in request[a].names
      BY <1>1, <1>2, <2>3 DEF CreateEntity, NamesAsked
    <3>4. OnePerName'
      BY <1>1, <2>3, <3>3 DEF OnePerName, NameFree
    <3>5. ASSUME ~ overlapped, NEW b \in Admin \ {a}, stage[b] \in {"projectOf", "createEntity", "deleteFirst"}
          PROVE  n \notin names[b]
      BY <1>1, <3>3, <3>5 DEF ApartInNames, NamesAsked, Idle, Reassigns, NamesOf
    <3>6. NameFree'
      BY <1>1, <2>1, <2>3, <3>5 DEF NameFree
    <3>7. ASSUME Creation.checks, ~ overlapped, NEW b \in Admin \ {a}, stage[b] = "deleteFirst"
          PROVE  /\ \A i \in found[b] : i <= entityIds + 1 /\ i # new.id
                 /\ \A e \in entities' : e.id \in found[b] => e.name \in names[b]
      <4>1. found[b] \subseteq Nat /\ \A i \in found[b] : i <= entityIds
        BY <3>7 DEF OldOneFound, CatalogueStateOK, CatalogueTypeOK
      <4>2. \A i \in found[b] : i <= entityIds + 1 /\ i # new.id
        BY <2>3, <3>1, <4>1
      <4> QED
        BY <2>3, <3>7, <4>2 DEF OldOneFound
    <3>8. OldOneFound'
      BY <1>1, <2>1, <2>3, <3>7 DEF OldOneFound
    <3> QED
      BY <3>2, <3>4, <3>6, <3>8
  <2>4. UNCHANGED <<entities, entityIds>> \/
        \E n \in names[a], new \in Entity :
            /\ new.id = entityIds + 1 /\ new.name = n
            /\ entities' = entities \cup {new} /\ entityIds' = entityIds + 1
    <3>1. \A n \in names[a], w \in BOOLEAN :
            [id |-> entityIds + 1, name |-> n, whole |-> w] \in Entity
      BY DEF CatalogueStateOK, CatalogueTypeOK, Entity
    <3>2. (~ Creation.patched) \in BOOLEAN
      OBVIOUS
    <3> QED
      BY <1>2, <3>1, <3>2 DEF CreateEntity, EntityRefused, catalogueOwn
  <2> QED
    BY <2>2, <2>3, <2>4
<1>4. CASE kind = "tunnel" /\ PutEntity(a)
  <2>1. ~ Creation.checks /\ Creation' = Creation
    BY <1>1, <1>4, KindFacts DEF CatalogueStateOK, CatalogueTypeOK
  <2>2. NameFree' /\ OldOneFound' /\ OnePerName'
    BY <2>1 DEF NameFree, OldOneFound, OnePerName
  <2>3. EntitiesDiffer'
    <3>1. CASE UNCHANGED catalogueOwn
      BY <3>1 DEF EntitiesDiffer, catalogueOwn
    <3>2. ASSUME NEW e \in InHand(a), NEW d \in Entity, d.id = e.id,
                 entities' = (entities \ {e}) \cup {d}, UNCHANGED entityIds
          PROVE  EntitiesDiffer'
      BY <3>2 DEF EntitiesDiffer, InHand
    <3> QED
      BY <1>4, <3>1, <3>2, PutEffect
  <2> QED
    BY <2>2, <2>3
<1>3. CASE ~ CreateEntity(a) /\ (kind # "tunnel" \/ ~ PutEntity(a))
  <2>1. Thinned
    BY <1>3, CatalogueWorkThins
  <2>2. EntitiesDiffer' /\ OnePerName'
    BY <1>1, <2>1, ThinnedKeeps
  <2>3. ASSUME Creation.checks, ~ overlapped, stage'[a] \in {"projectOf", "createEntity"}
        PROVE  \A e \in entities' : e.name \notin names'[a]
    <3> USE DEF Proceed, Fail, Complain, GiveUp, Goto, EntityRefused, NextName, CatalogueStateOK, AdminsTypeOK
    <3>1. Check(a) \/ DeleteFirst(a) \/ ProjectOf(a)
      BY <1>3, <2>3 DEF CatalogueWork, Patch, AddRow, ListAll, FindEntity, AfterFind, Strip,
         PutEntity, UpdateRow, AfterPut, UsageOf, DeleteEntity, DeletionFails, PollDeletion, DropRows
    <3>2. CASE Check(a)
      BY <2>3, <3>2 DEF Check, catalogueOwn
    <3>3. CASE ProjectOf(a)
      BY <2>3, <3>3 DEF ProjectOf, catalogueOwn, NameFree
    <3>4. CASE DeleteFirst(a)
      <4>1. PICK e \in InHand(a) : entities' = entities \ {e} /\ names' = names
        BY <2>3, <3>4 DEF DeleteFirst
      <4>2. e \in entities /\ e.name \in names[a]
        BY <2>3, <3>4, <4>1 DEF DeleteFirst, InHand, OldOneFound
      <4>3. \E n \in Name : request[a].names = {n}
        BY <1>1, <3>4, CatalogueAssumption DEF DeleteFirst, NamesAsked
      <4>4. names[a] \subseteq {e.name}
        BY <1>1, <4>2, <4>3 DEF NamesAsked
      <4> QED
        BY <2>3, <4>1, <4>2, <4>4 DEF OnePerName
    <3> QED
      BY <3>1, <3>2, <3>3, <3>4
  <2>4. NameFree'
    BY <1>1, <2>1, <2>3 DEF NameFree, Thinned
  <2>5. ASSUME Creation.checks, ~ overlapped, stage'[a] = "deleteFirst"
        PROVE  /\ \A i \in found'[a] : i <= entityIds
               /\ \A e \in entities' : e.id \in found'[a] => e.name \in names'[a]
    <3> USE DEF Proceed, Fail, Complain, GiveUp, Goto, EntityRefused, NextName, CatalogueStateOK, AdminsTypeOK
    <3>1. Check(a)
      BY <1>3, <2>5 DEF CatalogueWork, DeleteFirst, ProjectOf, AfterCheck, Patch, AddRow, ListAll,
         FindEntity, AfterFind, Strip, PutEntity, UpdateRow, AfterPut, UsageOf, DeleteEntity, DeletionFails,
         PollDeletion, DropRows
    <3>2. PICK e \in entities : /\ e.name \in names[a]
                                /\ found' = [found EXCEPT ![a] = {e.id}]
                                /\ UNCHANGED <<entities, names>>
      BY <2>5, <3>1 DEF Check, AfterCheck
    <3>3. found'[a] = {e.id}
      BY <3>2 DEF CatalogueTypeOK
    <3> QED
      BY <3>2, <3>3 DEF EntitiesDiffer
  <2>6. OldOneFound'
    BY <1>1, <2>1, <2>5 DEF OldOneFound, Thinned
  <2> QED
    BY <2>2, <2>4, <2>6
<1> QED
  BY <1>2, <1>3, <1>4

LEMMA CatalogueStep == CatalogueIInv /\ [CatalogueNext]_catalogueVars => CatalogueIInv'
<1> SUFFICES ASSUME CatalogueIInv, [CatalogueNext]_catalogueVars PROVE CatalogueIInv'
  OBVIOUS
<1>1. ASSUME NEW a \in Admin, CatalogueBegin(a) PROVE CatalogueIInv'
  BY <1>1, CatalogueBeginKeeps
<1>2. ASSUME NEW a \in Admin, CatalogueWork(a) PROVE CatalogueIInv'
  BY <1>2, CatalogueWorkFrame, CatalogueWorkTypes, CatalogueWorkAsked, CatalogueWorkKeeps
     DEF CatalogueIInv, CatalogueStateOK
<1>3. CASE DeletionEnds
  <2>1. /\ entities' \subseteq entities /\ deletions' \subseteq deletions
        /\ \E a \in Admin, o \in {"succeeded", "failed"} :
             ended' = ended \/ ended' = [ended EXCEPT ![a] = o]
        /\ UNCHANGED <<kind, seen, names, found, gone, entityRows, entityIds, admins>>
    <3>1. PICK t \in deletions, outcome \in {"succeeded", "failed"} :
            /\ deletions' = deletions \ {t}
            /\ entities' = IF outcome = "failed" THEN entities
                           ELSE {e \in entities : e.id # t.id}
            /\ ended' = IF t.id \in found[t.by] THEN [ended EXCEPT ![t.by] = outcome] ELSE ended
            /\ UNCHANGED <<kind, seen, names, found, gone, entityRows, entityIds, admins>>
      BY <1>3 DEF DeletionEnds
    <3>2. t.by \in Admin
      BY DEF CatalogueIInv, CatalogueStateOK, CatalogueTypeOK
    <3>3. entities' \subseteq entities
      BY <3>1
    <3> QED
      BY <3>1, <3>2, <3>3
  <2>2. CatalogueTypeOK'
    BY <2>1 DEF CatalogueIInv, CatalogueStateOK, CatalogueTypeOK
  <2>3. UNCHANGED <<kind, names, found, entityIds, stage, request, started, complained, patient, overlapped>>
    BY <2>1 DEF admins
  <2>4. AdminsTypeOK(CatalogueStage, CatalogueRequest)' /\ NamesAsked' /\ ApartInNames'
    BY <2>3 DEF CatalogueIInv, CatalogueStateOK, AdminsTypeOK, NamesAsked, ApartInNames, Idle
  <2>5. EntitiesDiffer' /\ NameFree' /\ OldOneFound' /\ OnePerName'
    BY <2>1, <2>3 DEF CatalogueIInv, EntitiesDiffer, NameFree, OldOneFound, OnePerName, Creation
  <2> QED
    BY <2>2, <2>4, <2>5 DEF CatalogueIInv, CatalogueStateOK
<1>4. CASE UNCHANGED catalogueVars
  BY <1>4 DEF catalogueVars, catalogueOwn, admins, CatalogueIInv, CatalogueStateOK, AdminsTypeOK,
     CatalogueTypeOK, EntitiesDiffer, NamesAsked, ApartInNames, Idle, NameFree, OldOneFound,
     OnePerName, Creation
<1> QED
  BY <1>1, <1>2, <1>3, <1>4 DEF CatalogueNext, CatalogueFinished

(* The invariant holds in every state of the catalogue.                    *)
THEOREM CatalogueInvariant == CatalogueSpec => []CatalogueIInv
BY CatalogueInitOK, CatalogueStep, PTL DEF CatalogueSpec

(* Entities, rows, tasks and what the commands have in hand have their      *)
(* types; a command has one entity in hand at most.                        *)
THEOREM CatalogueTypes == CatalogueSpec => []CatalogueTypeOK
<1>1. CatalogueIInv => CatalogueTypeOK
  BY DEF CatalogueIInv, CatalogueStateOK
<1> QED
  BY <1>1, CatalogueInvariant, PTL

(* A name is that of one entity, for every kind whose creation looks for    *)
(* it, through every creation, forced or not, deletion and failure.        *)
THEOREM CatalogueOnePerName == CatalogueSpec => []OnePerName
<1>1. CatalogueIInv => OnePerName
  BY DEF CatalogueIInv
<1> QED
  BY <1>1, CatalogueInvariant, PTL

-----------------------------------------------------------------------------
(* What a command has done when it ends.                                   *)

(* What a command in a stage is for, and what its kind does there.          *)
StagesServe ==
    \A a \in Admin : ~ Idle(a) =>
        /\ stage[a] = "addRow" => request[a].op = "createEntity" /\ Creation.row
        /\ stage[a] = "patch" => request[a].op # "deleteEntities" /\ Creation.patched
        /\ stage[a] = "putEntity" => request[a].op = "updateEntity" /\ ~ Creation.patched
        /\ stage[a] = "strip" => request[a].op = "updateEntity" /\ Creation.patched
        /\ stage[a] = "updateRow" => request[a].op = "updateEntity" /\ kind = "tunnel"
        /\ stage[a] = "find" => request[a].op # "createEntity"
        /\ stage[a] \in {"listAll", "usageOf", "deleteEntity", "pollDeletion", "dropRows"}
             => request[a].op = "deleteEntities"
        /\ stage[a] = "dropRows" => Deletion.row = "last" /\ names[a] = {}
        /\ stage[a] = "usageOf" => Deletion.spares
        /\ stage[a] = "pollDeletion" => Deletion.task
        /\ request[a].op = "updateEntity" => kind \in DOMAIN Updates
        /\ request[a].op = "createEntity" => names[a] = request[a].names

(* Whatever is known of an identity is of one that was handed out, and      *)
(* names what has it, if that is still there - unless it has a new name,    *)
(* which only tunnels get, and which others do not meet in a hand.          *)
Handed ==
    /\ \A a \in Admin : found[a] = {} \/ \E i \in found[a] : found[a] = {i}
    /\ \A a \in Admin : \A i \in found[a] \cup gone[a] : i <= entityIds
    /\ \A a \in Admin : \A e \in seen[a] \cup entityRows \cup deletions : e.id <= entityIds

NamesTrue == kind # "tunnel" =>
    \A e \in entities :
        /\ \A a \in Admin : \A f \in seen[a] : f.id = e.id => f.name = e.name
        /\ \A w \in entityRows : w.id = e.id => w.name = e.name

NamesMeant(a) ==
    IF stage[a] = "updateRow" /\ request[a].rename # {} THEN request[a].rename ELSE request[a].names

FoundAsked == kind # "tunnel" \/ ~ overlapped =>
    \A a \in Admin : ~ Idle(a) =>
        \A e \in entities : e.id \in found[a] => e.name \in NamesMeant(a)

(* What a kind does not do leaves nothing behind.                          *)
KindsDiffer ==
    /\ ~ Creation.patched => \A e \in entities : e.whole
    /\ ~ Deletion.task => deletions = {}
    /\ Deletion.row = "never" => entityRows = {}

(* An entity that a command has deleted is no longer there, unless its task *)
(* is still pending; nor is its row, if rows go one by one, unless the      *)
(* command has warned that it could not go.                                *)
GoneForGood ==
    /\ \A a \in Admin : stage[a] = "pollDeletion" /\ ended[a] = "succeeded" =>
           \A e \in entities : e.id \notin found[a]
    /\ patient => \A a \in Admin : ~ Idle(a) /\ a \notin complained =>
           \A e \in entities : e.id \in gone[a] => stage[a] = "pollDeletion" /\ e.id \in found[a]
    /\ ~ overlapped /\ Deletion.row # "last" => \A a \in Admin : ~ Idle(a) /\ a \notin complained =>
           \A w \in entityRows : w.id \notin gone[a]

(* The entity a row is about to be made of is the one created, and nobody   *)
(* has deleted it or is going to.                                          *)
RowIsDue ==
    ~ overlapped => \A a \in Admin : stage[a] = "addRow" =>
        /\ InHand(a) # {}
        /\ \A t \in deletions : t.id \notin found[a]
        /\ \A b \in Admin : ~ Idle(b) => found[a] \cap gone[b] = {}

(* Entities of a name to be deleted are still to be looked for, or in hand. *)
DeletesNames(a) ==
    /\ ~ Idle(a) /\ request[a].op = "deleteEntities"
    /\ patient /\ ~ overlapped /\ a \notin complained
    /\ ~ Deletion.spares /\ Deletion.finds # "row"

StillToDelete ==
    \A a \in Admin : DeletesNames(a) => \A e \in entities : e.name \in request[a].names =>
        /\ e.name \in names[a] \/ (stage[a] \in {"deleteEntity", "pollDeletion"} /\ e.id \in found[a])
        /\ Deletion.finds = "listing" /\ stage[a] # "listAll" /\ e.name \in names[a] =>
               \E f \in seen[a] : f.id = e.id /\ f.name = e.name

CatalogueAtWork ==
    /\ StagesServe /\ Handed /\ NamesTrue /\ FoundAsked /\ KindsDiffer
    /\ GoneForGood /\ RowIsDue /\ StillToDelete

(* A step of a command at work leaves alone what the others know, too.      *)
LEMMA CatalogueWorkOthers ==
    ASSUME CatalogueStateOK, NEW a \in Admin, CatalogueWork(a)
    PROVE  /\ ~ Idle(a) /\ UNCHANGED <<request, overlapped, kind>>
           /\ \A b \in Admin \ {a} :
                UNCHANGED <<stage[b], names[b], found[b], seen[b], gone[b], ended[b]>>
           /\ patient' => patient
           /\ complained \subseteq complained' /\ complained' \subseteq complained \cup {a}
<1>1. /\ ~ Idle(a) /\ UNCHANGED <<request, overlapped, kind>>
      /\ \A b \in Admin \ {a} : UNCHANGED <<stage[b], names[b], found[b]>>
  BY CatalogueWorkFrame
<1>2. /\ patient' = patient \/ patient' = FALSE
      /\ complained' = complained \/ complained' = complained \cup {a}
  <2> USE DEF Proceed, Fail, Complain, GiveUp, EntityRefused
  <2>1. CASE Check(a) \/ DeleteFirst(a) \/ ProjectOf(a)
    BY <2>1 DEF Check, DeleteFirst, ProjectOf
  <2>2. CASE CreateEntity(a)
    BY <2>2 DEF CreateEntity
  <2>3. CASE Patch(a) \/ AddRow(a) \/ ListAll(a)
    BY <2>3 DEF Patch, AddRow, ListAll
  <2>4. CASE FindEntity(a) \/ Strip(a) \/ PutEntity(a) \/ UpdateRow(a)
    BY <2>4 DEF FindEntity, Strip, PutEntity, UpdateRow, AfterPut
  <2>5. CASE UsageOf(a) \/ PollDeletion(a) \/ DropRows(a)
    BY <2>5 DEF UsageOf, PollDeletion, DropRows
  <2>6. CASE DeleteEntity(a)
    BY <2>6 DEF DeleteEntity, DeletionFails
  <2> QED
    BY <2>1, <2>2, <2>3, <2>4, <2>5, <2>6 DEF CatalogueWork
<1>3. \A b \in Admin \ {a} : UNCHANGED <<seen[b], gone[b], ended[b]>>
  <2> USE DEF EntityRefused, catalogueOwn, CatalogueStateOK, CatalogueTypeOK
  <2>1. CASE Check(a) \/ DeleteFirst(a) \/ ProjectOf(a) \/ CreateEntity(a) \/ Patch(a)
    BY <2>1 DEF Check, DeleteFirst, ProjectOf, CreateEntity, Patch
  <2>2. CASE AddRow(a) \/ ListAll(a) \/ FindEntity(a) \/ Strip(a) \/ PutEntity(a) \/ UpdateRow(a)
    BY <2>2 DEF AddRow, ListAll, FindEntity, Strip, PutEntity, UpdateRow
  <2>3. CASE UsageOf(a) \/ PollDeletion(a) \/ DropRows(a)
    BY <2>3 DEF UsageOf, PollDeletion, DropRows
  <2>4. CASE DeleteEntity(a)
    BY <2>4 DEF DeleteEntity
  <2> QED
    BY <2>1, <2>2, <2>3, <2>4 DEF CatalogueWork
<1> QED
  BY <1>1, <1>2, <1>3

(* What a creation adds.                                                   *)
Created(a, new) ==
    /\ new \in Entity /\ new.id = entityIds + 1 /\ new.name \in names[a]
    /\ new.whole = (~ Creation.patched)
    /\ entities' = entities \cup {new} /\ entityIds' = entityIds + 1
    /\ found'[a] = {entityIds + 1}
    /\ UNCHANGED <<seen, names, gone, deletions, ended, entityRows>>

LEMMA CreationEffect ==
    ASSUME CatalogueStateOK, NEW a \in Admin, CreateEntity(a)
    PROVE  \/ UNCHANGED catalogueOwn /\ stage'[a] = "idle" /\ a \in complained'
           \/ (\E new \in Entity : Created(a, new)) /\ stage'[a] \in {"idle", "patch", "addRow"}
<1> USE DEF CatalogueStateOK, AdminsTypeOK, CatalogueTypeOK, Proceed, Complain, Fail, Goto
<1>1. CASE EntityRefused(a)
  BY <1>1 DEF EntityRefused
<1>2. CASE ~ EntityRefused(a)
  <2>1. PICK n \in names[a] :
          entities' = entities \cup {[id |-> entityIds + 1, name |-> n, whole |-> ~ Creation.patched]}
    BY <1>2 DEF CreateEntity
  <2>2. (~ Creation.patched) \in BOOLEAN
    OBVIOUS
  <2>3. [id |-> entityIds + 1, name |-> n, whole |-> ~ Creation.patched] \in Entity
    BY <2>2 DEF Entity
  <2>4. stage'[a] \in {"idle", "patch", "addRow"}
    BY <1>2 DEF CreateEntity, AfterCreate
  <2> QED
    BY <1>2, <2>1, <2>3, <2>4 DEF CreateEntity, Created
<1> QED
  BY <1>1, <1>2

LEMMA StagesKept ==
    ASSUME CatalogueIInv, CatalogueAtWork, NEW a \in Admin, CatalogueWork(a) PROVE StagesServe'
<1> DEFINE op == request[a].op
<1>1. /\ ~ Idle(a) /\ UNCHANGED <<request, overlapped, kind>> /\ request[a] \in CatalogueRequest
      /\ \A b \in Admin \ {a} : UNCHANGED <<stage[b], names[b]>>
      /\ StagesServe /\ kind \in DOMAIN Kinds /\ stage \in [Admin -> CatalogueStage]
      /\ names \in [Admin -> SUBSET Name]
  BY CatalogueWorkOthers DEF CatalogueIInv, CatalogueStateOK, CatalogueTypeOK, AdminsTypeOK,
     NamesAsked, CatalogueAtWork
<1>2. /\ op \in CatalogueOp
      /\ stage[a] \in {"check", "deleteFirst", "projectOf", "createEntity", "addRow"} => op = "createEntity"
  BY <1>1, CatalogueAssumption DEF CatalogueIInv, NamesAsked, StagesServe
<1>3. op = "createEntity" => names'[a] = names[a]
  BY <1>1, <1>2 DEF CatalogueWork, Check, DeleteFirst, ProjectOf, CreateEntity, Patch, AddRow,
     EntityRefused, ListAll, FindEntity, Strip, PutEntity, UpdateRow, AfterPut, UsageOf, DeleteEntity, PollDeletion,
     DropRows, catalogueOwn, StagesServe, CatalogueOp
<1> USE DEF Proceed, Fail, Complain, GiveUp, Goto, EntityRefused, NextName, StagesServe, Idle, CatalogueOp, catalogueOwn
<1> DEFINE Kept ==
        /\ stage'[a] = "addRow" => op = "createEntity" /\ Creation.row
        /\ stage'[a] = "patch" => op # "deleteEntities" /\ Creation.patched
        /\ stage'[a] = "putEntity" => op = "updateEntity" /\ ~ Creation.patched
        /\ stage'[a] = "strip" => op = "updateEntity" /\ Creation.patched
        /\ stage'[a] = "updateRow" => op = "updateEntity" /\ kind = "tunnel"
        /\ stage'[a] = "find" => op # "createEntity"
        /\ stage'[a] \in {"listAll", "usageOf", "deleteEntity", "pollDeletion", "dropRows"} => op = "deleteEntities"
        /\ stage'[a] = "dropRows" => Deletion.row = "last" /\ names'[a] = {}
        /\ stage'[a] = "usageOf" => Deletion.spares
        /\ stage'[a] = "pollDeletion" => Deletion.task
<1>4. Kept
  <2>1. CASE Check(a) \/ DeleteFirst(a) \/ ProjectOf(a)
    BY <1>1, <1>2, <2>1 DEF Check, DeleteFirst, ProjectOf, AfterCheck
  <2>2. CASE CreateEntity(a) \/ Patch(a) \/ AddRow(a)
    BY <1>1, <1>2, <2>2 DEF CreateEntity, Patch, AddRow, AfterCreate
  <2>3. CASE ListAll(a) \/ Strip(a) \/ PutEntity(a) \/ UpdateRow(a)
    BY <1>1, <1>2, <2>3 DEF ListAll, Strip, PutEntity, UpdateRow, AfterPut
  <2>4. CASE FindEntity(a)
    BY <1>1, <1>2, <2>4, KindFacts DEF FindEntity, AfterFind
  <2>5. CASE UsageOf(a) \/ PollDeletion(a) \/ DropRows(a)
    BY <1>1, <1>2, <2>5 DEF UsageOf, PollDeletion, DropRows
  <2>6. CASE DeleteEntity(a)
    BY <1>1, <1>2, <2>6 DEF DeleteEntity, DeletionFails
  <2> QED
    BY <2>1, <2>2, <2>3, <2>4, <2>5, <2>6 DEF CatalogueWork
<1> HIDE DEF Kept
<1>5. StagesServe'
  <2> SUFFICES ASSUME NEW b \in Admin, ~ Idle(b)'
               PROVE  /\ stage'[b] = "addRow" => request'[b].op = "createEntity" /\ Creation'.row
                      /\ stage'[b] = "patch" => request'[b].op # "deleteEntities" /\ Creation'.patched
                      /\ stage'[b] = "putEntity" => request'[b].op = "updateEntity" /\ ~ Creation'.patched
                      /\ stage'[b] = "strip" => request'[b].op = "updateEntity" /\ Creation'.patched
                      /\ stage'[b] = "updateRow" => request'[b].op = "updateEntity" /\ kind' = "tunnel"
                      /\ stage'[b] = "find" => request'[b].op # "createEntity"
                      /\ stage'[b] \in {"listAll", "usageOf", "deleteEntity", "pollDeletion", "dropRows"}
                           => request'[b].op = "deleteEntities"
                      /\ stage'[b] = "dropRows" => Deletion'.row = "last" /\ names'[b] = {}
                      /\ stage'[b] = "usageOf" => Deletion'.spares
                      /\ stage'[b] = "pollDeletion" => Deletion'.task
                      /\ request'[b].op = "updateEntity" => kind' \in DOMAIN Updates
                      /\ request'[b].op = "createEntity" => names'[b] = request'[b].names
    OBVIOUS
  <2>1. Creation' = Creation /\ Deletion' = Deletion
    BY <1>1 DEF Creation, Deletion
  <2>2. CASE b = a
    BY <1>1, <1>3, <1>4, <2>1, <2>2 DEF Kept
  <2>3. CASE b # a
    BY <1>1, <2>1, <2>3
  <2> QED
    BY <2>2, <2>3
<1> QED
  BY <1>5

(* Every row that a command may find is of an identity handed out.          *)
LEMMA KnownIsHanded ==
    ASSUME CatalogueIInv, CatalogueAtWork, NEW a \in Admin, NEW m \in Known(a)
    PROVE  /\ m.id \in Nat /\ m.id <= entityIds
           /\ kind # "tunnel" \/ m \in RowsOf(entities) => \A e \in entities : e.id = m.id => e.name = m.name
<1> USE DEF CatalogueIInv, CatalogueStateOK, CatalogueTypeOK, CatalogueAtWork, EntitiesDiffer, Handed, NamesTrue
<1>1. CASE m \in RowsOf(entities)
  BY <1>1 DEF RowsOf, Entity
<1>2. CASE m \in RowsOf(seen[a]) /\ m \notin RowsOf(entities)
  <2>1. PICK f \in seen[a] : m = [id |-> f.id, name |-> f.name]
    BY <1>2 DEF RowsOf
  <2>2. f \in Entity /\ f.id <= entityIds
    OBVIOUS
  <2>3. m.id = f.id /\ m.name = f.name
    BY <2>1
  <2> QED
    BY <1>2, <2>2, <2>3 DEF Entity
<1>3. CASE m \in entityRows /\ m \notin RowsOf(entities)
  BY <1>3
<1> QED
  BY <1>1, <1>2, <1>3, WaysToFind DEF Known

LEMMA HandedKept ==
    ASSUME CatalogueIInv, CatalogueAtWork, NEW a \in Admin, CatalogueWork(a) PROVE Handed'
<1>1. /\ CatalogueStateOK /\ CatalogueTypeOK /\ EntitiesDiffer /\ Handed
      /\ \A e \in entities : e.id \in Nat /\ e.id <= entityIds
  BY DEF CatalogueIInv, CatalogueStateOK, CatalogueTypeOK, CatalogueAtWork, EntitiesDiffer, Entity
<1>2. entityIds \in Nat
  BY <1>1 DEF CatalogueTypeOK
<1>3. CASE UNCHANGED <<seen, found, gone, deletions, entityRows, entityIds>>
  BY <1>1, <1>3 DEF Handed
<1> USE DEF EntityRefused, catalogueOwn
<1>4. CASE ProjectOf(a) \/ Patch(a) \/ Strip(a) \/ PutEntity(a) \/ UsageOf(a) \/ PollDeletion(a)
  BY <1>3, <1>4 DEF ProjectOf, Patch, Strip, PutEntity, UsageOf, PollDeletion
<1>12. CASE UpdateRow(a)
  <2>1. \A r \in RowsOf(InHand(a)) : r.id <= entityIds
    BY <1>1 DEF RowsOf, InHand
  <2> QED
    BY <1>1, <1>3, <1>12, <2>1 DEF UpdateRow, Handed
<1>5. CASE Check(a)
  BY <1>1, <1>3, <1>5 DEF Check, Handed, CatalogueTypeOK
<1>6. CASE DeleteFirst(a) \/ DropRows(a)
  <2>1. UNCHANGED <<seen, found, gone, deletions, entityIds>> /\ entityRows' \subseteq entityRows
    BY <1>6 DEF DeleteFirst, DropRows
  <2> QED
    BY <1>1, <2>1 DEF Handed
<1>7. CASE CreateEntity(a)
  <2>1. ASSUME NEW new \in Entity, Created(a, new) PROVE Handed'
    <3>1. /\ \A b \in Admin : gone[b] \subseteq Nat /\ found[b] \subseteq Nat
          /\ \A b \in Admin : \A e \in seen[b] \cup entityRows \cup deletions : e.id \in Nat
      BY <1>1 DEF CatalogueTypeOK, Entity
    <3>2. found'[a] = {entityIds + 1} /\ entityIds' = entityIds + 1
          /\ \A b \in Admin \ {a} : found'[b] = found[b]
      BY <1>1, <2>1, <1>7, CatalogueWorkOthers DEF Created
    <3>3. UNCHANGED <<seen, gone, deletions, entityRows>>
      BY <2>1 DEF Created
    <3> QED
      BY <1>1, <1>2, <3>1, <3>2, <3>3 DEF Handed
  <2> QED
    BY <1>1, <1>3, <1>7, <2>1, CreationEffect
<1>8. CASE AddRow(a)
  <2>1. \A r \in RowsOf(InHand(a)) : r.id <= entityIds
    BY <1>1 DEF RowsOf, InHand
  <2> QED
    BY <1>1, <1>3, <1>8, <2>1 DEF AddRow, Handed
<1>9. CASE ListAll(a)
  BY <1>1, <1>3, <1>9 DEF ListAll, Handed, CatalogueTypeOK
<1>10. CASE FindEntity(a)
  <2>1. ASSUME NEW m \in Known(a), found' = [found EXCEPT ![a] = {m.id}],
               UNCHANGED <<seen, gone, deletions, entityRows, entityIds>>
        PROVE  Handed'
    BY <1>1, <2>1, KnownIsHanded DEF Handed, CatalogueTypeOK
  <2> QED
    BY <1>3, <1>10, <2>1 DEF FindEntity
<1>11. CASE DeleteEntity(a)
  <2>1. ASSUME NEW e \in entities, deletions' \subseteq deletions \cup {[by |-> a, id |-> e.id]},
               gone' = gone \/ gone' = [gone EXCEPT ![a] = @ \cup {e.id}],
               entityRows' \subseteq entityRows, UNCHANGED <<seen, found, entityIds>>
        PROVE  Handed'
    <3>1. \A b \in Admin : gone'[b] \subseteq gone[b] \cup {e.id}
      BY <1>1, <2>1 DEF CatalogueTypeOK
    <3> QED
      BY <1>1, <2>1, <3>1 DEF Handed
  <2>2. ASSUME NEW e \in InHand(a),
               deletions' = deletions \cup {[by |-> a, id |-> e.id]} \/ deletions' = deletions,
               gone' = gone \/ gone' = [gone EXCEPT ![a] = @ \cup {e.id}],
               entityRows' = entityRows \ RowsOf({e}) \/ entityRows' = entityRows,
               UNCHANGED <<seen, found, entityIds>>
        PROVE  Handed'
    <3>1. e \in entities /\ deletions' \subseteq deletions \cup {[by |-> a, id |-> e.id]}
          /\ entityRows' \subseteq entityRows
      BY <2>2 DEF InHand
    <3> QED
      BY <2>1, <2>2, <3>1
  <2> QED
    BY <1>3, <1>11, <2>2 DEF DeleteEntity
<1> QED
  BY <1>4, <1>5, <1>6, <1>7, <1>8, <1>9, <1>10, <1>11, <1>12 DEF CatalogueWork

(* Names are found in rows and listings as long as no entity gets another.  *)
LEMMA NamesKept ==
    ASSUME CatalogueIInv, CatalogueAtWork, NEW a \in Admin, CatalogueWork(a) PROVE NamesTrue'
<1>1. /\ CatalogueStateOK /\ CatalogueTypeOK /\ EntitiesDiffer /\ Handed
      /\ \A e \in entities : e \in Entity /\ e.id \in Nat /\ e.id <= entityIds
      /\ entityIds \in Nat
  BY DEF CatalogueIInv, CatalogueStateOK, CatalogueTypeOK, CatalogueAtWork, EntitiesDiffer, Entity
<1>2. /\ ~ Idle(a) /\ UNCHANGED <<request, overlapped, kind>>
      /\ names[a] \subseteq request[a].names /\ request[a] \in CatalogueRequest
  BY CatalogueWorkOthers DEF CatalogueIInv, NamesAsked
<1> DEFINE True1 ==
        \A e \in entities :
            /\ \A b \in Admin : \A f \in seen[b] : f.id = e.id => f.name = e.name
            /\ \A w \in entityRows : w.id = e.id => w.name = e.name
<1> SUFFICES ASSUME kind # "tunnel" PROVE True1'
  BY <1>2 DEF NamesTrue
<1>3. True1
  BY DEF CatalogueAtWork, NamesTrue
<1>4. \A e \in entities : e.id \in found[a] => e.name \in request[a].names
  BY <1>2 DEF CatalogueAtWork, FoundAsked, NamesMeant, CatalogueIInv, NamesAsked
<1> USE DEF EntityRefused, catalogueOwn
<1>5. CASE CreateEntity(a)
  <2>1. CASE UNCHANGED catalogueOwn
    BY <1>3, <2>1
  <2>2. ASSUME NEW new \in Entity, Created(a, new) PROVE True1'
    <3>1. /\ new.id = entityIds + 1 /\ entities' = entities \cup {new} /\ UNCHANGED <<seen, entityRows>>
      BY <2>2 DEF Created
    <3>2. \A b \in Admin : \A f \in seen[b] : f.id # new.id
      BY <1>1, <3>1 DEF Handed, CatalogueTypeOK, Entity
    <3>3. \A w \in entityRows : w.id # new.id
      BY <1>1, <3>1 DEF Handed, CatalogueTypeOK
    <3> QED
      BY <1>3, <3>1, <3>2, <3>3
  <2> QED
    BY <1>1, <1>5, <2>1, <2>2, CreationEffect
<1>6. CASE ~ CreateEntity(a)
  <2>1. Thinned
    BY <1>6, CatalogueWorkThins
  <2>2. CASE ListAll(a)
    <3>1. \A b \in Admin : seen'[b] = seen[b] \/ seen'[b] = entities
      BY <1>1, <2>2 DEF ListAll, CatalogueTypeOK
    <3>2. UNCHANGED <<entities, entityRows>>
      BY <2>2 DEF ListAll
    <3> QED
      BY <1>1, <1>3, <3>1, <3>2 DEF EntitiesDiffer
  <2>3. CASE ~ ListAll(a)
    <3>1. UNCHANGED seen
      BY <1>6, <2>3 DEF CatalogueWork, Check, DeleteFirst, ProjectOf, Patch, AddRow, FindEntity,
         Strip, PutEntity, UpdateRow, UsageOf, DeleteEntity, PollDeletion, DropRows
    <3>2. CASE entityRows' \subseteq entityRows
      BY <1>1, <1>3, <2>1, <3>1, <3>2 DEF Thinned
    <3>3. CASE AddRow(a)
      <4>1. ASSUME NEW w \in [id : found[a], name : names[a]] \cup RowsOf(InHand(a)),
                   entityRows' = entityRows \cup {w}, UNCHANGED <<entities, seen>>
            PROVE  True1'
        <5>1. request[a].op = "createEntity"
          BY <1>2, <3>3 DEF AddRow, CatalogueAtWork, StagesServe
        <5>2. w.id \in found[a] /\ w.name \in request[a].names
          BY <1>2, <1>4, <4>1 DEF RowsOf, InHand
        <5>3. \A e \in entities : e.id = w.id => e.name = w.name
          BY <1>2, <1>4, <5>1, <5>2, CatalogueAssumption
        <5> QED
          BY <1>3, <4>1, <5>3
      <4>2. CASE UNCHANGED catalogueOwn
        BY <1>3, <4>2
      <4> QED
        BY <3>3, <4>1, <4>2 DEF AddRow
    <3>4. CASE ~ AddRow(a)
      <4>1. ~ UpdateRow(a)
        BY <1>2 DEF UpdateRow, CatalogueAtWork, StagesServe
      <4>2. entityRows' \subseteq entityRows
        BY <1>6, <2>3, <3>4, <4>1 DEF CatalogueWork, Check, DeleteFirst, ProjectOf, Patch, FindEntity,
           Strip, PutEntity, UsageOf, DeleteEntity, PollDeletion, DropRows
      <4> QED
        BY <3>2, <4>2
    <3> QED
      BY <3>3, <3>4
  <2> QED
    BY <2>2, <2>3
<1> QED
  BY <1>5, <1>6

(* What a command has in hand has a name it is about.                       *)
LEMMA InHandKept ==
    ASSUME CatalogueIInv, CatalogueAtWork, NEW a \in Admin, CatalogueWork(a) PROVE FoundAsked'
<1>1. /\ CatalogueStateOK /\ CatalogueTypeOK /\ EntitiesDiffer /\ Handed
      /\ \A e \in entities : e \in Entity /\ e.id \in Nat /\ e.id <= entityIds
      /\ entityIds \in Nat /\ stage \in [Admin -> CatalogueStage]
  BY DEF CatalogueIInv, CatalogueStateOK, CatalogueTypeOK, AdminsTypeOK, CatalogueAtWork,
     EntitiesDiffer, Entity
<1>2. /\ ~ Idle(a) /\ UNCHANGED <<request, overlapped, kind>>
      /\ \A b \in Admin \ {a} : UNCHANGED <<stage[b], names[b], found[b]>>
      /\ names[a] \subseteq request[a].names
      /\ request[a].rename # {} => kind = "tunnel"
  BY CatalogueWorkOthers DEF CatalogueIInv, NamesAsked
<1> DEFINE Asked1(b) == \A e \in entities : e.id \in found[b] => e.name \in NamesMeant(b)
<1> SUFFICES ASSUME kind # "tunnel" \/ ~ overlapped PROVE \A b \in Admin : ~ Idle(b)' => Asked1(b)'
  BY <1>2 DEF FoundAsked
<1>3. \A b \in Admin : ~ Idle(b) => Asked1(b)
  BY DEF CatalogueAtWork, FoundAsked
<1>4. \A b \in Admin \ {a} : NamesMeant(b)' = NamesMeant(b) /\ (~ Idle(b)' => ~ Idle(b))
  BY <1>2 DEF NamesMeant, Idle
<1>5. stage'[a] # "updateRow" => NamesMeant(a)' = request[a].names
  BY <1>2 DEF NamesMeant
<1>6. stage'[a] = "updateRow" => PutEntity(a)
  <2> USE DEF Proceed, Fail, Complain, GiveUp, Goto, NextName, EntityRefused
  <2> QED
    BY <1>1 DEF CatalogueWork, Check, DeleteFirst, ProjectOf, AfterCheck, CreateEntity, AfterCreate,
       Patch, AddRow, ListAll, FindEntity, AfterFind, Strip, UpdateRow, UsageOf, DeleteEntity,
       DeletionFails, PollDeletion, DropRows
<1>7. stage[a] # "updateRow" => NamesMeant(a) = request[a].names
  BY DEF NamesMeant
<1> HIDE DEF NamesMeant
<1> USE DEF EntityRefused, catalogueOwn
<1>8. CASE CreateEntity(a)
  <2>0. stage[a] # "updateRow" /\ stage'[a] # "updateRow"
    BY <1>6, <1>8 DEF CreateEntity, PutEntity
  <2>1. CASE UNCHANGED catalogueOwn
    BY <1>3, <1>4, <1>5, <1>7, <2>0, <2>1, <1>2
  <2>2. ASSUME NEW new \in Entity, Created(a, new) PROVE \A b \in Admin : ~ Idle(b)' => Asked1(b)'
    <3>1. /\ new.id = entityIds + 1 /\ new.name \in names[a] /\ entities' = entities \cup {new}
          /\ found'[a] = {entityIds + 1}
      BY <2>2 DEF Created
    <3>2. \A e \in entities : e.id # entityIds + 1
      BY <1>1
    <3>3. \A b \in Admin : \A i \in found[b] : i # new.id
      BY <1>1, <3>1 DEF Handed, CatalogueTypeOK
    <3> QED
      BY <1>2, <1>3, <1>4, <1>5, <2>0, <3>1, <3>2, <3>3
  <2> QED
    BY <1>1, <1>8, <2>1, <2>2, CreationEffect
<1>9. CASE PutEntity(a)
  <2>0. stage[a] = "putEntity"
    BY <1>9 DEF PutEntity
  <2>1. CASE UNCHANGED catalogueOwn /\ stage'[a] = "idle"
    BY <1>2, <1>3, <1>4, <2>1 DEF Idle
  <2>2. ASSUME NEW e \in InHand(a), NEW d \in Entity, d.id = e.id,
               d.name \in IF request[a].rename = {} THEN {e.name} ELSE request[a].rename,
               entities' = (entities \ {e}) \cup {d}, UNCHANGED found
        PROVE  \A b \in Admin : ~ Idle(b)' => Asked1(b)'
    <3>1. e \in entities /\ e.id \in found[a] /\ e.name \in request[a].names
      BY <1>2, <1>3, <1>7, <2>0 DEF InHand
    <3>2. \A f \in entities : f.id = e.id => f = e
      BY <1>1, <3>1 DEF EntitiesDiffer
    <3>3. found[a] = {e.id}
      BY <1>1, <3>1 DEF Handed
    <3>4. d.name \in NamesMeant(a)' \/ stage'[a] \notin {"updateRow"} 
      BY <1>2, <2>2, <3>1 DEF NamesMeant
    <3>5. stage'[a] = "updateRow" \/ stage'[a] = "idle"
      BY <1>1, <1>9, PutEffect
    <3>6. Idle(a)' \/ Asked1(a)'
      BY <2>2, <3>2, <3>3, <3>4, <3>5 DEF Idle
    <3>7. ASSUME NEW b \in Admin \ {a}, ~ Idle(b)' PROVE Asked1(b)'
      <4>1. ~ Idle(b) /\ Asked1(b) /\ NamesMeant(b) \subseteq NamesOf(request[b])
        BY <1>3, <1>4, <3>7 DEF NamesMeant, NamesOf
      <4>2. CASE request[a].rename = {}
        BY <1>4, <2>2, <3>1, <4>1, <4>2
      <4>3. CASE request[a].rename # {}
        <5>1. NamesOf(request[a]) \cap NamesOf(request[b]) = {}
          BY <1>2, <4>1, <4>3, <3>7 DEF CatalogueIInv, ApartInNames, Reassigns
        <5>2. e.id \notin found[b]
          BY <3>1, <4>1, <5>1 DEF NamesOf
        <5> QED
          BY <1>4, <2>2, <4>1, <5>2
      <4> QED
        BY <4>2, <4>3
    <3> QED
      BY <3>6, <3>7
  <2>3. CASE UNCHANGED found /\ \E e \in InHand(a), d \in Entity :
            /\ d.id = e.id
            /\ d.name \in (IF request[a].rename = {} THEN {e.name} ELSE request[a].rename)
            /\ entities' = (entities \ {e}) \cup {d}
    BY <2>2, <2>3
  <2>4. \/ UNCHANGED catalogueOwn /\ stage'[a] = "idle"
        \/ UNCHANGED found /\ \E e \in InHand(a), d \in Entity :
             /\ d.id = e.id
             /\ d.name \in (IF request[a].rename = {} THEN {e.name} ELSE request[a].rename)
             /\ entities' = (entities \ {e}) \cup {d}
    BY <1>9, PutEffect
  <2> QED
    BY <2>1, <2>3, <2>4
<1>10. CASE ~ CreateEntity(a) /\ ~ PutEntity(a)
  <2>1. Thinned
    BY <1>10, CatalogueWorkThins
  <2>2. \A b \in Admin \ {a} : ~ Idle(b)' => Asked1(b)'
    BY <1>2, <1>3, <1>4, <2>1 DEF Thinned
  <2>3. ASSUME \A e \in entities' : e.id \in found'[a] => e.name \in request[a].names
        PROVE  \A b \in Admin : ~ Idle(b)' => Asked1(b)'
    BY <1>5, <1>6, <1>10, <2>2, <2>3
  <2>4. CASE stage[a] = "updateRow"
    <3>1. UpdateRow(a)
      BY <2>4 DEF CatalogueWork, Check, DeleteFirst, ProjectOf, CreateEntity, Patch, AddRow,
         ListAll, FindEntity, Strip, PutEntity, UsageOf, DeleteEntity, PollDeletion, DropRows
    <3>2. Idle(a)'
      BY <1>1, <3>1 DEF UpdateRow, Idle, Proceed, Fail, Complain, Goto
    <3> QED
      BY <2>2, <3>2
  <2>5. CASE stage[a] # "updateRow" /\ UNCHANGED found
    BY <1>2, <1>3, <1>7, <2>1, <2>3, <2>5 DEF Thinned
  <2>6. CASE Check(a)
    BY <1>1, <1>2, <1>3, <1>7, <2>3, <2>5, <2>6 DEF Check, EntitiesDiffer, CatalogueTypeOK
  <2>7. CASE FindEntity(a)
    <3>1. ASSUME NEW n \in names[a], NEW m \in Known(a), {k \in Known(a) : k.name = n} = {m},
                 found' = [found EXCEPT ![a] = {m.id}], UNCHANGED entities
          PROVE  \A e \in entities' : e.id \in found'[a] => e.name \in request[a].names
      <4>1. m.name = n
        BY <3>1
      <4>2. kind # "tunnel" \/ Known(a) = RowsOf(entities)
        BY <1>1, KindFacts DEF Known, CatalogueTypeOK
      <4> QED
        BY <1>1, <1>2, <3>1, <4>1, <4>2, KnownIsHanded DEF CatalogueTypeOK
    <3>2. stage[a] # "updateRow"
      BY <2>7 DEF FindEntity
    <3> QED
      BY <2>3, <2>5, <2>7, <3>1, <3>2 DEF FindEntity
  <2>8. CASE stage[a] # "updateRow" /\ ~ Check(a) /\ ~ FindEntity(a)
    <3>1. UNCHANGED found
      BY <1>10, <2>8 DEF CatalogueWork, DeleteFirst, ProjectOf, Patch, AddRow, ListAll, Strip,
         UpdateRow, UsageOf, DeleteEntity, PollDeletion, DropRows
    <3> QED
      BY <2>5, <2>8, <3>1
  <2> QED
    BY <2>4, <2>6, <2>7, <2>8
<1> QED
  BY <1>8, <1>9, <1>10

LEMMA KindsKept ==
    ASSUME CatalogueIInv, CatalogueAtWork, NEW a \in Admin, CatalogueWork(a) PROVE KindsDiffer'
<1>1. /\ ~ Idle(a) /\ KindsDiffer /\ StagesServe /\ CatalogueStateOK /\ kind \in DOMAIN Kinds
      /\ entities \subseteq Entity
      /\ Creation' = Creation /\ Deletion' = Deletion
  BY CatalogueWorkOthers DEF CatalogueIInv, CatalogueStateOK, CatalogueTypeOK, CatalogueAtWork,
     Creation, Deletion
<1> USE DEF EntityRefused, catalogueOwn
<1>2. ~ Creation.patched => \A e \in entities' : e.whole
  <2>1. CASE CreateEntity(a)
    BY <1>1, <2>1, CreationEffect DEF KindsDiffer, Created
  <2>2. CASE Patch(a)
    BY <1>1, <2>2 DEF Patch, StagesServe, Idle
  <2>3. CASE Strip(a)
    BY <1>1, <2>3 DEF Strip, StagesServe, Idle
  <2>4. CASE PutEntity(a)
    <3>1. CASE UNCHANGED catalogueOwn
      BY <1>1, <3>1 DEF KindsDiffer
    <3>2. CASE \E e \in InHand(a), d \in Entity :
                 d.whole = e.whole /\ entities' = (entities \ {e}) \cup {d}
      BY <1>1, <3>2 DEF KindsDiffer, InHand
    <3> QED
      BY <2>4, <3>1, <3>2, PutEffect
  <2>5. CASE ~ CreateEntity(a) /\ ~ Patch(a) /\ ~ Strip(a) /\ ~ PutEntity(a)
    <3>1. entities' \subseteq entities
      BY <2>5 DEF CatalogueWork, Check, DeleteFirst, ProjectOf, AddRow, ListAll, FindEntity,
         UpdateRow, UsageOf, DeleteEntity, PollDeletion, DropRows
    <3> QED
      BY <1>1, <3>1 DEF KindsDiffer
  <2> QED
    BY <2>1, <2>2, <2>3, <2>4, <2>5
<1>3. ~ Deletion.task => deletions' = {}
  BY <1>1 DEF KindsDiffer, CatalogueWork, Check, DeleteFirst, ProjectOf, CreateEntity, Patch,
     AddRow, ListAll, FindEntity, Strip, PutEntity, UpdateRow, AfterPut, UsageOf, DeleteEntity, PollDeletion, DropRows
<1>4. Deletion.row = "never" => entityRows' = {}
  <2>1. CASE AddRow(a)
    BY <1>1, <2>1, KindFacts DEF AddRow, StagesServe, KindsDiffer, Idle
  <2>2. CASE UpdateRow(a)
    BY <1>1, <2>2, KindFacts DEF UpdateRow, StagesServe, Idle
  <2>3. CASE ~ AddRow(a) /\ ~ UpdateRow(a)
    <3>1. entityRows' \subseteq entityRows
      BY <2>3 DEF CatalogueWork, Check, DeleteFirst, ProjectOf, CreateEntity, Patch, ListAll,
         FindEntity, Strip, PutEntity, UsageOf, DeleteEntity, PollDeletion, DropRows
    <3> QED
      BY <1>1, <3>1 DEF KindsDiffer
  <2> QED
    BY <2>1, <2>2, <2>3
<1> QED
  BY <1>1, <1>2, <1>3, <1>4 DEF KindsDiffer

(* A step takes away, or starts to delete, only what is in hand.            *)
LEMMA OnlyInHand ==
    ASSUME CatalogueIInv, NEW a \in Admin, CatalogueWork(a)
    PROVE  /\ entities \ InHand(a) \subseteq entities'
           /\ \A t \in deletions' : t \in deletions \/ \E e \in InHand(a) : t.id = e.id
           /\ \A b \in Admin : \A i \in gone'[b] : i \in gone[b] \/ \E e \in InHand(a) : i = e.id
<1> USE DEF EntityRefused, catalogueOwn
<1>1. CASE UNCHANGED <<deletions, gone>> /\ entities \ InHand(a) \subseteq entities'
  BY <1>1
<1>2. CASE Check(a) \/ DeleteFirst(a) \/ ProjectOf(a) \/ CreateEntity(a) \/ Patch(a)
  BY <1>1, <1>2 DEF Check, DeleteFirst, ProjectOf, CreateEntity, Patch
<1>3. CASE AddRow(a) \/ ListAll(a) \/ FindEntity(a) \/ Strip(a) \/ UpdateRow(a)
  BY <1>1, <1>3 DEF AddRow, ListAll, FindEntity, Strip, UpdateRow
<1>6. CASE PutEntity(a)
  BY <1>1, <1>6, PutEffect
<1>4. CASE UsageOf(a) \/ PollDeletion(a) \/ DropRows(a)
  BY <1>1, <1>4 DEF UsageOf, PollDeletion, DropRows
<1>5. CASE DeleteEntity(a)
  <2>1. gone \in [Admin -> SUBSET Nat]
    BY DEF CatalogueIInv, CatalogueStateOK, CatalogueTypeOK
  <2>2. CASE UNCHANGED catalogueOwn
    BY <1>1, <2>2
  <2>3. ASSUME NEW e \in InHand(a),
               entities' = entities \/ entities' = entities \ {e},
               deletions' = deletions \/ deletions' = deletions \cup {[by |-> a, id |-> e.id]},
               gone' = gone \/ gone' = [gone EXCEPT ![a] = @ \cup {e.id}]
        PROVE  /\ entities \ InHand(a) \subseteq entities'
               /\ \A t \in deletions' : t \in deletions \/ t.id = e.id
               /\ \A b \in Admin : \A i \in gone'[b] : i \in gone[b] \/ i = e.id
    <3>1. \A b \in Admin : gone'[b] \subseteq gone[b] \cup {e.id}
      BY <2>1, <2>3
    <3> QED
      BY <2>3, <3>1
  <2>4. \/ UNCHANGED catalogueOwn
        \/ \E e \in InHand(a) :
             /\ entities' = entities \/ entities' = entities \ {e}
             /\ deletions' = deletions \/ deletions' = deletions \cup {[by |-> a, id |-> e.id]}
             /\ gone' = gone \/ gone' = [gone EXCEPT ![a] = @ \cup {e.id}]
    BY <1>5 DEF DeleteEntity
  <2> QED
    BY <2>2, <2>3, <2>4
<1> QED
  BY <1>2, <1>3, <1>4, <1>5, <1>6 DEF CatalogueWork

(* Where the identities of the entities come from.                          *)
LEMMA SameOrNew ==
    ASSUME CatalogueIInv, CatalogueAtWork, NEW a \in Admin, CatalogueWork(a), NEW e \in entities'
    PROVE  \/ \E f \in entities : f.id = e.id /\ (kind # "tunnel" => f.name = e.name)
           \/ e.id = entityIds + 1 /\ CreateEntity(a) /\ e.name \in request[a].names
<1>1. CASE ~ CreateEntity(a) /\ (kind # "tunnel" \/ ~ PutEntity(a))
  BY <1>1, CatalogueWorkThins DEF Thinned
<1>3. CASE kind = "tunnel" /\ PutEntity(a)
  <2>1. CASE UNCHANGED catalogueOwn
    BY <2>1 DEF catalogueOwn
  <2>2. CASE \E f \in InHand(a), d \in Entity :
               d.id = f.id /\ entities' = (entities \ {f}) \cup {d}
    BY <1>3, <2>2 DEF InHand
  <2> QED
    BY <1>3, <2>1, <2>2, PutEffect
<1>2. CASE CreateEntity(a)
  <2>1. names[a] \subseteq request[a].names
    BY CatalogueWorkFrame DEF CatalogueIInv, NamesAsked
  <2> QED
    BY <1>2, <2>1, CreationEffect DEF CatalogueIInv, Created, catalogueOwn
<1> QED
  BY <1>1, <1>2, <1>3

(* What a step makes of the entities deleted and their rows.                *)
LEMMA DeletionEffect ==
    ASSUME CatalogueStateOK, NEW a \in Admin, DeleteEntity(a)
    PROVE  \/ UNCHANGED <<entities, entityRows, gone>> /\ stage'[a] # "pollDeletion"
              /\ (a \in complained' \/ Deletion.lax)
           \/ \E e \in InHand(a) :
                /\ entities' = IF Deletion.task THEN entities ELSE entities \ {e}
                /\ Deletion.task => ended'[a] = "pending"
                /\ \/ /\ gone'[a] = gone[a] \cup {e.id}
                      /\ \/ entityRows' = IF Deletion.row = "each" THEN entityRows \ RowsOf({e})
                                          ELSE entityRows
                         \/ entityRows' = entityRows /\ a \in complained'
                      /\ stage'[a] = IF Deletion.task THEN "pollDeletion" ELSE NextName(a, gone'[a])
                   \/ /\ UNCHANGED <<gone, entityRows>>
                      /\ stage'[a] # "pollDeletion"
                      /\ a \in complained' \/ Deletion.lax
<1> USE DEF Proceed, Fail, Complain, Goto, CatalogueStateOK, AdminsTypeOK, CatalogueTypeOK, NextName
<1>1. ASSUME DeletionFails(a) PROVE stage'[a] # "pollDeletion" /\ (a \in complained' \/ Deletion.lax)
  BY <1>1 DEF DeletionFails
<1>2. CASE DeletionFails(a) /\ UNCHANGED catalogueOwn
  BY <1>1, <1>2 DEF catalogueOwn
<1>3. ASSUME NEW e \in InHand(a),
             IF Deletion.task
               THEN /\ deletions' = deletions \cup {[by |-> a, id |-> e.id]}
                    /\ ended' = [ended EXCEPT ![a] = "pending"]
                    /\ UNCHANGED entities
               ELSE /\ entities' = entities \ {e}
                    /\ UNCHANGED <<deletions, ended>>,
             \/ /\ gone' = [gone EXCEPT ![a] = @ \cup {e.id}]
                /\ Proceed(a, IF Deletion.task THEN "pollDeletion" ELSE NextName(a, gone'[a]))
                /\ entityRows' = IF Deletion.row = "each" THEN entityRows \ RowsOf({e})
                                 ELSE entityRows
             \/ /\ Deletion.row = "each" /\ ~ Deletion.task
                /\ gone' = [gone EXCEPT ![a] = @ \cup {e.id}]
                /\ Complain(a, NextName(a, gone'[a])) /\ UNCHANGED entityRows
             \/ DeletionFails(a) /\ UNCHANGED <<gone, entityRows>>
      PROVE  /\ entities' = IF Deletion.task THEN entities ELSE entities \ {e}
             /\ Deletion.task => ended'[a] = "pending"
             /\ \/ /\ gone'[a] = gone[a] \cup {e.id}
                   /\ \/ entityRows' = IF Deletion.row = "each" THEN entityRows \ RowsOf({e})
                                       ELSE entityRows
                      \/ entityRows' = entityRows /\ a \in complained'
                   /\ stage'[a] = IF Deletion.task THEN "pollDeletion" ELSE NextName(a, gone'[a])
                \/ /\ UNCHANGED <<gone, entityRows>>
                   /\ stage'[a] # "pollDeletion"
                   /\ a \in complained' \/ Deletion.lax
  BY <1>1, <1>3
<1> QED
  BY <1>2, <1>3, KindFacts DEF DeleteEntity

LEMMA GoneKept ==
    ASSUME CatalogueIInv, CatalogueAtWork, NEW a \in Admin, CatalogueWork(a) PROVE GoneForGood'
<1>1. /\ CatalogueStateOK /\ CatalogueTypeOK /\ EntitiesDiffer /\ Handed /\ GoneForGood /\ StagesServe
      /\ entityIds \in Nat /\ stage \in [Admin -> CatalogueStage] /\ gone \in [Admin -> SUBSET Nat]
      /\ found \in [Admin -> SUBSET Nat] /\ ended \in [Admin -> {"none", "pending", "succeeded", "failed"}]
      /\ kind \in DOMAIN Kinds
      /\ \A e \in entities : e \in Entity /\ e.id \in Nat
  BY DEF CatalogueIInv, CatalogueStateOK, CatalogueTypeOK, AdminsTypeOK, CatalogueAtWork, Entity
<1>2. /\ ~ Idle(a) /\ UNCHANGED <<request, overlapped, kind>>
      /\ \A b \in Admin \ {a} :
           UNCHANGED <<stage[b], names[b], found[b], seen[b], gone[b], ended[b]>>
      /\ patient' => patient
      /\ complained \subseteq complained'
  BY <1>1, CatalogueWorkOthers
<1>3. \A b \in Admin : \A e \in entities' : e.id \in found[b] \cup gone[b] =>
        \E f \in entities : f.id = e.id
  <2>1. \A b \in Admin : entityIds + 1 \notin found[b] \cup gone[b]
    BY <1>1 DEF Handed
  <2> QED
    BY <2>1, SameOrNew
<1>4. Deletion' = Deletion
  BY <1>2 DEF Deletion
<1> USE DEF Proceed, Fail, Complain, GiveUp, Goto, NextName, EntityRefused
<1>5. stage'[a] = "pollDeletion" => DeleteEntity(a)
  BY <1>1 DEF CatalogueWork, Check, DeleteFirst, ProjectOf, AfterCheck, CreateEntity, AfterCreate,
     Patch, AddRow, ListAll, FindEntity, AfterFind, Strip, PutEntity, UpdateRow, AfterPut, UsageOf, PollDeletion,
     DropRows
<1>6. ASSUME NEW b \in Admin, stage'[b] = "pollDeletion", ended'[b] = "succeeded"
      PROVE  \A e \in entities' : e.id \notin found'[b]
  <2>1. CASE b = a
    <3>1. DeleteEntity(a)
      BY <1>5, <1>6, <2>1
    <3>2. Deletion.task
      BY <1>1, <1>6, <2>1, <3>1, DeletionEffect
    <3> QED
      BY <1>1, <1>6, <2>1, <3>1, <3>2, DeletionEffect
  <2>2. CASE b # a
    BY <1>1, <1>2, <1>3, <1>6, <2>2 DEF GoneForGood
  <2> QED
    BY <2>1, <2>2
<1>7. ASSUME patient', NEW b \in Admin, ~ Idle(b)', b \notin complained', NEW e \in entities', e.id \in gone'[b]
      PROVE  stage'[b] = "pollDeletion" /\ e.id \in found'[b]
  <2>1. ~ Idle(b) /\ patient /\ b \notin complained
    BY <1>2, <1>7 DEF Idle
  <2>2. CASE b # a
    BY <1>1, <1>2, <1>3, <1>7, <2>1, <2>2 DEF GoneForGood
  <2>3. CASE b = a /\ DeleteEntity(a)
    <3>1. stage[a] = "deleteEntity" /\ entities' \subseteq entities /\ found' = found
      BY <2>3 DEF DeleteEntity, catalogueOwn
    <3>2. e \in entities /\ e.id \notin gone[a]
      BY <1>1, <1>7, <2>1, <2>3, <3>1 DEF GoneForGood
    <3>3. PICK d \in InHand(a) :
            /\ entities' = IF Deletion.task THEN entities ELSE entities \ {d}
            /\ gone'[a] = gone[a] \cup {d.id}
            /\ stage'[a] = IF Deletion.task THEN "pollDeletion" ELSE NextName(a, gone'[a])
      BY <1>1, <1>7, <2>3, <3>2, DeletionEffect
    <3>4. e.id = d.id /\ d \in entities /\ d.id \in found[a]
      BY <1>7, <2>3, <3>2, <3>3 DEF InHand
    <3>5. e = d
      BY <1>1, <3>2, <3>4 DEF EntitiesDiffer
    <3> QED
      BY <1>7, <2>3, <3>1, <3>3, <3>4, <3>5
  <2>4. CASE b = a /\ ~ DeleteEntity(a)
    <3>1. UNCHANGED gone
      BY <2>4 DEF CatalogueWork, Check, DeleteFirst, ProjectOf, CreateEntity, Patch, AddRow,
         ListAll, FindEntity, Strip, PutEntity, UpdateRow, AfterPut, UsageOf, PollDeletion, DropRows, catalogueOwn
    <3>2. PICK f \in entities : f.id = e.id
      BY <1>3, <1>7, <2>4, <3>1
    <3>3. stage[a] = "pollDeletion" /\ f.id \in found[a]
      BY <1>1, <1>7, <2>1, <2>4, <3>1, <3>2 DEF GoneForGood
    <3>4. PollDeletion(a)
      BY <3>3 DEF CatalogueWork, Check, DeleteFirst, ProjectOf, CreateEntity, Patch, AddRow,
         ListAll, FindEntity, Strip, PutEntity, UpdateRow, AfterPut, UsageOf, DeleteEntity, DropRows
    <3>5. ended[a] # "succeeded"
      BY <1>1, <3>2, <3>3 DEF GoneForGood
    <3> QED
      BY <1>1, <1>7, <2>4, <3>4, <3>5 DEF PollDeletion, Idle
  <2> QED
    BY <2>2, <2>3, <2>4
<1>8. ASSUME ~ overlapped', Deletion.row # "last", NEW b \in Admin, ~ Idle(b)', b \notin complained',
             NEW w \in entityRows'
      PROVE  w.id \notin gone'[b]
  <2>1. ~ Idle(b) /\ ~ overlapped /\ b \notin complained /\ kind # "tunnel"
    BY <1>1, <1>2, <1>8, KindFacts DEF Idle
  <2>2. ~ Deletion.task /\ Deletion.row = "each"
    <3>1. KindsDiffer'
      BY KindsKept
    <3> QED
      BY <1>1, <1>4, <1>8, <3>1, KindFacts DEF KindsDiffer
  <2>3. CASE DeleteEntity(a)
    <3>1. CASE UNCHANGED <<entityRows, gone>>
      BY <1>1, <1>8, <2>1, <3>1 DEF GoneForGood
    <3>2. ASSUME NEW d \in InHand(a), gone'[a] = gone[a] \cup {d.id},
                 \/ entityRows' = entityRows \ RowsOf({d})
                 \/ entityRows' = entityRows /\ a \in complained'
          PROVE  w.id \notin gone'[b]
      <4>1. d \in entities /\ w \in entityRows /\ [id |-> d.id, name |-> d.name] \in RowsOf({d})
        BY <1>8, <3>2 DEF InHand, RowsOf
      <4>2. w \in [id : Nat, name : Name]
        BY <1>1, <4>1 DEF CatalogueTypeOK
      <4>3. w.id \notin gone[b]
        BY <1>1, <1>8, <2>1, <4>1 DEF GoneForGood
      <4>4. CASE b # a
        BY <1>2, <4>3, <4>4
      <4>5. CASE b = a
        <5>1. w.id # d.id
          BY <1>8, <2>1, <3>2, <4>1, <4>2, <4>5 DEF CatalogueAtWork, NamesTrue
        <5> QED
          BY <3>2, <4>3, <4>5, <5>1
      <4> QED
        BY <4>4, <4>5
    <3> QED
      BY <1>1, <2>2, <2>3, <3>1, <3>2, DeletionEffect
  <2>4. CASE ~ DeleteEntity(a)
    <3>1. UNCHANGED gone
      BY <2>4 DEF CatalogueWork, Check, DeleteFirst, ProjectOf, CreateEntity, Patch, AddRow,
         ListAll, FindEntity, Strip, PutEntity, UpdateRow, UsageOf, PollDeletion, DropRows, catalogueOwn
    <3>2. w \in entityRows \/ (AddRow(a) /\ w.id \in found[a])
      <4>1. CASE AddRow(a)
        <5>1. ASSUME NEW v \in [id : found[a], name : names[a]] \cup RowsOf(InHand(a)),
                     entityRows' = entityRows \cup {v}
              PROVE  w \in entityRows \/ w.id \in found[a]
          BY <1>8, <5>1 DEF RowsOf, InHand
        <5>2. CASE entityRows' = entityRows
          BY <1>8, <5>2
        <5> QED
          BY <4>1, <5>1, <5>2 DEF AddRow, catalogueOwn
      <4>2. CASE ~ AddRow(a)
        <5>1. ~ UpdateRow(a)
          BY <1>1, <1>2, <2>1 DEF UpdateRow, StagesServe
        <5>2. entityRows' \subseteq entityRows
          BY <2>4, <4>2, <5>1 DEF CatalogueWork, Check, DeleteFirst, ProjectOf, CreateEntity, Patch,
             ListAll, FindEntity, Strip, PutEntity, UsageOf, PollDeletion, DropRows, catalogueOwn
        <5> QED
          BY <1>8, <5>2
      <4> QED
        BY <4>1, <4>2
    <3>3. AddRow(a) => found[a] \cap gone[b] = {}
      BY <2>1 DEF AddRow, CatalogueAtWork, RowIsDue
    <3> QED
      BY <1>1, <1>8, <2>1, <3>1, <3>2, <3>3 DEF GoneForGood
  <2> QED
    BY <2>3, <2>4
<1> QED
  BY <1>4, <1>6, <1>7, <1>8 DEF GoneForGood

(* Nobody else has in hand what is being created.                           *)
LEMMA NotInOtherHands ==
    ASSUME CatalogueIInv, CatalogueAtWork, ~ overlapped, NEW a \in Admin, NEW b \in Admin, a # b,
           ~ Idle(a), ~ Idle(b), Reassigns(request[a]) \/ Reassigns(request[b])
    PROVE  \A d \in InHand(a) : d.id \notin found[b]
<1> SUFFICES ASSUME NEW d \in InHand(a), d.id \in found[b] PROVE FALSE
  OBVIOUS
<1>1. d.name \in NamesMeant(a) /\ d.name \in NamesMeant(b)
  BY DEF InHand, CatalogueAtWork, FoundAsked
<1>2. d.name \in NamesOf(request[a]) \cap NamesOf(request[b])
  BY <1>1 DEF NamesMeant, NamesOf
<1> QED
  BY <1>2 DEF CatalogueIInv, ApartInNames

LEMMA DueKept ==
    ASSUME CatalogueIInv, CatalogueAtWork, NEW a \in Admin, CatalogueWork(a) PROVE RowIsDue'
<1>1. /\ CatalogueStateOK /\ CatalogueTypeOK /\ EntitiesDiffer /\ Handed /\ RowIsDue /\ StagesServe
      /\ entityIds \in Nat /\ stage \in [Admin -> CatalogueStage]
  BY DEF CatalogueIInv, CatalogueStateOK, CatalogueTypeOK, AdminsTypeOK, CatalogueAtWork
<1>2. /\ ~ Idle(a) /\ UNCHANGED <<request, overlapped, kind>>
      /\ \A b \in Admin \ {a} : UNCHANGED <<stage[b], found[b], gone[b]>>
  BY <1>1, CatalogueWorkOthers
<1>3. stage'[a] = "addRow" => CreateEntity(a)
  <2> USE DEF Proceed, Fail, Complain, GiveUp, Goto, NextName, EntityRefused
  <2> QED
    BY <1>1 DEF CatalogueWork, Check, DeleteFirst, ProjectOf, AfterCheck, Patch, AddRow, ListAll,
       FindEntity, AfterFind, Strip, PutEntity, UpdateRow, AfterPut, UsageOf, DeleteEntity, DeletionFails,
       PollDeletion, DropRows
<1> SUFFICES ASSUME ~ overlapped, NEW b \in Admin, stage'[b] = "addRow"
             PROVE  /\ \E e \in entities' : e.id \in found'[b]
                    /\ \A t \in deletions' : t.id \notin found'[b]
                    /\ \A d \in Admin : ~ Idle(d)' => found'[b] \cap gone'[d] = {}
  BY <1>2 DEF RowIsDue, InHand
<1>4. CASE b = a
  <2>1. PICK new \in Entity : Created(a, new)
    BY <1>1, <1>3, <1>4, CreationEffect
  <2>2. new \in entities' /\ new.id = entityIds + 1 /\ found'[a] = {entityIds + 1}
        /\ UNCHANGED <<gone, deletions>>
    BY <2>1 DEF Created
  <2>3. /\ \A t \in deletions : t.id \in Nat /\ t.id <= entityIds
        /\ \A d \in Admin : \A i \in gone[d] : i \in Nat /\ i <= entityIds
    BY <1>1 DEF Handed, CatalogueTypeOK
  <2> QED
    BY <1>1, <1>4, <2>2, <2>3
<1>5. CASE b # a
  <2>1. stage[b] = "addRow" /\ ~ Idle(b) /\ found'[b] = found[b] /\ request[b].op = "createEntity"
    BY <1>1, <1>2, <1>5 DEF Idle, StagesServe
  <2>2. \A d \in InHand(a) : d.id \notin found[b]
    BY <1>2, <1>5, <2>1, NotInOtherHands DEF Reassigns
  <2>3. PICK e \in entities : e.id \in found[b]
    BY <1>1, <2>1 DEF RowIsDue, InHand
  <2>4. e \in entities'
    BY <2>2, <2>3, OnlyInHand
  <2>5. \A t \in deletions' : t.id \notin found[b]
    BY <1>1, <2>1, <2>2, OnlyInHand DEF RowIsDue
  <2>6. ASSUME NEW d \in Admin, ~ Idle(d)' PROVE found[b] \cap gone'[d] = {}
    <3>1. ~ Idle(d)
      BY <1>2, <2>6 DEF Idle
    <3> QED
      BY <1>1, <2>1, <2>2, <3>1, OnlyInHand DEF RowIsDue
  <2> QED
    BY <2>1, <2>3, <2>4, <2>5, <2>6
<1> QED
  BY <1>4, <1>5

LEMMA StillKept ==
    ASSUME CatalogueIInv, CatalogueAtWork, NEW a \in Admin, CatalogueWork(a) PROVE StillToDelete'
<1>1. /\ CatalogueStateOK /\ CatalogueTypeOK /\ EntitiesDiffer /\ Handed /\ StillToDelete /\ StagesServe
      /\ GoneForGood /\ stage \in [Admin -> CatalogueStage] /\ kind \in DOMAIN Kinds
      /\ names \in [Admin -> SUBSET Name] /\ found \in [Admin -> SUBSET Nat] /\ seen \in [Admin -> SUBSET Entity]
  BY DEF CatalogueIInv, CatalogueStateOK, CatalogueTypeOK, AdminsTypeOK, CatalogueAtWork
<1>2. /\ ~ Idle(a) /\ UNCHANGED <<request, overlapped, kind>>
      /\ \A b \in Admin \ {a} : UNCHANGED <<stage[b], names[b], found[b], seen[b]>>
      /\ patient' => patient
      /\ complained \subseteq complained'
      /\ names[a] \subseteq request[a].names
  BY <1>1, CatalogueWorkOthers DEF CatalogueIInv, NamesAsked
<1>3. Deletion' = Deletion
  BY <1>2 DEF Deletion
<1> DEFINE Known1(b, e) ==
        /\ e.name \in names'[b] \/ (stage'[b] \in {"deleteEntity", "pollDeletion"} /\ e.id \in found'[b])
        /\ Deletion.finds = "listing" /\ stage'[b] # "listAll" /\ e.name \in names'[b] =>
               \E f \in seen'[b] : f.id = e.id /\ f.name = e.name
<1> SUFFICES ASSUME NEW b \in Admin, DeletesNames(b)', NEW e \in entities', e.name \in request[b].names
             PROVE  Known1(b, e)
  BY <1>2, <1>3 DEF StillToDelete
<1>4. DeletesNames(b) /\ ~ overlapped /\ request[b].op = "deleteEntities" /\ ~ Idle(b) /\ ~ Deletion.spares
      /\ b \notin complained'  /\ patient' /\ stage'[b] # "idle" /\ Deletion.finds \in {"call", "listing"}
  BY <1>1, <1>2, <1>3, WaysToFind DEF DeletesNames, Idle
<1>5. PICK f \in entities : f.id = e.id /\ f.name = e.name
  <2>1. CASE CreateEntity(a) /\ e.name \in request[a].names
    <3>1. request[a].op = "createEntity"
      BY <1>2, <2>1 DEF CreateEntity, CatalogueIInv, NamesAsked
    <3> QED
      BY <1>2, <1>4, <2>1, <3>1 DEF CatalogueIInv, ApartInNames, Reassigns, NamesOf
  <2>2. kind # "tunnel"
    BY <1>1, <1>4, KindFacts
  <2> QED
    BY <2>1, <2>2, SameOrNew
<1>6. /\ f.name \in names[b] \/ (stage[b] \in {"deleteEntity", "pollDeletion"} /\ f.id \in found[b])
      /\ Deletion.finds = "listing" /\ stage[b] # "listAll" /\ f.name \in names[b] =>
           \E g \in seen[b] : g.id = f.id /\ g.name = f.name
  BY <1>1, <1>4, <1>5 DEF StillToDelete
<1>7. CASE b # a
  BY <1>2, <1>5, <1>6, <1>7
<1>8. CASE b = a
  <2>1. stage[a] \in {"listAll", "find", "deleteEntity", "pollDeletion", "dropRows"}
    BY <1>1, <1>2, <1>4, <1>8, CatalogueAssumption DEF StagesServe, CatalogueIInv, NamesAsked,
       CatalogueStage, Idle
  <2> USE DEF Proceed, Fail, Complain, GiveUp, Goto, NextName, EntityRefused, catalogueOwn
  <2>2. CASE ListAll(a)
    <3>1. seen'[a] = entities /\ names' = names /\ stage[a] = "listAll"
      BY <1>1, <1>4, <1>8, <2>2 DEF ListAll
    <3> QED
      BY <1>5, <1>6, <1>8, <3>1
  <2>3. CASE FindEntity(a)
    <3>1. PICK n \in names[a], m \in Known(a) :
            /\ {k \in Known(a) : k.name = n} = {m}
            /\ found'[a] = {m.id} /\ names'[a] = names[a] \ {n}
            /\ stage'[a] = AfterFind(a) /\ UNCHANGED seen
      BY <1>1, <1>4, <1>8, <2>3 DEF FindEntity
    <3>2. stage'[a] = "deleteEntity" /\ stage[a] = "find" /\ f.name \in names[a]
      BY <1>4, <1>6, <1>8, <2>3, <3>1 DEF AfterFind, FindEntity
    <3>3. CASE f.name # n
      BY <1>5, <1>6, <1>8, <3>1, <3>2, <3>3
    <3>4. CASE f.name = n
      <4>1. [id |-> f.id, name |-> f.name] \in Known(a)
        <5>1. CASE Deletion.finds = "call"
          BY <1>4, <1>8, <5>1 DEF Known, RowsOf
        <5>2. CASE Deletion.finds = "listing"
          <6>1. PICK g \in seen[a] : g.id = f.id /\ g.name = f.name
            BY <1>6, <1>8, <3>2, <5>2
          <6> QED
            BY <1>4, <1>8, <5>2, <6>1 DEF Known, RowsOf
        <5> QED
          BY <1>4, <5>1, <5>2
      <4>2. [id |-> f.id, name |-> f.name] = m
        BY <3>1, <3>4, <4>1
      <4>3. m.id = f.id
        BY <4>2
      <4> QED
        BY <1>5, <1>8, <3>1, <3>2, <3>4, <4>3
    <3> QED
      BY <3>3, <3>4
  <2>4. CASE DeleteEntity(a)
    <3>1. ~ Deletion.lax
      BY <1>1, <1>4, KindFacts
    <3>2. PICK d \in InHand(a) :
            /\ entities' = IF Deletion.task THEN entities ELSE entities \ {d}
            /\ stage'[a] = IF Deletion.task THEN "pollDeletion" ELSE NextName(a, gone'[a])
      BY <1>1, <1>4, <1>8, <2>4, <3>1, DeletionEffect
    <3>3. UNCHANGED <<names, found, seen>> /\ stage[a] = "deleteEntity"
      BY <2>4 DEF DeleteEntity
    <3>4. CASE Deletion.task
      BY <1>5, <1>6, <1>8, <3>2, <3>3, <3>4
    <3>5. CASE ~ Deletion.task
      <4>1. e \in entities /\ e # d /\ d \in entities /\ d.id \in found[a]
        BY <3>2, <3>5 DEF InHand
      <4>2. e.id \notin found[a]
        BY <1>1, <4>1 DEF EntitiesDiffer, Handed
      <4> QED
        BY <1>5, <1>6, <1>8, <3>3, <4>2
    <3> QED
      BY <3>4, <3>5
  <2>5. CASE PollDeletion(a)
    <3>1. ended[a] = "succeeded" /\ UNCHANGED <<names, found, seen, entities>> /\ stage[a] = "pollDeletion"
      BY <1>1, <1>4, <1>8, <2>5 DEF PollDeletion
    <3>2. f.id \notin found[a]
      BY <1>1, <3>1 DEF GoneForGood
    <3> QED
      BY <1>5, <1>6, <1>8, <3>1, <3>2
  <2>6. CASE DropRows(a)
    BY <1>1, <1>4, <1>8, <2>6 DEF DropRows
  <2> QED
    BY <2>1, <2>2, <2>3, <2>4, <2>5, <2>6 DEF CatalogueWork, Check, DeleteFirst, ProjectOf,
       CreateEntity, Patch, AddRow, Strip, PutEntity, UpdateRow, AfterPut, UsageOf
<1> QED
  BY <1>7, <1>8

LEMMA CatalogueAtWorkInit == CatalogueInit => CatalogueAtWork
<1> SUFFICES ASSUME CatalogueInit PROVE CatalogueAtWork
  OBVIOUS
<1>1. CatalogueIInv
  BY CatalogueInitOK
<1>2. /\ \A a \in Admin : Idle(a) /\ stage[a] = "idle" /\ found[a] = {} /\ gone[a] = {} /\ seen[a] = {}
      /\ deletions = {} /\ entityRows = IF Deletion.row = "never" THEN {} ELSE RowsOf(entities)
  BY DEF CatalogueInit, CatalogueStart, AdminsInit, Idle
<1>3. \A e \in entities : e.whole
  BY DEF CatalogueInit, CatalogueStart
<1>4. \A w \in entityRows : \E e \in entities : w = [id |-> e.id, name |-> e.name]
  BY <1>2 DEF RowsOf
<1>5. \A w \in entityRows : \E e \in entities : w.id = e.id /\ w.name = e.name
  BY <1>4
<1>6. StagesServe /\ FoundAsked /\ KindsDiffer /\ GoneForGood /\ RowIsDue /\ StillToDelete
  BY <1>2, <1>3 DEF StagesServe, FoundAsked, KindsDiffer, GoneForGood, RowIsDue, StillToDelete,
     DeletesNames
<1>7. Handed /\ NamesTrue
  BY <1>1, <1>2, <1>5 DEF Handed, NamesTrue, CatalogueIInv, EntitiesDiffer
<1> QED
  BY <1>6, <1>7 DEF CatalogueAtWork

(* A new command knows nothing yet, and may overlap.                        *)
LEMMA AtWorkBegins ==
    ASSUME CatalogueIInv, CatalogueAtWork, NEW a \in Admin, CatalogueBegin(a) PROVE CatalogueAtWork'
<1>1. PICK r \in CatalogueRequest :
        /\ r.op = "updateEntity" => kind \in DOMAIN Updates
        /\ Start(a, r, CASE r.op = "createEntity" ->
                               IF Creation.checks THEN "check" ELSE "createEntity"
                          [] r.op = "deleteEntities" /\ Deletion.finds = "listing" -> "listAll"
                          [] OTHER -> "find",
                 CatalogueClash)
        /\ names' = [names EXCEPT ![a] = r.names]
  BY DEF CatalogueBegin
<1>2. /\ seen' = [seen EXCEPT ![a] = {}]
      /\ found' = [found EXCEPT ![a] = {}]
      /\ gone' = [gone EXCEPT ![a] = {}]
      /\ UNCHANGED <<kind, entities, deletions, ended, entityRows, entityIds>>
  BY DEF CatalogueBegin
<1>3. /\ CatalogueTypeOK /\ stage \in [Admin -> CatalogueStage] /\ kind \in DOMAIN Kinds
      /\ request \in [Admin -> CatalogueRequest \cup {NoRequest}]
      /\ StagesServe /\ Handed /\ NamesTrue /\ FoundAsked /\ KindsDiffer
      /\ GoneForGood /\ RowIsDue /\ StillToDelete
  BY DEF CatalogueIInv, CatalogueStateOK, CatalogueTypeOK, AdminsTypeOK, CatalogueAtWork
<1>4. PICK s \in {"check", "createEntity", "listAll", "find"} :
        /\ stage' = [stage EXCEPT ![a] = s]
        /\ s = "listAll" => r.op = "deleteEntities"
        /\ s = "find" => r.op # "createEntity" /\ (r.op = "deleteEntities" => Deletion.finds # "listing")
        /\ s \in {"check", "createEntity"} => r.op = "createEntity"
  BY <1>1 DEF Start, Goto
<1>5. /\ Idle(a) /\ request' = [request EXCEPT ![a] = r]
      /\ complained' = complained \ {a} /\ UNCHANGED patient
      /\ overlapped' = (overlapped \/ \E b \in Admin \ {a} : ~ Idle(b) /\ CatalogueClash(r, request[b]))
  BY <1>1 DEF Start
<1>6. /\ Creation' = Creation /\ Deletion' = Deletion
      /\ stage'[a] = s /\ request'[a] = r /\ names'[a] = r.names
      /\ seen'[a] = {} /\ found'[a] = {} /\ gone'[a] = {}
      /\ \A b \in Admin \ {a} :
           UNCHANGED <<stage[b], request[b], names[b], seen[b], found[b], gone[b], ended[b]>>
  BY <1>1, <1>2, <1>3, <1>4, <1>5 DEF CatalogueTypeOK, Creation, Deletion
<1>7. ~ overlapped' => ~ overlapped
  BY <1>5
<1>8. StagesServe'
  BY <1>1, <1>2, <1>3, <1>4, <1>6 DEF StagesServe, Idle
<1>9. Handed'
  BY <1>2, <1>3, <1>6 DEF Handed
<1>10. NamesTrue'
  BY <1>2, <1>3, <1>6 DEF NamesTrue
<1>11. FoundAsked'
  BY <1>2, <1>3, <1>6, <1>7 DEF FoundAsked, NamesMeant, Idle
<1>12. KindsDiffer'
  BY <1>2, <1>3, <1>6 DEF KindsDiffer
<1>13. GoneForGood'
  <2>1. \A b \in Admin \ {a} : stage'[b] = "pollDeletion" /\ ended'[b] = "succeeded" =>
          \A e \in entities' : e.id \notin found'[b]
    BY <1>2, <1>3, <1>6 DEF GoneForGood
  <2>2. patient' => \A b \in Admin \ {a} : ~ Idle(b)' /\ b \notin complained' =>
          \A e \in entities' : e.id \in gone'[b] => stage'[b] = "pollDeletion" /\ e.id \in found'[b]
    BY <1>2, <1>3, <1>5, <1>6 DEF GoneForGood, Idle
  <2>3. ~ overlapped' /\ Deletion'.row # "last" => \A b \in Admin \ {a} : ~ Idle(b)' /\ b \notin complained' =>
          \A w \in entityRows' : w.id \notin gone'[b]
    BY <1>2, <1>3, <1>5, <1>6, <1>7 DEF GoneForGood, Idle
  <2> QED
    BY <1>4, <1>6, <2>1, <2>2, <2>3 DEF GoneForGood
<1>14. RowIsDue'
  <2> SUFFICES ASSUME ~ overlapped', NEW b \in Admin, stage'[b] = "addRow"
               PROVE  /\ InHand(b)' # {}
                      /\ \A t \in deletions' : t.id \notin found'[b]
                      /\ \A d \in Admin : ~ Idle(d)' => found'[b] \cap gone'[d] = {}
    BY DEF RowIsDue
  <2>1. b # a /\ stage[b] = "addRow" /\ found'[b] = found[b]
    BY <1>4, <1>6
  <2>2. InHand(b)' = InHand(b)
    BY <1>2, <2>1 DEF InHand
  <2>3. \A d \in Admin : ~ Idle(d)' => gone'[d] = {} \/ (gone'[d] = gone[d] /\ ~ Idle(d))
    BY <1>6 DEF Idle
  <2> QED
    BY <1>2, <1>3, <1>7, <2>1, <2>2, <2>3 DEF RowIsDue
<1>15. StillToDelete'
  <2> SUFFICES ASSUME NEW b \in Admin, DeletesNames(b)', NEW e \in entities', e.name \in request'[b].names
               PROVE  /\ \/ e.name \in names'[b]
                         \/ stage'[b] \in {"deleteEntity", "pollDeletion"} /\ e.id \in found'[b]
                      /\ Deletion.finds = "listing" /\ stage'[b] # "listAll" /\ e.name \in names'[b] =>
                           \E f \in seen'[b] : f.id = e.id /\ f.name = e.name
    BY <1>6 DEF StillToDelete
  <2>1. CASE b = a
    <3>1. r.op = "deleteEntities"
      BY <1>6, <2>1 DEF DeletesNames
    <3> QED
      BY <1>4, <1>6, <2>1, <3>1
  <2>2. CASE b # a
    <3>1. DeletesNames(b)
      BY <1>5, <1>6, <1>7, <2>2 DEF DeletesNames, Idle
    <3> QED
      BY <1>2, <1>3, <1>6, <2>2, <3>1 DEF StillToDelete
  <2> QED
    BY <2>1, <2>2
<1> QED
  BY <1>8, <1>9, <1>10, <1>11, <1>12, <1>13, <1>14, <1>15 DEF CatalogueAtWork

(* A task that succeeds takes away what its command still has in hand.      *)
LEMMA AtWorkTaskEnds ==
    ASSUME CatalogueIInv, CatalogueAtWork, DeletionEnds PROVE CatalogueAtWork'
<1>1. PICK t \in deletions, outcome \in {"succeeded", "failed"} :
        /\ deletions' = deletions \ {t}
        /\ entities' = IF outcome = "failed" THEN entities
                       ELSE {e \in entities : e.id # t.id}
        /\ ended' = IF t.id \in found[t.by] THEN [ended EXCEPT ![t.by] = outcome] ELSE ended
        /\ UNCHANGED <<kind, seen, names, found, gone, entityRows, entityIds, admins>>
  BY DEF DeletionEnds
<1>2. /\ UNCHANGED <<kind, seen, names, found, gone, entityRows, entityIds,
                     stage, request, complained, patient, overlapped>>
      /\ entities' \subseteq entities /\ deletions' \subseteq deletions
  BY <1>1 DEF admins
<1>3. /\ CatalogueTypeOK /\ ended \in [Admin -> {"none", "pending", "succeeded", "failed"}]
      /\ StagesServe /\ Handed /\ NamesTrue /\ FoundAsked /\ KindsDiffer
      /\ GoneForGood /\ RowIsDue /\ StillToDelete
  BY DEF CatalogueIInv, CatalogueStateOK, CatalogueTypeOK, CatalogueAtWork
<1>4. Creation' = Creation /\ Deletion' = Deletion
  BY <1>2 DEF Creation, Deletion
<1>5. StagesServe'
  BY <1>2, <1>3, <1>4 DEF StagesServe, Idle
<1>6. Handed' /\ NamesTrue' /\ FoundAsked' /\ KindsDiffer'
  BY <1>2, <1>3, <1>4 DEF Handed, NamesTrue, FoundAsked, NamesMeant, KindsDiffer, Idle
<1>7. GoneForGood'
  <2>1. ASSUME NEW a \in Admin, stage[a] = "pollDeletion", ended'[a] = "succeeded", NEW e \in entities'
        PROVE  e.id \notin found[a]
    <3>1. CASE ended[a] = "succeeded"
      BY <1>2, <1>3, <2>1, <3>1 DEF GoneForGood
    <3>2. CASE ended[a] # "succeeded"
      <4>1. t.id \in found[a] /\ outcome = "succeeded"
        BY <1>1, <1>3, <2>1, <3>2
      <4>2. found[a] = {t.id}
        BY <1>3, <4>1 DEF Handed
      <4> QED
        BY <1>1, <2>1, <4>1, <4>2
    <3> QED
      BY <3>1, <3>2
  <2> QED
    BY <1>2, <1>3, <1>4, <2>1 DEF GoneForGood, Idle
<1>8. RowIsDue'
  <2> SUFFICES ASSUME ~ overlapped, NEW a \in Admin, stage[a] = "addRow"
               PROVE  InHand(a)' # {}
    BY <1>2, <1>3 DEF RowIsDue, Idle
  <2>1. PICK e \in entities : e.id \in found[a]
    BY <1>3 DEF RowIsDue, InHand
  <2>2. found[a] = {e.id}
    BY <1>3, <2>1 DEF Handed
  <2>3. e.id # t.id
    BY <1>3, <2>2 DEF RowIsDue
  <2> QED
    BY <1>1, <2>1, <2>3 DEF InHand
<1>9. StillToDelete'
  BY <1>2, <1>3, <1>4 DEF StillToDelete, DeletesNames, Idle
<1> QED
  BY <1>5, <1>6, <1>7, <1>8, <1>9 DEF CatalogueAtWork

LEMMA CatalogueAtWorkStep ==
    CatalogueIInv /\ CatalogueAtWork /\ [CatalogueNext]_catalogueVars => CatalogueAtWork'
<1>1. ASSUME CatalogueIInv, CatalogueAtWork, NEW a \in Admin, CatalogueWork(a) PROVE CatalogueAtWork'
  BY <1>1, StagesKept, HandedKept, NamesKept, InHandKept, KindsKept, GoneKept, DueKept, StillKept DEF
     CatalogueAtWork
<1>2. ASSUME CatalogueAtWork, UNCHANGED catalogueVars PROVE CatalogueAtWork'
  <2>1. StagesServe' /\ Handed' /\ NamesTrue' /\ FoundAsked' /\ KindsDiffer'
    BY <1>2 DEF CatalogueAtWork, catalogueVars, catalogueOwn, admins, StagesServe, Handed,
       NamesTrue, FoundAsked, NamesMeant, KindsDiffer, Idle, Creation, Deletion
  <2>2. GoneForGood' /\ RowIsDue' /\ StillToDelete'
    BY <1>2 DEF CatalogueAtWork, catalogueVars, catalogueOwn, admins, GoneForGood, RowIsDue,
       StillToDelete, DeletesNames, InHand, Idle, Creation, Deletion
  <2> QED
    BY <2>1, <2>2 DEF CatalogueAtWork
<1> QED
  BY <1>1, <1>2, AtWorkBegins, AtWorkTaskEnds DEF CatalogueNext, CatalogueFinished

(* The step in which a command on the catalogue ends.                       *)
CatalogueEnds ==
    \A a \in Admin : EndsSilently(a) /\ ~ overlapped' /\ patient' =>
         LET r == request[a]
             named == {e \in entities' : e.name \in r.names}
         IN  CASE r.op = "createEntity" ->
                     \E e \in named : e.whole /\ (Creation.row => RowsOf({e}) \subseteq entityRows')
               [] r.op = "updateEntity" ->
                     \E e \in entities' :
                         /\ e.whole /\ e.name \in (IF r.rename = {} THEN r.names ELSE r.rename)
                         /\ kind = "tunnel" => \A w \in entityRows' : w.id = e.id => w.name = e.name
               [] r.op = "deleteEntities" ->
                     /\ Deletion.spares \/ Deletion.finds = "row" \/ named = {}
                     /\ \A e \in entities' \cup entityRows' : e.id \notin gone'[a]
               [] OTHER -> TRUE

(* The last step of a creation or an update leaves a whole entity.          *)
LEMMA MadeRight ==
    ASSUME CatalogueIInv, CatalogueAtWork, NEW a \in Admin, CatalogueWork(a),
           stage'[a] = "idle", a \notin complained', ~ overlapped, request[a].op # "deleteEntities"
    PROVE  \E e \in entities' :
             /\ e.name \in (IF request[a].op = "updateEntity" /\ request[a].rename # {}
                              THEN request[a].rename ELSE request[a].names)
             /\ e.whole
             /\ request[a].op = "createEntity" /\ Creation.row => RowsOf({e}) \subseteq entityRows'
             /\ request[a].op = "updateEntity" /\ kind = "tunnel" =>
                  \A w \in entityRows' : w.id = e.id => w.name = e.name
<1>1. /\ CatalogueStateOK /\ CatalogueTypeOK /\ Handed /\ RowIsDue /\ StagesServe /\ FoundAsked /\ KindsDiffer
      /\ stage \in [Admin -> CatalogueStage] /\ kind \in DOMAIN Kinds /\ entities \subseteq Entity
  BY DEF CatalogueIInv, CatalogueStateOK, CatalogueTypeOK, AdminsTypeOK, CatalogueAtWork
<1>2. /\ ~ Idle(a) /\ request[a] \in CatalogueRequest /\ names[a] \subseteq request[a].names
      /\ request[a].rename # {} => kind = "tunnel" /\ request[a].op = "updateEntity"
  BY CatalogueWorkFrame, CatalogueAssumption DEF CatalogueIInv, NamesAsked
<1> USE DEF Proceed, Fail, Complain, GiveUp, Goto, EntityRefused
<1>3. CreateEntity(a) \/ Patch(a) \/ AddRow(a) \/ PutEntity(a) \/ UpdateRow(a)
  <2>1. stage[a] \notin {"listAll", "usageOf", "deleteEntity", "pollDeletion", "dropRows"}
    BY <1>1, <1>2 DEF StagesServe
  <2> QED
    BY <1>1, <2>1 DEF CatalogueWork, Check, DeleteFirst, ProjectOf, AfterCheck, ListAll,
       FindEntity, AfterFind, Strip, UsageOf, DeleteEntity, PollDeletion, DropRows
<1>4. CASE CreateEntity(a)
  <2>1. PICK new \in Entity : Created(a, new)
    BY <1>1, <1>4, CreationEffect DEF CreateEntity
  <2>2. ~ Creation.patched /\ ~ Creation.row
    BY <1>1, <1>4 DEF CreateEntity, AfterCreate
  <2>3. request[a].op = "createEntity"
    BY <1>2, <1>4 DEF CreateEntity, CatalogueIInv, NamesAsked
  <2> QED
    BY <1>2, <2>1, <2>2, <2>3 DEF Created
<1>5. CASE Patch(a)
  <2>1. PICK e \in InHand(a) : entities' = (entities \ {e}) \cup {[e EXCEPT !.whole = TRUE]}
    BY <1>5 DEF Patch
  <2>2. ~ Creation.row /\ kind # "tunnel" /\ stage[a] = "patch"
    BY <1>1, <1>2, <1>5, KindFacts DEF Patch, StagesServe
  <2>3. e \in entities /\ e \in Entity /\ e.name \in request[a].names
    BY <1>1, <1>2, <2>1, <2>2 DEF InHand, FoundAsked, NamesMeant
  <2>4. [e EXCEPT !.whole = TRUE].name = e.name /\ [e EXCEPT !.whole = TRUE].whole
    BY <2>3 DEF Entity
  <2> QED
    BY <1>2, <2>1, <2>2, <2>3, <2>4
<1>6. CASE AddRow(a)
  <2>1. request[a].op = "createEntity" /\ stage[a] = "addRow" /\ UNCHANGED entities
    BY <1>1, <1>2, <1>6 DEF AddRow, StagesServe
  <2>2. PICK e \in entities : e.id \in found[a]
    BY <1>1, <2>1 DEF RowIsDue, InHand
  <2>3. \A i \in found[a] : i = e.id
    BY <1>1, <2>2 DEF Handed
  <2>4. e.name \in request[a].names
    BY <1>1, <1>2, <2>1, <2>2 DEF FoundAsked, NamesMeant
  <2>5. \A n \in request[a].names : n = e.name
    BY <1>2, <2>1, <2>4, CatalogueAssumption
  <2>6. e.whole
    BY <1>1, <1>2, <2>1, KindFacts DEF StagesServe, KindsDiffer
  <2>7. RowsOf({e}) = {[id |-> e.id, name |-> e.name]}
    BY DEF RowsOf
  <2>8. ASSUME NEW v \in [id : found[a], name : names[a]] \cup RowsOf(InHand(a))
        PROVE  v = [id |-> e.id, name |-> e.name]
    <3>1. CASE v \in [id : found[a], name : names[a]]
      <4>1. v.id = e.id /\ v.name = e.name
        BY <1>2, <2>3, <2>5, <3>1
      <4> QED
        BY <3>1, <4>1
    <3>2. CASE v \in RowsOf(InHand(a))
      <4>1. PICK f \in entities : f.id \in found[a] /\ v = [id |-> f.id, name |-> f.name]
        BY <3>2 DEF RowsOf, InHand
      <4>2. f.id = e.id
        BY <2>3, <4>1
      <4> QED
        BY <2>2, <4>1, <4>2 DEF CatalogueIInv, EntitiesDiffer
    <3> QED
      BY <2>8, <3>1, <3>2
  <2>9. [id |-> e.id, name |-> e.name] \in entityRows'
    BY <1>6, <2>8 DEF AddRow
  <2> QED
    BY <1>2, <2>1, <2>2, <2>4, <2>6, <2>7, <2>9
<1>7. CASE PutEntity(a)
  <2>1. stage[a] = "putEntity" /\ AfterPut = "idle" /\ kind # "tunnel"
    BY <1>7, PutEffect DEF PutEntity, AfterPut
  <2>2. /\ ~ Creation.patched /\ request[a].op = "updateEntity" /\ request[a].rename = {}
    BY <1>1, <1>2, <2>1 DEF StagesServe
  <2>3. PICK e \in InHand(a) : entities' = (entities \ {e}) \cup {e}
    BY <1>7, <2>1, PutEffect
  <2> QED
    BY <1>1, <1>2, <2>1, <2>2, <2>3 DEF InHand, FoundAsked, NamesMeant, KindsDiffer
<1>8. CASE UpdateRow(a)
  <2>1. /\ stage[a] = "updateRow" /\ UNCHANGED entities
        /\ entityRows' = {w \in entityRows : w.id \notin found[a]}
                            \cup {r \in RowsOf(InHand(a)) : r.id \in {w.id : w \in entityRows}}
    BY <1>8 DEF UpdateRow
  <2>2. PICK e \in entities : e.id \in found[a]
    BY <1>8 DEF UpdateRow, InHand
  <2>3. ~ Creation.patched /\ request[a].op = "updateEntity"
    BY <1>1, <1>2, <2>1, KindFacts DEF StagesServe
  <2>4. e.name \in NamesMeant(a) /\ e.whole
    BY <1>1, <1>2, <2>2, <2>3 DEF FoundAsked, KindsDiffer
  <2>5. ASSUME NEW w \in entityRows', w.id = e.id PROVE w.name = e.name
    <3>1. w \in RowsOf(InHand(a))
      BY <2>1, <2>2, <2>5
    <3>2. PICK f \in entities : w = [id |-> f.id, name |-> f.name]
      BY <3>1 DEF RowsOf, InHand
    <3> QED
      BY <2>2, <2>5, <3>2 DEF CatalogueIInv, EntitiesDiffer
  <2> QED
    BY <2>1, <2>2, <2>3, <2>4, <2>5 DEF NamesMeant
<1> QED
  BY <1>3, <1>4, <1>5, <1>6, <1>7, <1>8

(* The last step of a deletion has looked for every name, and found again   *)
(* nothing of what was deleted.                                            *)
LEMMA DeletedRight ==
    ASSUME CatalogueIInv, CatalogueAtWork, NEW a \in Admin, CatalogueWork(a),
           stage'[a] = "idle", a \notin complained', ~ overlapped, patient', request[a].op = "deleteEntities"
    PROVE  /\ Deletion.spares \/ Deletion.finds = "row" \/ \A e \in entities' : e.name \notin request[a].names
           /\ \A e \in entities' \cup entityRows' : e.id \notin gone'[a]
<1>1. /\ CatalogueStateOK /\ CatalogueTypeOK /\ Handed /\ StillToDelete /\ StagesServe /\ GoneForGood
      /\ EntitiesDiffer /\ NamesTrue /\ KindsDiffer
      /\ stage \in [Admin -> CatalogueStage] /\ kind \in DOMAIN Kinds
      /\ gone \in [Admin -> SUBSET Nat]
  BY DEF CatalogueIInv, CatalogueStateOK, CatalogueTypeOK, AdminsTypeOK, CatalogueAtWork
<1>2. /\ ~ Idle(a) /\ request[a] \in CatalogueRequest /\ patient /\ a \notin complained
      /\ UNCHANGED kind
  BY <1>1, CatalogueWorkOthers DEF CatalogueIInv, NamesAsked
<1>3. \A e \in entities' : \E f \in entities : f.id = e.id
  <2>1. ~ CreateEntity(a)
    BY <1>2 DEF CreateEntity, CatalogueIInv, NamesAsked
  <2> QED
    BY <2>1, SameOrNew
<1> USE DEF Proceed, Fail, Complain, GiveUp, Goto, EntityRefused, NextName
<1>4. UsageOf(a) \/ DeleteEntity(a) \/ PollDeletion(a) \/ DropRows(a)
  <2>1. stage[a] \notin {"check", "deleteFirst", "projectOf", "createEntity", "addRow", "putEntity",
                         "strip", "updateRow"}
    BY <1>1, <1>2 DEF StagesServe, CatalogueIInv, NamesAsked
  <2>2. ~ Patch(a)
    BY <1>1, <1>2 DEF StagesServe, Patch
  <2> QED
    BY <1>1, <1>2, <2>1, <2>2 DEF CatalogueWork, Check, DeleteFirst, ProjectOf, CreateEntity,
       AddRow, ListAll, FindEntity, AfterFind, Strip, PutEntity, UpdateRow
<1>5. CASE UsageOf(a)
  <2>1. UNCHANGED <<entities, entityRows, gone>> /\ Deletion.spares /\ stage[a] = "usageOf"
    BY <1>1, <1>2, <1>5 DEF UsageOf, StagesServe, catalogueOwn
  <2>2. Deletion.row = "last" => gone[a] = {}
    BY <1>1, <1>5 DEF UsageOf
  <2>3. \A e \in entities : e.id \notin gone[a]
    BY <1>1, <1>2, <2>1 DEF GoneForGood
  <2>4. \A w \in entityRows : w.id \notin gone[a]
    BY <1>1, <1>2, <2>2 DEF GoneForGood
  <2> QED
    BY <2>1, <2>3, <2>4
<1>6. CASE DropRows(a)
  <2>1. entityRows' = {w \in entityRows : w.id \notin gone[a]} /\ UNCHANGED <<entities, gone>>
        /\ stage[a] = "dropRows" /\ names[a] = {}
    BY <1>1, <1>2, <1>6 DEF DropRows, StagesServe
  <2>2. \A e \in entities : e.id \notin gone[a]
    BY <1>1, <1>2, <2>1 DEF GoneForGood
  <2>3. Deletion.spares \/ Deletion.finds = "row" \/ \A e \in entities' : e.name \notin request[a].names
    BY <1>1, <1>2, <2>1 DEF StillToDelete, DeletesNames
  <2> QED
    BY <2>1, <2>2, <2>3
<1>7. CASE PollDeletion(a)
  <2>1. UNCHANGED <<entities, entityRows, gone>> /\ stage[a] = "pollDeletion" /\ ended[a] = "succeeded"
        /\ names[a] = {} /\ (Deletion.row = "last" => gone[a] = {})
    BY <1>1, <1>7 DEF PollDeletion, catalogueOwn
  <2>2. \A e \in entities : e.id \notin found[a]
    BY <1>1, <2>1 DEF GoneForGood
  <2>3. \A e \in entities : e.id \notin gone[a]
    BY <1>1, <1>2, <2>2 DEF GoneForGood
  <2>4. Deletion.row = "last"
    BY <1>1, <1>2, <2>1, KindFacts DEF StagesServe
  <2>5. Deletion.spares \/ Deletion.finds = "row" \/ \A e \in entities' : e.name \notin request[a].names
    BY <1>1, <1>2, <2>1, <2>2 DEF StillToDelete, DeletesNames
  <2> QED
    BY <2>1, <2>3, <2>4, <2>5
<1>8. CASE DeleteEntity(a)
  <2>0. stage[a] = "deleteEntity"
    BY <1>8 DEF DeleteEntity
  <2>1. \A e \in entities : e.id \notin gone[a]
    BY <1>1, <1>2, <2>0 DEF GoneForGood
  <2>2. ~ DeletionFails(a)
    <3>1. ASSUME DeletionFails(a) PROVE a \in complained'
      BY <3>1 DEF DeletionFails
    <3> QED
      BY <3>1
  <2>3. PICK d \in InHand(a) :
          /\ entities' = IF Deletion.task THEN entities ELSE entities \ {d}
          /\ gone' = [gone EXCEPT ![a] = @ \cup {d.id}]
          /\ Proceed(a, IF Deletion.task THEN "pollDeletion" ELSE NextName(a, gone'[a]))
          /\ entityRows' = IF Deletion.row = "each" THEN entityRows \ RowsOf({d}) ELSE entityRows
    BY <1>8, <2>2 DEF DeleteEntity
  <2>4. gone'[a] = gone[a] \cup {d.id}
    BY <1>1, <2>3
  <2>5. ~ Deletion.task /\ names[a] = {} /\ Deletion.row # "last"
    BY <1>1, <2>3, <2>4
  <2>6. d \in entities /\ d.id \in found[a] /\ entities' = entities \ {d}
    BY <2>3, <2>5 DEF InHand
  <2>7. \A e \in entities' : e.id \notin gone'[a] /\ e.id \notin found[a]
    BY <1>1, <2>1, <2>4, <2>6 DEF EntitiesDiffer, Handed
  <2>8. \A w \in entityRows' : w.id \notin gone'[a]
    <3>1. \A w \in entityRows : w.id \notin gone[a]
      BY <1>1, <1>2, <2>5 DEF GoneForGood
    <3>2. CASE Deletion.row = "never"
      <4>1. entityRows = {}
        BY <1>1, <3>2 DEF KindsDiffer
      <4> QED
        BY <2>3, <3>2, <4>1
    <3>3. CASE Deletion.row = "each"
      <4>1. ASSUME NEW w \in entityRows' PROVE w.id # d.id
        <5>1. w \in entityRows /\ w \notin RowsOf({d}) /\ [id |-> d.id, name |-> d.name] \in RowsOf({d})
          BY <2>3, <3>3, <4>1 DEF RowsOf
        <5>2. w \in [id : Nat, name : Name]
          BY <1>1, <5>1 DEF CatalogueTypeOK
        <5> QED
          BY <1>1, <2>6, <3>3, <5>1, <5>2, KindFacts DEF NamesTrue
      <4>2. entityRows' \subseteq entityRows
        BY <2>3, <3>3
      <4> QED
        BY <2>4, <3>1, <4>1, <4>2
    <3> QED
      BY <1>1, <2>5, <3>2, <3>3, KindFacts
  <2>9. Deletion.spares \/ Deletion.finds = "row" \/ \A e \in entities' : e.name \notin request[a].names
    BY <1>1, <1>2, <2>0, <2>5, <2>6, <2>7 DEF StillToDelete, DeletesNames
  <2> QED
    BY <2>7, <2>8, <2>9
<1> QED
  BY <1>4, <1>5, <1>6, <1>7, <1>8

LEMMA CatalogueEndsRight == CatalogueIInv /\ CatalogueAtWork /\ [CatalogueNext]_catalogueVars => CatalogueEnds
<1> SUFFICES ASSUME CatalogueIInv, CatalogueAtWork, [CatalogueNext]_catalogueVars,
                    NEW a \in Admin, EndsSilently(a), ~ overlapped', patient'
             PROVE  /\ request[a].op = "createEntity" =>
                         \E e \in entities' : /\ e.name \in request[a].names /\ e.whole
                                              /\ Creation.row => RowsOf({e}) \subseteq entityRows'
                    /\ request[a].op = "updateEntity" =>
                         \E e \in entities' :
                             /\ e.whole
                             /\ e.name \in (IF request[a].rename = {} THEN request[a].names
                                              ELSE request[a].rename)
                             /\ kind = "tunnel" => \A w \in entityRows' : w.id = e.id => w.name = e.name
                    /\ request[a].op = "deleteEntities" =>
                         /\ Deletion.spares \/ Deletion.finds = "row"
                            \/ \A e \in entities' : e.name \notin request[a].names
                         /\ \A e \in entities' \cup entityRows' : e.id \notin gone'[a]
  BY DEF CatalogueEnds
<1>1. ~ Idle(a) /\ stage'[a] = "idle" /\ a \notin complained'
  BY DEF EndsSilently
<1>2. CatalogueStateOK /\ stage \in [Admin -> CatalogueStage]
  BY DEF CatalogueIInv, CatalogueStateOK, AdminsTypeOK
<1>3. CatalogueWork(a)
  <2>1. CASE UNCHANGED stage
    BY <1>1, <2>1 DEF Idle
  <2>2. ASSUME NEW b \in Admin, CatalogueBegin(b) PROVE FALSE
    <3>1. Idle(b) /\ stage'[a] = IF a = b THEN stage'[b] ELSE stage[a]
      BY <1>2, <2>2 DEF CatalogueBegin, Start, Goto
    <3>2. stage'[b] \in {"check", "createEntity", "listAll", "find"}
      BY <1>2, <2>2 DEF CatalogueBegin, Start, Goto
    <3> QED
      BY <1>1, <3>1, <3>2 DEF Idle
  <2>3. ASSUME NEW b \in Admin \ {a}, CatalogueWork(b) PROVE FALSE
    BY <1>1, <1>2, <2>3, CatalogueWorkFrame DEF Idle
  <2>4. DeletionEnds \/ UNCHANGED catalogueVars => UNCHANGED stage
    BY DEF DeletionEnds, catalogueVars, admins
  <2> QED
    BY <2>1, <2>2, <2>3, <2>4 DEF CatalogueNext, CatalogueFinished
<1>4. ~ overlapped
  BY <1>2, <1>3, CatalogueWorkFrame
<1> QED
  BY <1>1, <1>3, <1>4, MadeRight, DeletedRight

-----------------------------------------------------------------------------
(* Accounts.                                                               *)

AccountStateOK == AdminsTypeOK(AccountStage, AccountRequest) /\ AccountsTypeOK

(* While no two commands have overlapped, one at most is at work.          *)
OneAtWork == ~ overlapped => \A a, b \in Admin : ~ Idle(a) /\ ~ Idle(b) => a = b

(* What a command relies on at each of its steps: from the creation of the  *)
(* provider to that of the account there is a provider, and once it is to   *)
(* be deleted there is no account.                                         *)
ProviderKept ==
    nature = "credential" /\ ~ unheeded /\ ~ overlapped =>
        /\ Of("account") # {} => Of("provider") # {}
        /\ \A a \in Admin :
             /\ stage[a] \in {"makeType", "checkAccount", "deleteOld", "makeAccount"}
                  => Of("provider") # {}
             /\ stage[a] = "dropProvider" => Of("account") = {}

(* A command at work has been asked for something.                         *)
Asked == \A a \in Admin : ~ Idle(a) => request[a] \in AccountRequest

AccountIInv == AccountStateOK /\ Asked /\ OneAtWork /\ ProviderKept

LEMMA AccountInit == AccountsInit => AccountIInv
<1> SUFFICES ASSUME AccountsInit PROVE AccountIInv
  OBVIOUS
<1> USE DEF AccountsInit, AdminsInit, AccountsStart
<1>1. AdminsTypeOK(AccountStage, AccountRequest)
  BY DEF AdminsTypeOK, AccountStage
<1>2. AccountsTypeOK
  <2>1. parts \subseteq PartType /\ \A p, q \in parts : p.part = q.part => p = q
    BY DEF PartType, PartsOf, Part
  <2>2. accountRows \subseteq Nat /\ accountIds \in Nat
    BY <2>1 DEF Of, PartType
  <2> QED
    BY <2>1, <2>2 DEF AccountsTypeOK, AccountNature
<1>3. OneAtWork
  BY DEF OneAtWork, Idle
<1>4. ProviderKept
  <2>1. ASSUME nature = "credential", Of("account") # {} PROVE Of("provider") # {}
    <3>1. PICK e \in Edition : parts = {[part |-> p, id |-> 1, edition |-> e] : p \in PartsOf}
      BY <2>1 DEF Of
    <3>2. [part |-> "provider", id |-> 1, edition |-> e] \in parts
      BY <2>1, <3>1 DEF PartsOf, Part
    <3> QED
      BY <3>2 DEF Of
  <2> QED
    BY <2>1 DEF ProviderKept
<1> QED
  BY <1>1, <1>2, <1>3, <1>4 DEF AccountIInv, AccountStateOK, Asked, Idle

(* A new command overlaps with whatever is at work.                        *)
LEMMA AccountBeginKeeps ==
    ASSUME AccountIInv, NEW a \in Admin, AccountBegin(a) PROVE AccountIInv'
<1> USE DEF AccountIInv, AccountStateOK
<1>1. PICK r \in AccountRequest :
        Start(a, r, IF r.op # "createAccount" THEN "getAccount"
                    ELSE IF nature = "credential" THEN "makeProvider" ELSE "checkAccount", AccountClash)
  BY DEF AccountBegin
<1>2. PICK s \in {"getAccount", "makeProvider", "checkAccount"} :
        stage' = [stage EXCEPT ![a] = s] /\ (s = "checkAccount" => nature # "credential")
  BY <1>1 DEF Start, Goto
<1>3. /\ stage[a] = "idle"
      /\ request' = [request EXCEPT ![a] = r]
      /\ started' = started + 1 /\ complained' = complained \ {a} /\ UNCHANGED patient
      /\ overlapped' = (overlapped \/ \E b \in Admin \ {a} : ~ Idle(b))
  BY <1>1 DEF Start, AccountClash, Idle
<1>4. accountInHand' = [accountInHand EXCEPT ![a] = {}]
      /\ UNCHANGED <<nature, parts, accountRows, accountIds, unheeded>>
  BY DEF AccountBegin
<1>5. AdminsTypeOK(AccountStage, AccountRequest)'
  BY <1>2, <1>3 DEF AdminsTypeOK, AccountStage
<1>6. AccountsTypeOK'
  BY <1>4 DEF AccountsTypeOK
<1>7. OneAtWork'
  BY <1>2, <1>3 DEF OneAtWork, Idle, AdminsTypeOK
<1>8. ProviderKept'
  BY <1>2, <1>3, <1>4 DEF ProviderKept, Of, AdminsTypeOK
<1>9. Asked'
  BY <1>2, <1>3 DEF Asked, Idle, AdminsTypeOK
<1> QED
  BY <1>5, <1>6, <1>7, <1>8, <1>9

(* A step of a command at work leaves the requests alone, and is its own.   *)
LEMMA AccountWorkFrame ==
    ASSUME AdminsTypeOK(AccountStage, AccountRequest), NEW a \in Admin, AccountWork(a)
    PROVE  /\ AdminsTypeOK(AccountStage, AccountRequest)'
           /\ ~ Idle(a)
           /\ \A b \in Admin \ {a} : stage'[b] = stage[b]
           /\ UNCHANGED <<request, overlapped, nature>>
<1> DEFINE Frame ==
        /\ stage[a] # "idle"
        /\ \E s \in AccountStage : stage' = [stage EXCEPT ![a] = s]
        /\ complained' \in SUBSET (complained \cup {a})
        /\ UNCHANGED <<request, started, patient, overlapped, nature>>
<1> SUFFICES Frame
  BY DEF AdminsTypeOK, Idle
<1> USE DEF Proceed, Fail, Complain, Goto, AccountStage, AccountRefused, accountOwn
<1>1. CASE MakeProvider(a) \/ MakeType(a) \/ CheckAccount(a)
  BY <1>1 DEF MakeProvider, MakeType, CheckAccount
<1>2. CASE DeleteOld(a) \/ MakeAccount(a) \/ ListAccount(a)
  BY <1>2 DEF DeleteOld, MakeAccount, ListAccount, Relist, ReadAnew
<1>3. CASE GetAccount(a) \/ GetProvider(a) \/ PutAccount(a) \/ RefreshAccount(a)
  BY <1>3 DEF GetAccount, FirstDropped, GetProvider, PutAccount, RefreshAccount, Relist, ReadAnew
<1>4. CASE PutProvider(a) \/ PutType(a)
  BY <1>4 DEF PutProvider, PutType, PutUnheeded
<1>5. CASE DropType(a) \/ DropAccount(a) \/ DropProvider(a) \/ UnlistAccount(a)
  BY <1>5 DEF DropType, DropAccount, DropProvider, Drop, UnlistAccount, ReadAnew
<1> QED
  BY <1>1, <1>2, <1>3, <1>4, <1>5 DEF AccountWork

(* What a command does to the entities: it makes, changes or deletes one    *)
(* part and leaves the others alone.                                       *)
PartsOK(ps) == ps \subseteq PartType /\ \A p, q \in ps : p.part = q.part => p = q

LEMMA MakeIsOf ==
    ASSUME AccountStateOK, Asked, NEW a \in Admin, ~ Idle(a), NEW part \in Part, Make(a, part)
    PROVE  /\ PartsOK(parts') /\ accountIds' \in Nat
           /\ Of(part)' # {}
           /\ \A other \in Part \ {part} : Of(other)' = Of(other)
<1> DEFINE new == [part |-> part, id |-> accountIds + 1, edition |-> request[a].edition]
<1>1. new \in PartType /\ accountIds' \in Nat
  BY AccountsAssumption DEF Asked, PartType, Make, AccountStateOK, AccountsTypeOK
<1>2. parts' = parts \cup {new} /\ new.part = part
  BY DEF Make
<1> HIDE DEF new
<1> QED
  BY <1>1, <1>2 DEF Make, Of, PartsOK, AccountStateOK, AccountsTypeOK

LEMMA PutIsOf ==
    ASSUME AccountStateOK, Asked, NEW a \in Admin, ~ Idle(a), NEW part \in Part, PutPart(a, part)
    PROVE  /\ PartsOK(parts')
           /\ \A any \in Part : Of(any)' = {} <=> Of(any) = {}
<1> DEFINE f(p) == IF p.part = part THEN [p EXCEPT !.edition = request[a].edition] ELSE p
<1>1. \A p \in parts : f(p) \in PartType /\ f(p).part = p.part
  BY AccountsAssumption DEF Asked, PartType, AccountStateOK, AccountsTypeOK
<1>2. parts' = {f(p) : p \in parts}
  BY DEF PutPart
<1> HIDE DEF f
<1> QED
  BY <1>1, <1>2 DEF Of, PartsOK, AccountStateOK, AccountsTypeOK

LEMMA DropIsOf ==
    ASSUME AccountStateOK, NEW part \in Part, DropPart(part)
    PROVE  /\ PartsOK(parts')
           /\ Of(part)' = {}
           /\ \A other \in Part \ {part} : Of(other)' = Of(other)
BY DEF DropPart, Of, PartsOK, AccountStateOK, AccountsTypeOK

(* The types of what a step changes.                                       *)
LEMMA AccountWorkTypes ==
    ASSUME AccountIInv, NEW a \in Admin, AccountWork(a) PROVE AccountsTypeOK'
<1>1. ~ Idle(a) /\ UNCHANGED nature
  BY AccountWorkFrame DEF AccountIInv, AccountStateOK
<1>2. AccountStateOK /\ Asked
  BY DEF AccountIInv
<1> USE DEF AccountRefused, accountOwn, Part
<1>3. PartsOK(parts') /\ accountIds' \in Nat
  <2>1. CASE UNCHANGED <<parts, accountIds>>
    BY <1>2, <2>1 DEF PartsOK, AccountStateOK, AccountsTypeOK
  <2>2. CASE \E part \in Part : Make(a, part)
    BY <1>1, <1>2, <2>2, MakeIsOf
  <2>3. CASE UNCHANGED accountIds /\ \E part \in Part : PutPart(a, part)
    BY <1>1, <1>2, <2>3, PutIsOf DEF AccountStateOK, AccountsTypeOK
  <2>4. CASE UNCHANGED accountIds /\ \E part \in Part : DropPart(part)
    BY <1>2, <2>4, DropIsOf DEF AccountStateOK, AccountsTypeOK
  <2>5. CASE MakeProvider(a) \/ MakeType(a) \/ MakeAccount(a)
    BY <2>1, <2>2, <2>5 DEF MakeProvider, MakeType, MakeAccount
  <2>6. CASE CheckAccount(a) \/ ListAccount(a) \/ GetAccount(a) \/ GetProvider(a)
             \/ RefreshAccount(a) \/ UnlistAccount(a)
    BY <2>1, <2>6 DEF CheckAccount, ListAccount, GetAccount, GetProvider, RefreshAccount,
       UnlistAccount
  <2>7. CASE PutProvider(a) \/ PutType(a) \/ PutAccount(a)
    BY <2>1, <2>3, <2>7 DEF PutProvider, PutType, PutUnheeded, PutAccount
  <2>8. CASE DeleteOld(a) \/ DropType(a) \/ DropAccount(a) \/ DropProvider(a)
    BY <1>2, <2>1, <2>4, <2>8 DEF DeleteOld, DropType, DropAccount, DropProvider, Drop, DropPart
  <2> QED
    BY <2>5, <2>6, <2>7, <2>8 DEF AccountWork
<1>4. accountInHand' \in [Admin -> SUBSET Nat] /\ accountRows' \subseteq Nat /\ unheeded' \in BOOLEAN
  <2> USE <1>2 DEF AccountStateOK, AccountsTypeOK
  <2>0. \A part \in Part : \A p \in Of(part) : p.id \in Nat
    BY DEF Of, PartType
  <2>1. CASE MakeProvider(a) \/ MakeType(a) \/ PutProvider(a) \/ PutType(a) \/ PutAccount(a)
             \/ DeleteOld(a) \/ DropType(a) \/ DropAccount(a) \/ DropProvider(a) \/ GetProvider(a)
    BY <2>1 DEF MakeProvider, MakeType, PutProvider, PutType, PutAccount, PutUnheeded,
                DeleteOld, DropType, DropAccount, DropProvider, Drop, GetProvider
  <2>2. CASE CheckAccount(a)
    <3>1. /\ \/ UNCHANGED accountOwn
             \/ accountInHand' = [accountInHand EXCEPT ![a] = {p.id : p \in Of("account")}]
          /\ UNCHANGED <<accountRows, unheeded>>
      BY <2>2 DEF CheckAccount, AccountRefused, accountOwn
    <3>2. {p.id : p \in Of("account")} \in SUBSET Nat
      BY <2>0 DEF Part
    <3> QED
      BY <3>1, <3>2 DEF accountOwn
  <2>3. CASE GetAccount(a)
    BY <2>0, <2>3 DEF GetAccount
  <2>4. CASE MakeAccount(a)
    BY <1>3, <2>4 DEF MakeAccount
  <2>5. CASE ListAccount(a) \/ RefreshAccount(a) \/ UnlistAccount(a)
    BY <2>0, <2>5 DEF ListAccount, RefreshAccount, UnlistAccount, Relist, ReadAnew
  <2> QED
    BY <2>1, <2>2, <2>3, <2>4, <2>5 DEF AccountWork
<1> QED
  BY <1>1, <1>2, <1>3, <1>4 DEF AccountsTypeOK, AccountStateOK, PartsOK

(* A step of the only command at work keeps the account with its provider. *)
LEMMA AccountWorkProvider ==
    ASSUME AccountIInv, NEW a \in Admin, AccountWork(a) PROVE ProviderKept'
<1>1. /\ ~ Idle(a) /\ UNCHANGED <<nature, overlapped>>
      /\ \A b \in Admin \ {a} : stage'[b] = stage[b]
  BY AccountWorkFrame DEF AccountIInv, AccountStateOK
<1>2. AccountStateOK /\ Asked
  BY DEF AccountIInv
<1> SUFFICES ASSUME nature = "credential", ~ unheeded', ~ overlapped'
             PROVE  /\ Of("account")' # {} => Of("provider")' # {}
                    /\ stage'[a] \in {"makeType", "checkAccount", "deleteOld", "makeAccount"}
                         => Of("provider")' # {}
                    /\ stage'[a] = "dropProvider" => Of("account")' = {}
  <2>1. ~ overlapped' => \A b \in Admin \ {a} : stage'[b] = "idle"
    BY <1>1 DEF AccountIInv, OneAtWork, Idle
  <2> QED
    BY <1>1, <2>1 DEF ProviderKept
<1>3. ~ unheeded
  BY DEF AccountWork, AccountRefused, accountOwn, MakeProvider, MakeType, CheckAccount, DeleteOld,
         MakeAccount, ListAccount, GetAccount, PutProvider, PutType, PutUnheeded, GetProvider,
         PutAccount, RefreshAccount, DropType, DropAccount, DropProvider, Drop, UnlistAccount
<1>4. /\ Of("account") # {} => Of("provider") # {}
      /\ stage[a] \in {"makeType", "checkAccount", "deleteOld", "makeAccount"} => Of("provider") # {}
      /\ stage[a] = "dropProvider" => Of("account") = {}
  BY <1>1, <1>3 DEF AccountIInv, ProviderKept
<1>5. stage \in [Admin -> AccountStage]
  BY <1>2 DEF AccountStateOK, AdminsTypeOK
<1> USE <1>4, <1>5 DEF Proceed, Fail, Complain, Goto, Part
<1>6. ASSUME UNCHANGED parts PROVE UNCHANGED <<Of("account"), Of("provider")>>
  BY <1>6 DEF Of
<1>7. ASSUME AccountRefused(a)
      PROVE  stage'[a] = "idle" /\ UNCHANGED <<Of("account"), Of("provider")>>
  BY <1>6, <1>7 DEF AccountRefused, accountOwn
<1>8. CASE MakeProvider(a)
  BY <1>1, <1>2, <1>7, <1>8, MakeIsOf DEF MakeProvider
<1>9. CASE MakeType(a)
  BY <1>1, <1>2, <1>7, <1>9, MakeIsOf DEF MakeType
<1>10. CASE MakeAccount(a)
  BY <1>1, <1>2, <1>7, <1>10, MakeIsOf DEF MakeAccount
<1>11. CASE PutProvider(a) \/ PutType(a) \/ PutAccount(a)
  BY <1>1, <1>2, <1>6, <1>7, <1>11, PutIsOf DEF PutProvider, PutType, PutUnheeded, PutAccount
<1>12. CASE DeleteOld(a)
  BY <1>2, <1>7, <1>12, DropIsOf DEF DeleteOld
<1>13. CASE DropType(a)
  BY <1>2, <1>6, <1>7, <1>13, DropIsOf DEF DropType, Drop, accountOwn
<1>14. CASE DropAccount(a)
  BY <1>2, <1>7, <1>14, DropIsOf DEF DropAccount, Drop
<1>15. CASE DropProvider(a)
  BY <1>2, <1>7, <1>15, DropIsOf DEF DropProvider, Drop
<1>16. CASE CheckAccount(a)
  BY <1>6, <1>7, <1>16 DEF CheckAccount, accountOwn
<1>17. CASE GetAccount(a)
  BY <1>6, <1>7, <1>17 DEF GetAccount, FirstDropped
<1>18. CASE ListAccount(a) \/ GetProvider(a) \/ RefreshAccount(a) \/ UnlistAccount(a)
  BY <1>6, <1>18 DEF ListAccount, GetProvider, RefreshAccount, UnlistAccount, Relist, ReadAnew,
     accountOwn
<1> QED
  BY <1>8, <1>9, <1>10, <1>11, <1>12, <1>13, <1>14, <1>15, <1>16, <1>17, <1>18 DEF AccountWork

LEMMA AccountStep == AccountIInv /\ [AccountsNext]_accountVars => AccountIInv'
<1>1. ASSUME AccountIInv, NEW a \in Admin, AccountWork(a) PROVE AccountIInv'
  <2>1. AccountStateOK' /\ ProviderKept'
    BY <1>1, AccountWorkFrame, AccountWorkTypes, AccountWorkProvider DEF AccountStateOK,
       AccountIInv
  <2>2. /\ ~ Idle(a) /\ UNCHANGED <<request, overlapped>>
        /\ \A b \in Admin \ {a} : stage'[b] = stage[b]
    BY <1>1, AccountWorkFrame DEF AccountIInv, AccountStateOK
  <2>3. Asked' /\ OneAtWork'
    BY <1>1, <2>2 DEF AccountIInv, Asked, OneAtWork, Idle
  <2> QED
    BY <2>1, <2>3 DEF AccountIInv
<1>2. ASSUME AccountIInv, UNCHANGED accountVars PROVE AccountIInv'
  BY <1>2 DEF accountVars, accountOwn, admins, AccountIInv, AccountStateOK, AdminsTypeOK,
     AccountsTypeOK, PartsOf, Of, Asked, OneAtWork, ProviderKept, Idle
<1> QED
  BY <1>1, <1>2, AccountBeginKeeps DEF AccountsNext, AccountsFinished

THEOREM AccountInvariant == AccountsSpec => []AccountIInv
BY AccountInit, AccountStep, PTL DEF AccountsSpec

(* Every variable keeps its type; of each part there is at most one entity. *)
THEOREM AccountTypes == AccountsSpec => []AccountsTypeOK
BY AccountInvariant, PTL DEF AccountIInv, AccountStateOK

(* The account of a credential provider never stands without it, however    *)
(* far a creation or a deletion has come.                                  *)
THEOREM AccountNeverAlone == AccountsSpec => []AccountHasProvider
<1>1. AccountIInv => AccountHasProvider
  BY DEF AccountIInv, ProviderKept, AccountHasProvider
<1> QED
  BY <1>1, AccountInvariant, PTL

(* While no two commands have overlapped: the one at work has done what its *)
(* stage says.  As(part, e): the part is there, made from the description e.*)
As(part, e) == Of(part) # {} /\ \A p \in Of(part) : p.edition = e

AccountKnown(a) == accountInHand[a] = {p.id : p \in Of("account")}

Creating == {"makeProvider", "makeType", "checkAccount", "deleteOld", "makeAccount", "listAccount"}
Updating == {"putProvider", "putType", "getProvider", "putAccount", "refreshAccount"}
Dropping == {"dropType", "dropAccount", "dropProvider", "unlistAccount"}
OfThree == {"makeProvider", "makeType", "putProvider", "putType", "getProvider", "dropType", "dropProvider"}

AccountPlaces ==
    /\ nature # "credential" => Of("provider") = {} /\ Of("type") = {}
    /\ \A a \in Admin :
         /\ stage[a] \in Creating => request[a].op = "createAccount"
         /\ stage[a] \in Updating => request[a].op = "updateAccount"
         /\ stage[a] \in Dropping => request[a].op = "deleteAccount"
         /\ stage[a] = "getAccount" => request[a].op # "createAccount"
         /\ stage[a] \in OfThree => nature = "credential"
         /\ stage[a] = "dropAccount" => nature # "custom"

(* Of one command.                                                         *)
AccountFar(a) ==
    /\ stage[a] \in Updating \cup {"listAccount"} => AccountKnown(a)
    /\ stage[a] \in {"dropAccount", "dropProvider"} => Of("type") = {}
    /\ stage[a] = "dropProvider" => Of("account") = {}
    /\ stage[a] = "unlistAccount" /\ nature # "custom" /\ a \notin complained =>
         \A part \in Part : Of(part) = {}
    /\ stage[a] \in {"listAccount", "refreshAccount"} => As("account", request[a].edition)
    /\ ~ unheeded /\ nature = "credential" =>
         /\ stage[a] \in (Creating \ {"makeProvider"}) \cup (Updating \ {"putProvider"})
              => As("provider", request[a].edition)
         /\ stage[a] \in (Creating \ {"makeProvider", "makeType"}) \cup (Updating \ {"putProvider", "putType"})
              => As("type", request[a].edition)

AccountProgress == ~ overlapped => \A a \in Admin : AccountFar(a)

AccountAtWork == AccountPlaces /\ AccountProgress

LEMMA AccountAtWorkInit == AccountsInit => AccountAtWork
<1> SUFFICES ASSUME AccountsInit PROVE AccountAtWork
  OBVIOUS
<1>1. nature # "credential" => Of("provider") = {} /\ Of("type") = {}
  BY DEF AccountsInit, AccountsStart, PartsOf, Of
<1>2. \A a \in Admin : stage[a] = "idle"
  BY DEF AccountsInit, AdminsInit
<1> QED
  BY <1>1, <1>2 DEF AccountAtWork, AccountPlaces, AccountProgress, AccountFar, Creating, Updating,
     Dropping, OfThree

LEMMA AccountAtWorkBegin ==
    ASSUME AccountIInv, AccountAtWork, NEW a \in Admin, AccountBegin(a) PROVE AccountAtWork'
<1>1. PICK r \in AccountRequest :
        Start(a, r, IF r.op # "createAccount" THEN "getAccount"
                    ELSE IF nature = "credential" THEN "makeProvider" ELSE "checkAccount", AccountClash)
  BY DEF AccountBegin
<1>2. /\ stage' = [stage EXCEPT ![a] = IF r.op # "createAccount" THEN "getAccount"
                    ELSE IF nature = "credential" THEN "makeProvider" ELSE "checkAccount"]
      /\ request' = [request EXCEPT ![a] = r]
      /\ overlapped' = (overlapped \/ \E b \in Admin \ {a} : ~ Idle(b))
      /\ UNCHANGED <<nature, parts, unheeded>>
      /\ accountInHand' = [accountInHand EXCEPT ![a] = {}]
  BY <1>1 DEF Start, Goto, AccountClash, AccountBegin
<1>3. stage \in [Admin -> AccountStage] /\ request \in [Admin -> AccountRequest \cup {NoRequest}]
  BY DEF AccountIInv, AccountStateOK, AdminsTypeOK
<1>4. \A part : Of(part)' = Of(part)
  BY <1>2 DEF Of
<1>5. AccountPlaces'
  BY <1>2, <1>3, <1>4 DEF AccountAtWork, AccountPlaces, Creating, Updating, Dropping, OfThree
<1>6. AccountProgress'
  <2> SUFFICES ASSUME ~ overlapped', NEW b \in Admin PROVE AccountFar(b)'
    BY DEF AccountProgress
  <2>1. CASE b = a
    BY <1>2, <1>3, <2>1 DEF AccountFar, Creating, Updating
  <2>2. CASE b # a
    <3>1. stage'[b] = "idle"
      BY <1>2, <1>3, <2>2 DEF Idle
    <3> QED
      BY <3>1 DEF AccountFar, Creating, Updating
  <2> QED
    BY <2>1, <2>2
<1> QED
  BY <1>5, <1>6 DEF AccountAtWork

(* A part that is made, or changed, is as the command described it.         *)
LEMMA MakeIsAs ==
    ASSUME AccountStateOK, NEW a \in Admin, NEW part \in Part, Make(a, part), UNCHANGED request
    PROVE  /\ As(part, request[a].edition)'
           /\ \A other \in Part \ {part} : Of(other)' = Of(other)
           /\ {p.id : p \in Of(part)'} = {accountIds'}
<1> DEFINE new == [part |-> part, id |-> accountIds + 1, edition |-> request[a].edition]
<1>1. parts' = parts \cup {new} /\ new.part = part /\ new.edition = request[a].edition /\ new.id = accountIds'
  BY DEF Make
<1>2. Of(part) = {}
  BY DEF Make
<1> HIDE DEF new
<1>3. Of(part)' = {new} /\ \A other \in Part \ {part} : Of(other)' = Of(other)
  BY <1>1, <1>2 DEF Of
<1> QED
  BY <1>1, <1>3 DEF As

LEMMA PutIsAs ==
    ASSUME AccountStateOK, NEW a \in Admin, NEW part \in Part, PutPart(a, part), UNCHANGED request
    PROVE  /\ As(part, request[a].edition)'
           /\ \A other \in Part \ {part} : Of(other)' = Of(other)
           /\ \A any \in Part : {p.id : p \in Of(any)'} = {p.id : p \in Of(any)}
<1> DEFINE f(p) == IF p.part = part THEN [p EXCEPT !.edition = request[a].edition] ELSE p
<1>1. \A p \in parts : /\ f(p).part = p.part /\ f(p).id = p.id
                       /\ p.part = part => f(p).edition = request[a].edition
                       /\ p.part # part => f(p) = p
  BY DEF PartType, AccountStateOK, AccountsTypeOK
<1>2. parts' = {f(p) : p \in parts} /\ Of(part) # {}
  BY DEF PutPart
<1> HIDE DEF f
<1>3. \A any : Of(any)' = {f(p) : p \in Of(any)}
  BY <1>1, <1>2 DEF Of
<1>4. \A other \in Part \ {part} : Of(other)' = Of(other)
  BY <1>1, <1>3 DEF Of
<1>5. \A any \in Part : {p.id : p \in Of(any)'} = {p.id : p \in Of(any)}
  BY <1>1, <1>3 DEF Of
<1>6. As(part, request[a].edition)'
  BY <1>1, <1>2, <1>3 DEF As, Of
<1> QED
  BY <1>4, <1>5, <1>6

LEMMA AccountPlacesWork ==
    ASSUME AccountIInv, AccountPlaces, NEW a \in Admin, AccountWork(a) PROVE AccountPlaces'
<1>1. /\ AccountStateOK /\ Asked /\ ~ Idle(a) /\ UNCHANGED <<request, nature>>
      /\ \A b \in Admin \ {a} : stage'[b] = stage[b]
  BY AccountWorkFrame DEF AccountIInv, AccountStateOK
<1>2. stage \in [Admin -> AccountStage] /\ request[a].op \in AccountOp
  BY <1>1, AccountsAssumption DEF AccountStateOK, AdminsTypeOK, Asked
<1> USE <1>2 DEF Proceed, Fail, Complain, Goto, AccountRefused, accountOwn, AccountPlaces, Creating, Updating, Dropping,
                 OfThree, AccountOp
<1>3. /\ stage'[a] \in Creating => request[a].op = "createAccount"
      /\ stage'[a] \in Updating => request[a].op = "updateAccount"
      /\ stage'[a] \in Dropping => request[a].op = "deleteAccount"
      /\ stage'[a] # "getAccount"
      /\ stage'[a] \in OfThree => nature = "credential"
      /\ stage'[a] = "dropAccount" => nature # "custom"
  <2>1. CASE MakeProvider(a) \/ MakeType(a) \/ CheckAccount(a)
    BY <2>1 DEF MakeProvider, MakeType, CheckAccount
  <2>2. CASE DeleteOld(a) \/ MakeAccount(a) \/ ListAccount(a)
    BY <2>2 DEF DeleteOld, MakeAccount, ListAccount, Relist, ReadAnew
  <2>3. CASE GetAccount(a)
    BY <2>3 DEF GetAccount, FirstDropped
  <2>4. CASE GetProvider(a) \/ PutAccount(a) \/ RefreshAccount(a)
    BY <2>4 DEF GetProvider, PutAccount, RefreshAccount, Relist, ReadAnew
  <2>5. CASE PutProvider(a) \/ PutType(a)
    BY <2>5 DEF PutProvider, PutType, PutUnheeded
  <2>6. CASE DropType(a) \/ DropAccount(a) \/ DropProvider(a) \/ UnlistAccount(a)
    BY <2>6 DEF DropType, DropAccount, DropProvider, Drop, UnlistAccount, ReadAnew
  <2> QED
    BY <2>1, <2>2, <2>3, <2>4, <2>5, <2>6 DEF AccountWork
<1>4. nature # "credential" => Of("provider")' = {} /\ Of("type")' = {}
  <2> SUFFICES ASSUME nature # "credential" PROVE Of("provider")' = {} /\ Of("type")' = {}
    OBVIOUS
  <2>1. Of("provider") = {} /\ Of("type") = {} /\ stage[a] \notin OfThree
    OBVIOUS
  <2>2. CASE UNCHANGED parts
    BY <2>1, <2>2 DEF Of
  <2>3. CASE Make(a, "account")
    BY <1>1, <2>1, <2>3, MakeIsOf DEF Part
  <2>4. CASE PutPart(a, "account")
    BY <1>1, <2>1, <2>4, PutIsOf DEF Part
  <2>5. CASE DropPart("account")
    BY <1>1, <2>1, <2>5, DropIsOf DEF Part
  <2>6. CASE MakeProvider(a) \/ MakeType(a) \/ PutProvider(a) \/ PutType(a) \/ GetProvider(a)
             \/ DropType(a) \/ DropProvider(a)
    BY <2>1, <2>6 DEF MakeProvider, MakeType, PutProvider, PutType, GetProvider, DropType,
       DropProvider
  <2>7. CASE CheckAccount(a) \/ ListAccount(a) \/ GetAccount(a) \/ RefreshAccount(a) \/ UnlistAccount(a)
    BY <2>2, <2>7 DEF CheckAccount, ListAccount, GetAccount, RefreshAccount, UnlistAccount
  <2>8. CASE MakeAccount(a) \/ PutAccount(a) \/ DeleteOld(a) \/ DropAccount(a)
    BY <2>2, <2>3, <2>4, <2>5, <2>8 DEF MakeAccount, PutAccount, DeleteOld, DropAccount, Drop, DropPart
  <2> QED
    BY <2>6, <2>7, <2>8 DEF AccountWork
<1> QED
  BY <1>1, <1>3, <1>4

LEMMA AccountFarWork ==
    ASSUME AccountIInv, AccountAtWork, NEW a \in Admin, AccountWork(a), ~ overlapped PROVE AccountFar(a)'
<1>1. AccountStateOK /\ Asked /\ ~ Idle(a) /\ UNCHANGED <<request, nature>>
  BY AccountWorkFrame DEF AccountIInv, AccountStateOK
<1>2. stage \in [Admin -> AccountStage] /\ AccountsTypeOK
  BY <1>1 DEF AccountStateOK, AdminsTypeOK
<1>3. AccountPlaces /\ AccountFar(a)
  BY DEF AccountAtWork, AccountProgress
<1>4. unheeded => unheeded'
  BY DEF AccountWork, AccountRefused, accountOwn, MakeProvider, MakeType, CheckAccount, DeleteOld,
         MakeAccount, ListAccount, GetAccount, PutProvider, PutType, PutUnheeded, GetProvider,
         PutAccount, RefreshAccount, DropType, DropAccount, DropProvider, Drop, UnlistAccount
<1>5. stage'[a] = "idle" => AccountFar(a)'
  BY DEF AccountFar, Creating, Updating
<1>6. ASSUME UNCHANGED parts PROVE \A part : UNCHANGED Of(part) /\ \A e : As(part, e)' <=> As(part, e)
  BY <1>6 DEF Of, As
<1>7. ASSUME AccountRefused(a) PROVE AccountFar(a)'
  BY <1>2, <1>5, <1>7 DEF AccountRefused, Fail, Complain, Goto
<1>8. ASSUME NEW part \in Part, UNCHANGED Of(part) PROVE \A e : As(part, e)' <=> As(part, e)
  BY <1>8 DEF As
<1> USE <1>1, <1>2, <1>3, <1>4, <1>5, <1>7 DEF Proceed, Fail, Complain, Goto, Part, Creating, Updating
<1>10. CASE MakeProvider(a)
  <2>1. CASE stage' = [stage EXCEPT ![a] = "makeType"]
    BY <1>10, <2>1, MakeIsAs DEF MakeProvider, AccountFar
  <2> QED
    BY <1>10, <2>1 DEF MakeProvider
<1>11. CASE MakeType(a)
  <2>1. CASE Make(a, "type") /\ stage' = [stage EXCEPT ![a] = "checkAccount"]
    BY <1>8, <1>11, <2>1, MakeIsAs DEF MakeType, AccountFar
  <2> QED
    BY <1>11, <2>1 DEF MakeType
<1>12. CASE CheckAccount(a)
  BY <1>6, <1>12 DEF CheckAccount, AccountFar, accountOwn
<1>13. CASE DeleteOld(a)
  <2>1. CASE DropPart("account") /\ stage' = [stage EXCEPT ![a] = "makeAccount"]
    BY <1>8, <1>13, <2>1, DropIsOf DEF DeleteOld, AccountFar
  <2> QED
    BY <1>13, <2>1 DEF DeleteOld
<1>14. CASE MakeAccount(a)
  <2>1. CASE Make(a, "account") /\ stage' = [stage EXCEPT ![a] = "listAccount"]
    <3>1. accountInHand'[a] = {accountIds'}
      BY <1>14, <2>1 DEF MakeAccount, AccountRefused, AccountsTypeOK
    <3> QED
      BY <1>8, <1>14, <2>1, <3>1, MakeIsAs DEF MakeAccount, AccountFar, AccountKnown
  <2> QED
    BY <1>14, <2>1 DEF MakeAccount
<1>15. CASE ListAccount(a) \/ RefreshAccount(a) \/ UnlistAccount(a)
  BY <1>15 DEF ListAccount, RefreshAccount, UnlistAccount, Relist, ReadAnew
<1>16. CASE GetAccount(a)
  <2>1. ASSUME NEW p \in Of("account"), accountInHand' = [accountInHand EXCEPT ![a] = {p.id}], UNCHANGED parts
        PROVE  AccountKnown(a)'
    <3>1. Of("account") = {p} /\ Of("account")' = Of("account")
      BY <2>1 DEF Of, AccountsTypeOK
    <3> QED
      BY <2>1, <3>1 DEF AccountKnown, AccountsTypeOK
  <2>2. CASE AccountRefused(a)
    BY <2>2
  <2>3. CASE UNCHANGED parts /\ AccountKnown(a)' /\ stage' = [stage EXCEPT ![a] =
               CASE request[a].op = "updateAccount" -> IF nature = "credential" THEN "putProvider" ELSE "putAccount"
                 [] OTHER -> FirstDropped]
    BY <1>6, <2>3 DEF FirstDropped, AccountFar, AccountPlaces
  <2> QED
    BY <1>16, <2>1, <2>2, <2>3 DEF GetAccount
<1>17. CASE PutProvider(a)
  BY <1>6, <1>8, <1>17, PutIsAs DEF PutProvider, PutUnheeded, AccountFar, AccountKnown
<1>18. CASE PutType(a)
  BY <1>6, <1>8, <1>18, PutIsAs DEF PutType, PutUnheeded, AccountFar, AccountKnown
<1>19. CASE GetProvider(a)
  BY <1>6, <1>19 DEF GetProvider, AccountFar, AccountKnown, accountOwn
<1>20. CASE PutAccount(a)
  BY <1>8, <1>20, PutIsAs DEF PutAccount, AccountFar, AccountKnown
<1>21. CASE DropType(a)
  BY <1>6, <1>21, DropIsOf DEF DropType, Drop, AccountFar, accountOwn
<1>22. CASE DropAccount(a)
  BY <1>22, DropIsOf DEF DropAccount, Drop, AccountFar, AccountPlaces
<1>23. CASE DropProvider(a)
  BY <1>23, DropIsOf DEF DropProvider, Drop, AccountFar
<1> QED
  BY <1>10, <1>11, <1>12, <1>13, <1>14, <1>15, <1>16, <1>17, <1>18, <1>19, <1>20, <1>21, <1>22,
     <1>23 DEF AccountWork

LEMMA AccountAtWorkStep ==
    AccountIInv /\ AccountAtWork /\ [AccountsNext]_accountVars => AccountAtWork'
<1> SUFFICES ASSUME AccountIInv, AccountAtWork, [AccountsNext]_accountVars PROVE AccountAtWork'
  OBVIOUS
<1>1. ASSUME NEW a \in Admin, AccountWork(a) PROVE AccountAtWork'
  <2>1. /\ ~ Idle(a) /\ UNCHANGED overlapped
        /\ \A b \in Admin \ {a} : stage'[b] = stage[b]
    BY <1>1, AccountWorkFrame DEF AccountIInv, AccountStateOK
  <2>2. ASSUME ~ overlapped', NEW b \in Admin PROVE AccountFar(b)'
    <3>1. CASE b = a
      BY <1>1, <2>1, <2>2, <3>1, AccountFarWork
    <3>2. CASE b # a
      <4>1. stage'[b] = "idle"
        BY <2>1, <2>2, <3>2 DEF AccountIInv, OneAtWork, Idle
      <4> QED
        BY <4>1 DEF AccountFar, Creating, Updating
    <3> QED
      BY <3>1, <3>2
  <2>3. AccountPlaces'
    BY <1>1, AccountPlacesWork DEF AccountAtWork
  <2> QED
    BY <2>2, <2>3 DEF AccountAtWork, AccountProgress
<1>2. ASSUME UNCHANGED accountVars PROVE AccountAtWork'
  BY <1>2 DEF accountVars, accountOwn, admins, AccountAtWork, AccountPlaces, AccountProgress,
     AccountFar, AccountKnown, As, Of
<1> QED
  BY <1>1, <1>2, AccountAtWorkBegin DEF AccountsNext, AccountsFinished

(* The step in which a command on the account ends.                         *)
AccountEnds ==
    \A a \in Admin : EndsSilently(a) /\ ~ overlapped' =>
         LET r == request[a]
         IN  CASE r.op = "deleteAccount" ->
                     /\ nature # "custom" => parts' = {}
                     /\ nature = "ahv" => accountRows' = {}
                     /\ nature # "ahv" => accountRows \ accountRows' \subseteq accountInHand[a]
               [] r.op \in AccountOp \ {"deleteAccount"} ->
                     /\ {p.id : p \in {p \in parts' : p.part = "account"}} = accountInHand[a]
                     /\ r.op = "createAccount" => accountInHand[a] \subseteq accountRows'
                     /\ ~ unheeded' =>
                          /\ {p.part : p \in parts'} = PartsOf
                          /\ \A p \in parts' : p.edition = r.edition
               [] OTHER -> TRUE

LEMMA AccountEndsRight == AccountIInv /\ AccountAtWork /\ [AccountsNext]_accountVars => AccountEnds
<1> SUFFICES ASSUME AccountIInv, AccountAtWork, [AccountsNext]_accountVars,
                    NEW a \in Admin, EndsSilently(a), ~ overlapped'
             PROVE  /\ request[a].op = "deleteAccount" =>
                         /\ nature # "custom" => parts' = {}
                         /\ nature = "ahv" => accountRows' = {}
                         /\ nature # "ahv" => accountRows \ accountRows' \subseteq accountInHand[a]
                    /\ request[a].op \in AccountOp \ {"deleteAccount"} =>
                         /\ {p.id : p \in {p \in parts' : p.part = "account"}} = accountInHand[a]
                         /\ request[a].op = "createAccount" => accountInHand[a] \subseteq accountRows'
                         /\ ~ unheeded' =>
                              /\ {p.part : p \in parts'} = PartsOf
                              /\ \A p \in parts' : p.edition = request[a].edition
  BY DEF AccountEnds
<1>1. ~ Idle(a) /\ stage'[a] = "idle" /\ a \notin complained'
  BY DEF EndsSilently
<1>2. stage \in [Admin -> AccountStage] /\ parts \subseteq PartType
  BY DEF AccountIInv, AccountStateOK, AdminsTypeOK, AccountsTypeOK
<1>3. AccountWork(a)
  <2>1. CASE UNCHANGED accountVars
    BY <1>1, <2>1 DEF accountVars, admins, Idle
  <2>2. ASSUME NEW b \in Admin, AccountBegin(b) PROVE FALSE
    <3>1. Idle(b) /\ stage'[a] = IF a = b THEN stage'[b] ELSE stage[a]
      BY <1>2, <2>2 DEF AccountBegin, Start, Goto
    <3>2. stage'[b] \in {"getAccount", "makeProvider", "checkAccount"}
      BY <1>2, <2>2 DEF AccountBegin, Start, Goto
    <3> QED
      BY <1>1, <3>1, <3>2 DEF Idle
  <2>3. ASSUME NEW b \in Admin \ {a}, AccountWork(b) PROVE FALSE
    BY <1>1, <2>3, AccountWorkFrame DEF AccountIInv, AccountStateOK, Idle
  <2> QED
    BY <2>1, <2>2, <2>3 DEF AccountsNext, AccountsFinished
<1>4. ListAccount(a) \/ RefreshAccount(a) \/ UnlistAccount(a)
  BY <1>1, <1>2, <1>3 DEF AccountWork, AccountRefused, accountOwn, MakeProvider, MakeType,
     CheckAccount, DeleteOld, MakeAccount, GetAccount, FirstDropped, PutProvider, PutType,
     PutUnheeded, GetProvider, PutAccount, DropType, DropAccount, DropProvider, Drop, Proceed,
     Fail, Complain, Goto
<1>5. ~ overlapped /\ UNCHANGED <<parts, unheeded, nature>>
  BY <1>4 DEF ListAccount, RefreshAccount, UnlistAccount, Relist, ReadAnew, Proceed, Fail, Complain
<1>6. AccountPlaces /\ AccountFar(a)
  BY <1>5 DEF AccountAtWork, AccountProgress
<1>7. \A p \in parts : p.part \in Part /\ p \in Of(p.part)
  BY <1>2 DEF PartType, Of
<1>8. CASE UnlistAccount(a)
  <2>1. stage[a] = "unlistAccount" /\ a \notin complained
    BY <1>1, <1>2, <1>8 DEF UnlistAccount, ReadAnew, Proceed, Fail, Complain, Goto
  <2>2. nature # "custom" => parts = {} /\ Of("account") = {}
    BY <1>6, <1>7, <2>1 DEF AccountFar, Part
  <2>3. nature = "ahv" => accountRows' = {}
    <3>1. ASSUME Fail(a) PROVE FALSE
      BY <1>1, <1>2, <3>1 DEF Fail, Complain, AccountIInv, AccountStateOK, AdminsTypeOK
    <3> QED
      BY <1>8, <2>2, <3>1 DEF UnlistAccount, ReadAnew
  <2>4. nature # "ahv" => accountRows \ accountRows' \subseteq accountInHand[a]
    BY <1>8 DEF UnlistAccount
  <2> QED
    BY <1>5, <1>6, <2>1, <2>2, <2>3, <2>4 DEF AccountPlaces, Creating, Updating, Dropping, AccountOp
<1>9. CASE ListAccount(a) \/ RefreshAccount(a)
  <2>1. stage[a] \in {"listAccount", "refreshAccount"} /\ request[a].op # "deleteAccount"
    BY <1>6, <1>9 DEF ListAccount, RefreshAccount, AccountPlaces, Creating, Updating
  <2>2. AccountKnown(a) /\ As("account", request[a].edition)
    BY <1>6, <2>1 DEF AccountFar, Updating
  <2>3. request[a].op = "createAccount" => accountInHand[a] \subseteq accountRows'
    <3>1. ASSUME Fail(a) PROVE FALSE
      BY <1>1, <1>2, <3>1 DEF Fail, Complain, AccountIInv, AccountStateOK, AdminsTypeOK
    <3>2. request[a].op = "createAccount" => ListAccount(a)
      BY <1>6, <1>9 DEF RefreshAccount, AccountPlaces, Updating
    <3> QED
      BY <2>2, <3>1, <3>2 DEF AccountKnown, ListAccount, Relist, ReadAnew, Of
  <2>4. ASSUME ~ unheeded'
        PROVE  {p.part : p \in parts} = PartsOf /\ \A p \in parts : p.edition = request[a].edition
    <3>1. CASE nature = "credential"
      <4>1. \A part \in Part : As(part, request[a].edition)
        BY <1>5, <1>6, <2>1, <2>2, <2>4, <3>1 DEF AccountFar, Part, Creating, Updating
      <4> QED
        BY <1>7, <3>1, <4>1 DEF As, Of, PartsOf
    <3>2. CASE nature # "credential"
      <4>1. Of("provider") = {} /\ Of("type") = {}
        BY <1>6, <3>2 DEF AccountPlaces
      <4> QED
        BY <1>7, <2>2, <3>2, <4>1 DEF As, Of, PartsOf, Part
    <3> QED
      BY <3>1, <3>2
  <2> QED
    BY <1>5, <2>1, <2>2, <2>3, <2>4 DEF AccountKnown, Of
<1> QED
  BY <1>4, <1>8, <1>9

-----------------------------------------------------------------------------
(* Tunnels.                                                                *)

TunnelStateOK == AdminsTypeOK(TunnelStage, TunnelRequest) /\ TunnelsTypeOK

(* The application of a launch under way is new to everybody.              *)
SetupIsNew ==
    \A t \in setup : t.what = "launch" =>
        t.app \notin tunnelApp /\ t.app <= appIds /\ \A b \in Admin : t.app \notin oldApp[b]

TunnelIdsOK == \A i \in tunnelApp : i <= appIds

OldIdsOK == \A b \in Admin : \A i \in oldApp[b] : i <= appIds

(* A command that has not yet started its task has not seen one end, and    *)
(* when it has, the tunnel has left the application it is to delete.       *)
TaskToCome == \A a \in Admin : stage[a] = "readGroup" => milestone[a] = "none"

TunnelHasMoved ==
    \A a \in Admin : milestone[a] = "succeeded" => tunnelApp \cap oldApp[a] = {}

(* Nobody gets past the poll of a task that has not succeeded, unless the   *)
(* poll gives up.                                                          *)
PolledToTheEnd ==
    patient => \A a \in Admin :
        stage[a] \in {"pollApp", "readTunnel", "deleteOldApp"} => milestone[a] = "succeeded"

TunnelIInv ==
    /\ TunnelStateOK /\ SetupIsNew /\ TunnelIdsOK /\ OldIdsOK
    /\ TaskToCome /\ TunnelHasMoved /\ PolledToTheEnd

LEMMA TunnelInit == TunnelsInit => TunnelIInv
<1> SUFFICES ASSUME TunnelsInit PROVE TunnelIInv
  OBVIOUS
<1> USE DEF TunnelsInit, AdminsInit, TunnelsStart
<1>1. AdminsTypeOK(TunnelStage, TunnelRequest)
  BY AdministratorsAssumption DEF AdminsTypeOK, TunnelStage
<1>2. TunnelsTypeOK
  BY DEF TunnelsTypeOK, AppState
<1> QED
  BY <1>1, <1>2 DEF TunnelIInv, TunnelStateOK, SetupIsNew, TunnelIdsOK, OldIdsOK, TaskToCome,
     TunnelHasMoved, PolledToTheEnd

LEMMA TunnelBeginKeeps ==
    ASSUME TunnelIInv, NEW a \in Admin, TunnelBegin(a) PROVE TunnelIInv'
<1> USE TunnelsAssumption DEF TunnelIInv, TunnelStateOK
<1>1. PICK r \in TunnelRequest, s \in {"submit", "readGroup", "findGroup"} :
        /\ stage' = [stage EXCEPT ![a] = s]
        /\ request' = [request EXCEPT ![a] = r]
        /\ started' = started + 1 /\ complained' = complained \ {a} /\ UNCHANGED patient
        /\ overlapped' \in BOOLEAN
  BY DEF TunnelBegin, Start, Goto, TunnelOp
<1>2. /\ milestone' = [milestone EXCEPT ![a] = "none"]
      /\ oldApp' = [oldApp EXCEPT ![a] = {}]
      /\ deletedApp' = [deletedApp EXCEPT ![a] = {}]
      /\ UNCHANGED <<tunnelApp, apps, setup, appIds>>
  BY DEF TunnelBegin
<1>3. AdminsTypeOK(TunnelStage, TunnelRequest)'
  BY <1>1 DEF AdminsTypeOK, TunnelStage
<1>4. TunnelsTypeOK'
  BY <1>2 DEF TunnelsTypeOK
<1> QED
  BY <1>1, <1>2, <1>3, <1>4 DEF AdminsTypeOK, TunnelsTypeOK, SetupIsNew, TunnelIdsOK, OldIdsOK,
     TaskToCome, TunnelHasMoved, PolledToTheEnd

(* A step of a command at work leaves the requests alone, and is its own.   *)
LEMMA TunnelWorkFrame ==
    ASSUME TunnelStateOK, NEW a \in Admin, TunnelWork(a)
    PROVE  /\ AdminsTypeOK(TunnelStage, TunnelRequest)'
           /\ \A b \in Admin \ {a} : stage'[b] = stage[b]
           /\ stage'[a] # "readGroup"
           /\ patient' => patient
<1> DEFINE Frame ==
        /\ \E s \in TunnelStage \ {"readGroup"} : stage' = [stage EXCEPT ![a] = s]
        /\ complained' \in SUBSET (complained \cup {a})
        /\ patient' \in {patient, FALSE}
        /\ UNCHANGED <<request, started, overlapped>>
<1> USE DEF Proceed, Fail, Complain, GiveUp, Goto, TunnelStage, TunnelRefused
<1>1. ASSUME ReadGroup(a) \/ SubmitSetup(a) \/ PollSetup(a) PROVE Frame
  BY <1>1 DEF ReadGroup, SubmitSetup, PollSetup, TunnelStateOK, AdminsTypeOK
<1>2. ASSUME PollApp(a) \/ ReadTunnel(a) \/ DeleteOldApp(a) PROVE Frame
  BY <1>2 DEF PollApp, ReadTunnel, DeleteOldApp, TunnelStateOK, AdminsTypeOK
<1>3. ASSUME FindGroup(a) \/ ReadApp(a) \/ DropTunnel(a) PROVE Frame
  BY <1>3 DEF FindGroup, ReadApp, DropTunnel, TunnelStateOK, AdminsTypeOK
<1>4. Frame
  BY <1>1, <1>2, <1>3 DEF TunnelWork
<1>5. patient' \in BOOLEAN /\ (patient' => patient)
  <2>1. patient \in BOOLEAN
    BY DEF TunnelStateOK, AdminsTypeOK
  <2>2. patient' = patient \/ patient' = FALSE
    BY <1>4
  <2>3. CASE patient' = patient
    <3>1. patient' \in BOOLEAN
      BY ONLY <2>1, <2>3
    <3> QED
      BY ONLY <2>3, <3>1
  <2>4. CASE patient' = FALSE
    BY ONLY <2>4
  <2> QED
    BY <2>2, <2>3, <2>4
<1>6. PICK s \in TunnelStage \ {"readGroup"} : stage' = [stage EXCEPT ![a] = s]
  BY <1>4
<1>7. AdminsTypeOK(TunnelStage, TunnelRequest)'
  BY <1>4, <1>5, <1>6 DEF TunnelStateOK, AdminsTypeOK
<1> QED
  BY <1>5, <1>6, <1>7 DEF TunnelStateOK, AdminsTypeOK

LEMMA TunnelWorkKeeps ==
    ASSUME TunnelIInv, NEW a \in Admin, TunnelWork(a) PROVE TunnelIInv'
<1> USE DEF TunnelIInv, TunnelStateOK
<1>1. /\ AdminsTypeOK(TunnelStage, TunnelRequest)'
      /\ \A b \in Admin \ {a} : stage'[b] = stage[b]
      /\ stage'[a] # "readGroup"
      /\ patient' => patient
  BY TunnelWorkFrame
<1>2. (TaskToCome' /\ PolledToTheEnd') \/ SubmitSetup(a)
  <2>1. CASE ReadGroup(a) \/ PollSetup(a)
    BY <1>1, <2>1 DEF ReadGroup, PollSetup, TunnelRefused, tunnelOwn, TaskToCome, PolledToTheEnd,
       Proceed, Fail, Complain, GiveUp, Goto, AdminsTypeOK
  <2>2. CASE PollApp(a) \/ ReadTunnel(a) \/ DeleteOldApp(a)
    BY <1>1, <2>2 DEF PollApp, ReadTunnel, DeleteOldApp, TunnelRefused, tunnelOwn, TaskToCome,
       PolledToTheEnd, Proceed, Fail, Complain, GiveUp, Goto, AdminsTypeOK
  <2>3. CASE FindGroup(a) \/ ReadApp(a) \/ DropTunnel(a)
    BY <1>1, <2>3 DEF FindGroup, ReadApp, DropTunnel, TunnelRefused, tunnelOwn, TaskToCome,
       PolledToTheEnd, Proceed, Fail, Complain, GiveUp, Goto, AdminsTypeOK
  <2> QED
    BY <2>1, <2>2, <2>3 DEF TunnelWork
<1>3. CASE UNCHANGED tunnelOwn /\ ~ SubmitSetup(a)
  BY <1>1, <1>2, <1>3 DEF tunnelOwn, TunnelsTypeOK, SetupIsNew, TunnelIdsOK, OldIdsOK,
     TunnelHasMoved
<1>4. CASE ReadGroup(a) /\ ~ UNCHANGED tunnelOwn
  <2>1. /\ stage[a] = "readGroup"
        /\ oldApp' = [oldApp EXCEPT ![a] = tunnelApp]
        /\ UNCHANGED <<tunnelApp, apps, setup, milestone, deletedApp, appIds>>
    BY <1>4 DEF ReadGroup, TunnelRefused
  <2>2. milestone[a] = "none" /\ ~ SubmitSetup(a)
    BY <2>1 DEF TaskToCome, SubmitSetup
  <2> QED
    BY <1>1, <1>2, <2>1, <2>2 DEF TunnelsTypeOK, SetupIsNew, TunnelIdsOK, OldIdsOK, TunnelHasMoved
<1>5. CASE SubmitSetup(a)
  <2>1. TaskToCome' /\ PolledToTheEnd' /\ TunnelHasMoved'
    <3>1. /\ \A b \in Admin \ {a} : milestone'[b] = milestone[b]
          /\ milestone'[a] \in {milestone[a], "queued"}
          /\ UNCHANGED <<tunnelApp, oldApp>>
      BY <1>5 DEF SubmitSetup, TunnelRefused, tunnelOwn, TunnelsTypeOK
    <3>2. stage'[a] \in {"pollSetup", "idle"}
      BY <1>5 DEF SubmitSetup, TunnelRefused, Proceed, Fail, Complain, Goto, AdminsTypeOK
    <3> QED
      BY <1>1, <3>1, <3>2 DEF TaskToCome, PolledToTheEnd, TunnelHasMoved
  <2>2. CASE UNCHANGED tunnelOwn
    BY <1>1, <2>1, <2>2 DEF tunnelOwn, TunnelsTypeOK, SetupIsNew, TunnelIdsOK, OldIdsOK
  <2>3. CASE /\ setup' = {[by |-> a, app |-> appIds + 1, what |-> "launch"]}
             /\ apps' = apps \cup {[id |-> appIds + 1, state |-> "provisioning"]}
             /\ appIds' = appIds + 1
             /\ milestone' = [milestone EXCEPT ![a] = "queued"]
             /\ UNCHANGED <<tunnelApp, oldApp, deletedApp>>
    <3>1. TunnelsTypeOK'
      BY <2>3 DEF TunnelsTypeOK, AppState
    <3>2. /\ \A i \in tunnelApp : i # appIds + 1 /\ i <= appIds + 1
          /\ \A b \in Admin : \A i \in oldApp[b] : i # appIds + 1 /\ i <= appIds + 1
      BY DEF TunnelsTypeOK, TunnelIdsOK, OldIdsOK
    <3>3. SetupIsNew' /\ TunnelIdsOK' /\ OldIdsOK'
      BY <2>3, <3>1, <3>2 DEF SetupIsNew, TunnelIdsOK, OldIdsOK, TunnelsTypeOK
    <3> QED
      BY <1>1, <2>1, <3>1, <3>3
  <2> QED
    BY <1>5, <2>2, <2>3 DEF SubmitSetup, TunnelRefused
<1>6. CASE DeleteOldApp(a) /\ ~ UNCHANGED tunnelOwn
  <2>1. /\ UNCHANGED <<tunnelApp, setup, milestone, oldApp, appIds>>
        /\ apps' = Deleting(oldApp[a])
        /\ deletedApp' = [deletedApp EXCEPT ![a] = oldApp[a]]
        /\ ~ SubmitSetup(a)
    BY <1>6 DEF DeleteOldApp, TunnelRefused, SubmitSetup
  <2>2. apps' \subseteq [id : Nat, state : AppState]
    BY <2>1 DEF TunnelsTypeOK, AppState, Deleting
  <2>3. TunnelsTypeOK'
    BY <2>1, <2>2 DEF TunnelsTypeOK
  <2> QED
    BY <1>1, <1>2, <2>1, <2>3 DEF SetupIsNew, TunnelIdsOK, OldIdsOK, TunnelHasMoved
<1>7. CASE DropTunnel(a) /\ ~ UNCHANGED tunnelOwn
  <2>1. PICK i \in tunnelApp :
          /\ setup' = {[by |-> a, app |-> i, what |-> "delete"]}
          /\ UNCHANGED <<tunnelApp, apps, milestone, oldApp, deletedApp, appIds>>
          /\ ~ SubmitSetup(a)
    BY <1>7 DEF DropTunnel, TunnelRefused, SubmitSetup
  <2>2. TunnelsTypeOK'
    BY <2>1 DEF TunnelsTypeOK
  <2> QED
    BY <1>1, <1>2, <2>1, <2>2 DEF SetupIsNew, TunnelIdsOK, OldIdsOK, TunnelHasMoved
<1> QED
  BY <1>3, <1>4, <1>5, <1>6, <1>7 DEF TunnelWork, PollSetup, PollApp, ReadTunnel, FindGroup, ReadApp

(* The server moves the tunnel to the application of the task, which is new *)
(* to every command that is to delete one.                                 *)
LEMMA SetupEndsKeeps == ASSUME TunnelIInv, SetupEnds PROVE TunnelIInv'
<1> USE DEF TunnelIInv, TunnelStateOK
<1>1. PICK t \in setup, outcome \in {"succeeded", "failed"} :
        /\ t.what = "launch"
        /\ setup' = {}
        /\ milestone' = IF milestone[t.by] = "queued"
                          THEN [milestone EXCEPT ![t.by] = outcome] ELSE milestone
        /\ tunnelApp' = IF outcome = "succeeded" THEN {t.app} ELSE tunnelApp
        /\ UNCHANGED <<apps, oldApp, deletedApp, appIds, admins>>
  BY DEF SetupEnds
<1>2. t.by \in Admin /\ t.app \in Nat
  BY DEF TunnelsTypeOK
<1>3. TunnelsTypeOK'
  BY <1>1, <1>2 DEF TunnelsTypeOK
<1>4. UNCHANGED <<stage, request, started, complained, patient, overlapped>>
  BY <1>1 DEF admins
<1>5. AdminsTypeOK(TunnelStage, TunnelRequest)'
  BY <1>4 DEF AdminsTypeOK
<1>6. SetupIsNew' /\ TunnelIdsOK' /\ OldIdsOK'
  BY <1>1 DEF SetupIsNew, TunnelIdsOK, OldIdsOK
<1>7. \A a \in Admin : milestone'[a] # milestone[a] => milestone[a] = "queued" /\ milestone'[a] = outcome
  BY <1>1, <1>2 DEF TunnelsTypeOK
<1>8. TaskToCome' /\ PolledToTheEnd'
  BY <1>4, <1>7 DEF TaskToCome, PolledToTheEnd
<1>9. TunnelHasMoved'
  BY <1>1, <1>7 DEF TunnelHasMoved, SetupIsNew
<1> QED
  BY <1>3, <1>5, <1>6, <1>8, <1>9

(* The deletion of the tunnel leaves it in no application.                 *)
LEMMA RemovalEndsKeeps == ASSUME TunnelIInv, RemovalEnds PROVE TunnelIInv'
<1> USE DEF TunnelIInv, TunnelStateOK
<1>1. /\ setup' = {} /\ tunnelApp' \subseteq tunnelApp
      /\ UNCHANGED <<milestone, oldApp, deletedApp, appIds, admins>>
  BY DEF RemovalEnds
<1>2. apps' \subseteq [id : Nat, state : AppState]
  <2>1. CASE apps' = {IF p.id \in tunnelApp THEN [p EXCEPT !.state = "deleted"] ELSE p : p \in apps}
    BY <2>1 DEF TunnelsTypeOK, AppState
  <2> QED
    BY <2>1 DEF RemovalEnds, TunnelsTypeOK
<1>3. TunnelsTypeOK'
  BY <1>1, <1>2 DEF TunnelsTypeOK
<1>4. UNCHANGED <<stage, request, started, complained, patient, overlapped>>
  BY <1>1 DEF admins
<1>5. AdminsTypeOK(TunnelStage, TunnelRequest)'
  BY <1>4 DEF AdminsTypeOK
<1> QED
  BY <1>1, <1>3, <1>4, <1>5 DEF SetupIsNew, TunnelIdsOK, OldIdsOK, TaskToCome, TunnelHasMoved,
     PolledToTheEnd

LEMMA TunnelStep == TunnelIInv /\ [TunnelsNext]_tunnelVars => TunnelIInv'
<1> SUFFICES ASSUME TunnelIInv, [TunnelsNext]_tunnelVars PROVE TunnelIInv'
  OBVIOUS
<1>1. ASSUME NEW a \in Admin, TunnelBegin(a) PROVE TunnelIInv'
  BY <1>1, TunnelBeginKeeps
<1>2. ASSUME NEW a \in Admin, TunnelWork(a) PROVE TunnelIInv'
  BY <1>2, TunnelWorkKeeps
<1>3. CASE SetupEnds \/ RemovalEnds
  BY <1>3, SetupEndsKeeps, RemovalEndsKeeps
<1>4. CASE AppEnds
  <2>1. apps' \subseteq [id : Nat, state : AppState]
    BY <1>4 DEF AppEnds, TunnelIInv, TunnelStateOK, TunnelsTypeOK, AppState
  <2> QED
    BY <1>4, <2>1 DEF AppEnds, admins, TunnelIInv, TunnelStateOK, AdminsTypeOK, TunnelsTypeOK,
       SetupIsNew, TunnelIdsOK, OldIdsOK, TaskToCome, TunnelHasMoved, PolledToTheEnd
<1>5. CASE UNCHANGED tunnelVars
  BY <1>5 DEF tunnelVars, tunnelOwn, admins, TunnelIInv, TunnelStateOK, AdminsTypeOK,
     TunnelsTypeOK, SetupIsNew, TunnelIdsOK, OldIdsOK, TaskToCome, TunnelHasMoved, PolledToTheEnd
<1> QED
  BY <1>1, <1>2, <1>3, <1>4, <1>5 DEF TunnelsNext, TunnelsFinished

(* The invariant holds in every state of the tunnels.                      *)
THEOREM TunnelInvariant == TunnelsSpec => []TunnelIInv
BY TunnelInit, TunnelStep, PTL DEF TunnelsSpec

(* The one step that asks to delete an application for a reset.            *)
TunnelRuns ==
    patient' =>
        \A a \in Admin : deletedApp'[a] # deletedApp[a] => deletedApp'[a] \cap tunnelApp = {}

LEMMA TunnelRunsOn == TunnelIInv /\ [TunnelsNext]_tunnelVars => TunnelRuns
<1> SUFFICES ASSUME TunnelIInv, [TunnelsNext]_tunnelVars, patient',
                    NEW a \in Admin, deletedApp'[a] # deletedApp[a]
             PROVE  deletedApp'[a] \cap tunnelApp = {}
  BY DEF TunnelRuns
<1> USE DEF TunnelIInv, TunnelStateOK, TunnelsTypeOK
<1>1. CASE UNCHANGED tunnelVars \/ SetupEnds \/ RemovalEnds \/ AppEnds
  BY <1>1 DEF tunnelVars, tunnelOwn, SetupEnds, RemovalEnds, AppEnds
<1>2. ASSUME NEW b \in Admin, TunnelBegin(b) PROVE deletedApp'[a] = {}
  BY <1>2 DEF TunnelBegin
<1>3. ASSUME NEW b \in Admin, TunnelWork(b) PROVE deletedApp'[a] \cap tunnelApp = {}
  <2>1. DeleteOldApp(b) /\ ~ TunnelRefused(b)
    BY <1>3 DEF TunnelWork, ReadGroup, SubmitSetup, PollSetup, PollApp, ReadTunnel, FindGroup,
       ReadApp, DropTunnel, TunnelRefused, tunnelOwn
  <2>2. b = a /\ deletedApp'[a] = oldApp[a] /\ stage[a] = "deleteOldApp"
    BY <2>1 DEF DeleteOldApp
  <2>3. patient
    BY <1>3, TunnelWorkFrame
  <2> QED
    BY <2>2, <2>3 DEF PolledToTheEnd, TunnelHasMoved
<1> QED
  BY <1>1, <1>2, <1>3 DEF TunnelsNext, TunnelsFinished

(* While no two commands have overlapped and no poll has given up: the one  *)
(* at work has done what its stage says, and no other task is under way     *)
(* than its own, which it has seen the end of when it comes to the          *)
(* application, and has seen that running when it comes to the old one.    *)
OneOnTunnel == ~ overlapped => \A a, b \in Admin : ~ Idle(a) /\ ~ Idle(b) => a = b

SetsUp == {"createTunnel", "resetTunnel"}

TunnelAsked ==
    \A a \in Admin :
        /\ stage[a] \in {"readGroup", "submit", "pollSetup", "pollApp", "readTunnel", "deleteOldApp"}
             => request[a].op \in SetsUp
        /\ stage[a] \in {"findGroup", "readApp", "deleteTunnel"} => request[a].op = "deleteTunnel"

TunnelRunning == \E p \in apps : p.id \in tunnelApp /\ p.state = "running"

TunnelProgress ==
    ~ overlapped => \A a \in Admin :
        /\ stage[a] = "pollSetup" =>
             /\ \A t \in setup : t.by = a
             /\ milestone[a] # "queued" => setup = {}
        /\ patient /\ stage[a] \in {"pollApp", "readTunnel", "deleteOldApp"} => setup = {}
        /\ patient /\ stage[a] \in {"readTunnel", "deleteOldApp"} => TunnelRunning

TunnelAtWork == OneOnTunnel /\ TunnelAsked /\ TunnelProgress

LEMMA TunnelAtWorkInit == TunnelsInit => TunnelAtWork
BY DEF TunnelsInit, AdminsInit, TunnelAtWork, OneOnTunnel, TunnelAsked, TunnelProgress, Idle

LEMMA TunnelAtWorkBegin ==
    ASSUME TunnelIInv, TunnelAtWork, NEW a \in Admin, TunnelBegin(a) PROVE TunnelAtWork'
<1>1. PICK r \in TunnelRequest :
        Start(a, r, CASE r.op = "createTunnel" -> "submit"
                      [] r.op = "resetTunnel" -> "readGroup"
                      [] r.op = "deleteTunnel" -> "findGroup", TunnelClash)
  BY DEF TunnelBegin
<1>2. /\ Idle(a)
      /\ \E s \in {"submit", "readGroup", "findGroup"} :
            stage' = [stage EXCEPT ![a] = s] /\ (r.op \in SetsUp <=> s # "findGroup")
      /\ r.op \in SetsUp \cup {"deleteTunnel"}
      /\ request' = [request EXCEPT ![a] = r]
      /\ ~ overlapped' => ~ overlapped /\ \A b \in Admin \ {a} : Idle(b)
      /\ UNCHANGED <<apps, tunnelApp, setup>>
      /\ \A b \in Admin \ {a} : milestone'[b] = milestone[b]
  BY <1>1, TunnelsAssumption DEF Start, Goto, SetsUp, TunnelOp, TunnelBegin, TunnelClash,
     TunnelIInv, TunnelStateOK, TunnelsTypeOK
<1>3. stage \in [Admin -> TunnelStage] /\ request \in [Admin -> TunnelRequest \cup {NoRequest}]
  BY DEF TunnelIInv, TunnelStateOK, AdminsTypeOK
<1>4. OneOnTunnel'
  BY <1>2, <1>3 DEF OneOnTunnel, Idle
<1>5. TunnelAsked'
  BY <1>2, <1>3 DEF TunnelAsked, TunnelAtWork, SetsUp
<1>6. TunnelProgress'
  <2> SUFFICES ASSUME ~ overlapped', NEW b \in Admin
               PROVE  stage'[b] \notin {"pollSetup", "pollApp", "readTunnel", "deleteOldApp"}
    BY DEF TunnelProgress
  <2> QED
    BY <1>2, <1>3 DEF Idle
<1> QED
  BY <1>4, <1>5, <1>6 DEF TunnelAtWork

(* What a step of the command at work makes of its stage.                   *)
LEMMA TunnelWorkMoves ==
    ASSUME TunnelIInv, NEW a \in Admin, TunnelWork(a)
    PROVE  /\ ~ Idle(a) /\ UNCHANGED <<request, overlapped>>
           /\ \A b \in Admin \ {a} : stage'[b] = stage[b]
           /\ patient' => patient
<1> USE DEF Proceed, Fail, Complain, GiveUp, Goto, TunnelRefused
<1>1. UNCHANGED <<request, overlapped>> /\ ~ Idle(a)
  <2>1. CASE ReadGroup(a) \/ SubmitSetup(a) \/ PollSetup(a) \/ PollApp(a) \/ ReadTunnel(a)
    BY <2>1 DEF ReadGroup, SubmitSetup, PollSetup, PollApp, ReadTunnel, Idle
  <2>2. CASE DeleteOldApp(a) \/ FindGroup(a) \/ ReadApp(a) \/ DropTunnel(a)
    BY <2>2 DEF DeleteOldApp, FindGroup, ReadApp, DropTunnel, Idle
  <2> QED
    BY <2>1, <2>2 DEF TunnelWork
<1> QED
  BY <1>1, TunnelWorkFrame DEF TunnelIInv

LEMMA TunnelAtWorkWork ==
    ASSUME TunnelIInv, TunnelAtWork, NEW a \in Admin, TunnelWork(a) PROVE TunnelAtWork'
<1>1. /\ ~ Idle(a) /\ UNCHANGED <<request, overlapped>>
      /\ \A b \in Admin \ {a} : stage'[b] = stage[b]
      /\ patient' => patient
  BY TunnelWorkMoves
<1>2. stage \in [Admin -> TunnelStage] /\ TunnelsTypeOK
  BY DEF TunnelIInv, TunnelStateOK, AdminsTypeOK
<1> USE DEF Proceed, Fail, Complain, GiveUp, Goto, TunnelRefused
<1>3. OneOnTunnel'
  BY <1>1 DEF TunnelAtWork, OneOnTunnel, Idle
<1>4. TunnelAsked'
  <2>1. CASE ReadGroup(a) \/ SubmitSetup(a) \/ PollSetup(a) \/ PollApp(a) \/ ReadTunnel(a)
    BY <1>1, <1>2, <2>1 DEF ReadGroup, SubmitSetup, PollSetup, PollApp, ReadTunnel, TunnelAtWork,
       TunnelAsked
  <2>2. CASE DeleteOldApp(a) \/ FindGroup(a) \/ ReadApp(a) \/ DropTunnel(a)
    BY <1>1, <1>2, <2>2 DEF DeleteOldApp, FindGroup, ReadApp, DropTunnel, TunnelAtWork,
       TunnelAsked
  <2> QED
    BY <2>1, <2>2 DEF TunnelWork
<1>5. TunnelProgress'
  <2> SUFFICES ASSUME ~ overlapped'
               PROVE  /\ stage'[a] = "pollSetup" =>
                           /\ \A t \in setup' : t.by = a
                           /\ milestone'[a] # "queued" => setup' = {}
                      /\ patient' /\ stage'[a] \in {"pollApp", "readTunnel", "deleteOldApp"} => setup' = {}
                      /\ patient' /\ stage'[a] \in {"readTunnel", "deleteOldApp"} => TunnelRunning'
    <3>1. ~ overlapped' => \A b \in Admin \ {a} : stage'[b] = "idle"
      BY <1>1 DEF TunnelAtWork, OneOnTunnel, Idle
    <3> QED
      BY <3>1 DEF TunnelProgress
  <2>1. TunnelProgress /\ ~ overlapped
    BY <1>1 DEF TunnelAtWork
  <2>2. ASSUME UNCHANGED tunnelOwn PROVE TunnelRunning' <=> TunnelRunning
    BY <2>2 DEF tunnelOwn, TunnelRunning
  <2>3. CASE ReadGroup(a)
    BY <1>2, <2>3 DEF ReadGroup
  <2>4. CASE SubmitSetup(a)
    BY <1>2, <2>4 DEF SubmitSetup, TunnelsTypeOK
  <2>5. CASE PollSetup(a)
    BY <1>2, <2>1, <2>5 DEF PollSetup, TunnelProgress, tunnelOwn
  <2>6. CASE PollApp(a)
    <3>1. TunnelProgress /\ stage[a] = "pollApp" /\ UNCHANGED tunnelOwn
      BY <2>1, <2>6 DEF PollApp
    <3>2. (stage'[a] = "readTunnel" /\ TunnelRunning) \/ ~ patient' \/ stage'[a] = "idle"
      BY <1>2, <2>6 DEF PollApp, TunnelRunning
    <3> QED
      BY <1>1, <1>2, <2>1, <2>2, <2>6, <3>1, <3>2 DEF PollApp, TunnelProgress, tunnelOwn
  <2>7. CASE ReadTunnel(a)
    BY <1>1, <1>2, <2>1, <2>2, <2>7 DEF ReadTunnel, TunnelProgress, tunnelOwn
  <2>8. CASE DeleteOldApp(a) \/ FindGroup(a) \/ ReadApp(a) \/ DropTunnel(a)
    BY <1>2, <2>8 DEF DeleteOldApp, FindGroup, ReadApp, DropTunnel
  <2> QED
    BY <2>3, <2>4, <2>5, <2>6, <2>7, <2>8 DEF TunnelWork
<1> QED
  BY <1>3, <1>4, <1>5 DEF TunnelAtWork

LEMMA TunnelAtWorkStep == TunnelIInv /\ TunnelAtWork /\ [TunnelsNext]_tunnelVars => TunnelAtWork'
<1> SUFFICES ASSUME TunnelIInv, TunnelAtWork, [TunnelsNext]_tunnelVars PROVE TunnelAtWork'
  OBVIOUS
<1>1. ASSUME NEW a \in Admin, TunnelBegin(a) \/ TunnelWork(a) PROVE TunnelAtWork'
  BY <1>1, TunnelAtWorkBegin, TunnelAtWorkWork
<1> USE DEF TunnelAtWork, OneOnTunnel, TunnelAsked, TunnelProgress, TunnelRunning, Idle, admins
<1>2. CASE SetupEnds
  <2>1. PICK t \in setup :
          /\ setup' = {}
          /\ milestone' = milestone \/ milestone[t.by] = "queued"
          /\ UNCHANGED <<apps, admins>>
          /\ setup # {}
    BY <1>2 DEF SetupEnds
  <2> QED
    BY <2>1
<1>5. CASE RemovalEnds
  <2>1. setup # {} /\ setup' = {} /\ UNCHANGED <<milestone, admins>>
    BY <1>5 DEF RemovalEnds
  <2> QED
    BY <2>1
<1>3. CASE AppEnds
  <2>1. PICK p \in apps, s \in {"running", "error", "deleted"} :
          /\ p.state \in {"provisioning", "deleting"}
          /\ apps' = (apps \ {p}) \cup {[p EXCEPT !.state = s]}
          /\ UNCHANGED <<tunnelApp, setup, milestone, admins>>
    BY <1>3 DEF AppEnds
  <2>2. TunnelRunning => TunnelRunning'
    BY <2>1 DEF TunnelRunning
  <2> HIDE DEF TunnelRunning
  <2> QED
    BY <2>1, <2>2
<1>4. CASE UNCHANGED tunnelVars
  BY <1>4 DEF tunnelVars, tunnelOwn
<1> QED
  BY <1>1, <1>2, <1>3, <1>4, <1>5 DEF TunnelsNext, TunnelsFinished

(* The step in which a command on the tunnel ends.                          *)
TunnelEnds ==
    \A a \in Admin :
        EndsSilently(a) /\ ~ overlapped' /\ patient' /\ request[a].op \in {"createTunnel", "resetTunnel"} =>
            /\ \E p \in apps' : p.id \in tunnelApp' /\ p.state = "running"
            /\ \A p \in apps' : p.id \in oldApp[a] => p.state \in {"deleting", "deleted"}

LEMMA TunnelEndsRight == TunnelIInv /\ TunnelAtWork /\ [TunnelsNext]_tunnelVars => TunnelEnds
<1> SUFFICES ASSUME TunnelIInv, TunnelAtWork, [TunnelsNext]_tunnelVars,
                    NEW a \in Admin, EndsSilently(a), ~ overlapped', patient',
                    request[a].op \in {"createTunnel", "resetTunnel"}
             PROVE  /\ \E p \in apps' : p.id \in tunnelApp' /\ p.state = "running"
                    /\ \A p \in apps' : p.id \in oldApp[a] => p.state \in {"deleting", "deleted"}
  BY DEF TunnelEnds
<1>1. /\ stage[a] # "idle" /\ stage'[a] = "idle" /\ a \notin complained'
      /\ stage \in [Admin -> TunnelStage] /\ TunnelsTypeOK /\ complained \subseteq Admin
  BY DEF EndsSilently, Idle, TunnelIInv, TunnelStateOK, AdminsTypeOK
<1>2. TunnelWork(a)
  <2>1. ~ (UNCHANGED admins)
    BY <1>1 DEF admins
  <2>2. ASSUME NEW b \in Admin, TunnelBegin(b) PROVE FALSE
    <3>1. PICK s \in {"submit", "readGroup", "findGroup"} : stage' = [stage EXCEPT ![b] = s]
      BY <2>2, TunnelsAssumption DEF TunnelBegin, Start, Goto, TunnelOp
    <3> QED
      BY <1>1, <3>1
  <2>3. ASSUME NEW b \in Admin \ {a}, TunnelWork(b) PROVE FALSE
    BY <1>1, <2>3, TunnelWorkMoves
  <2> QED
    BY <2>1, <2>2, <2>3 DEF TunnelsNext, TunnelsFinished, SetupEnds, RemovalEnds, AppEnds, tunnelVars
<1>3. ~ overlapped /\ patient
  BY <1>2, TunnelWorkMoves
<1> USE DEF Proceed, Fail, Complain, GiveUp, Goto, TunnelRefused
<1>4. CASE ReadGroup(a) \/ SubmitSetup(a) \/ PollSetup(a) \/ PollApp(a) \/ FindGroup(a) \/ ReadApp(a)
  BY <1>1, <1>4 DEF ReadGroup, SubmitSetup, PollSetup, PollApp, FindGroup, ReadApp
<1>5. CASE ReadTunnel(a)
  <2>1. stage[a] = "readTunnel" /\ oldApp[a] = {} /\ UNCHANGED tunnelOwn
    BY <1>1, <1>5 DEF ReadTunnel
  <2> QED
    BY <1>3, <2>1 DEF TunnelAtWork, TunnelAsked, TunnelProgress, TunnelRunning, tunnelOwn
<1>6. CASE DeleteOldApp(a)
  <2>1. /\ stage[a] = "deleteOldApp" /\ UNCHANGED tunnelApp
        /\ apps' = Deleting(oldApp[a])
    BY <1>1, <1>6 DEF DeleteOldApp
  <2>2. TunnelRunning /\ tunnelApp \cap oldApp[a] = {}
    BY <1>3, <2>1 DEF TunnelAtWork, TunnelProgress, TunnelIInv, TunnelHasMoved, PolledToTheEnd
  <2>3. \E p \in apps' : p.id \in tunnelApp' /\ p.state = "running"
    BY <2>1, <2>2 DEF TunnelRunning, Deleting
  <2>4. ASSUME NEW p \in apps', p.id \in oldApp[a] PROVE p.state \in {"deleting", "deleted"}
    BY <1>1, <2>1, <2>4 DEF TunnelsTypeOK, Deleting
  <2> QED
    BY <2>3, <2>4
<1>7. CASE DropTunnel(a)
  BY <1>7 DEF DropTunnel, TunnelAtWork, TunnelAsked
<1> QED
  BY <1>2, <1>4, <1>5, <1>6, <1>7 DEF TunnelWork

-----------------------------------------------------------------------------
(* The tables of the cache.                                                *)

CacheStateOK == AdminsTypeOK(CacheStage, CacheRequest) /\ CacheTypeOK

(* A command at work is at a table it was asked for, in a stage that table  *)
(* has.                                                                    *)
CachePlaces ==
    \A a \in Admin : ~ Idle(a) =>
        /\ request[a] \in CacheRequest
        /\ stage[a] = "version" => at[a] = 0
        /\ stage[a] # "version" =>
             at[a] \in DOMAIN TablesOf(request[a]) /\ Current(a) \in cacheServer.enabled
        /\ stage[a] \in {"accounts", "ask"} =>
             \/ Syncs[Current(a)].by \in {"ahv", "project"}
             \/ Syncs[Current(a)].by = "ndb" /\ cacheServer.stratos
        /\ stage[a] = "list" => Syncs[Current(a)].by \in {"none", "project"}

OneSyncs == ~ overlapped => \A a, b \in Admin : ~ Idle(a) /\ ~ Idle(b) => a = b

WarnedAreOfAccounts == \A t \in warned : Syncs[t].by = "ahv"

(* The i-th table of r can be relied on once it is filled.                  *)
Reliable(r, i) ==
    TablesOf(r)[i] \in cacheServer.enabled \ warned /\ Fits(TablesOf(r)[i]) /\ Grounded(r, i)

(* The i-th table of the command is right, as far as it can be relied on;   *)
(* those the command has filled are.                                       *)
RightAt(a, i) ==
    Reliable(request[a], i) =>
        tableRows[TablesOf(request[a])[i]] = Wholly(TablesOf(request[a])[i])

AllRight(a) == \A i \in 1..(at[a] - 1) : RightAt(a, i)

FilledBy(a) ==
    \A i \in 1..(at[a] - 1) :
        stage[a] = "clear" \/ TablesOf(request[a])[i] # Current(a) => RightAt(a, i)

(* The one it is at has what the accounts asked so far have, and what the   *)
(* command knows is what they answered.                                    *)
FillingBy(a) ==
    LET t == Current(a)
    IN  /\ stage[a] \in {"accounts", "list"} \/ (stage[a] = "ask" /\ Syncs[t].by = "project")
             => tableRows[t] = {}
        /\ stage[a] = "accounts" => known[a] = {}
        /\ stage[a] = "ask" /\ Syncs[t].by = "project" /\ Fits(t)
             => known[a] \cup toAsk[a] = cacheServer.accounts
        /\ stage[a] = "list" /\ Syncs[t].by = "project" /\ Fits(t) => known[a] = cacheServer.accounts
        /\ stage[a] = "ask" /\ Syncs[t].by # "project" /\ Reliable(request[a], at[a]) =>
             /\ toAsk[a] \subseteq cacheServer.accounts
             /\ tableRows[t] = {e \in Wholly(t) : e.under \notin toAsk[a]}

FilledSoFar ==
    ~ overlapped =>
        \A a \in Admin : ~ Idle(a) /\ a \notin complained /\ stage[a] # "version" =>
            FilledBy(a) /\ FillingBy(a)

CacheIInv == CacheStateOK /\ CachePlaces /\ OneSyncs /\ WarnedAreOfAccounts /\ FilledSoFar

(* What the records and the order of the tables say.                       *)
LEMMA SyncsOK ==
    /\ Table # {}
    /\ {"ndb_timemachine", "ndb_snapshot"} \subseteq Table
    /\ Syncs["ndb_timemachine"] = [by |-> "ndb", whole |-> TRUE, fault |-> "raise", looksUp |-> "nothing"]
    /\ \A t \in Table :
         /\ Syncs[t].by \in {"none", "ahv", "ndb", "project"}
         /\ Syncs[t].by = "project" <=> t = "project"
         /\ Syncs[t].looksUp = "account" <=> t = "project"
         /\ Syncs[t].looksUp = "timeMachine" <=> t = "ndb_snapshot"
         /\ Syncs[t].by = "ndb" => Syncs[t].whole
         /\ t = "ndb_snapshot" => Syncs[t].by = "ndb"
         /\ t = "user_group" => Syncs[t].by = "none"
BY DEF Table, Syncs, Sync, OnePage, AllPages, OfAccounts, OfDatabases, OfPolicies, AccountCache,
   ProviderCache, ResourceTypeCache, AhvClustersCache, AhvVpcsCache, AhvSubnetsCache,
   AhvImagesCache, ProjectCache, EnvironmentCache, DirectoryServiceCache, UsersCache, RolesCache,
   UserGroupCache, AhvNetworkFunctionChain, AppProtectionPolicyCache, PolicyEventCache,
   PolicyAttributesCache, PolicyActionTypeCache, TunnelCache, NDB_DatabaseCache, NDB_ProfileCache,
   NDB_SLACache, NDB_ClusterCache, NDB_TimeMachineCache, NDB_SnapshotCache, NDB_TagCache,
   GlobalVariableCache, DomainsCache

LEMMA SnapshotsLater ==
    \A i \in DOMAIN Registered : Registered[i] = "ndb_snapshot" =>
        \E j \in 1..(i - 1) : Registered[j] = "ndb_timemachine"
<1>1. DOMAIN Registered = 1..28 /\ Registered[24] = "ndb_timemachine"
  BY DEF Registered
<1>2. \A i \in 1..24 : Registered[i] # "ndb_snapshot"
  BY DEF Registered
<1> QED
  BY <1>1, <1>2

LEMMA GroundedMeans ==
    ASSUME NEW r, NEW i \in Nat \ {0}, i \in DOMAIN TablesOf(r), TablesOf(r)[i] = "ndb_snapshot", Grounded(r, i)
    PROVE  /\ "ndb_timemachine" \in cacheServer.enabled
           /\ \E j \in 1..(i - 1) : TablesOf(r)[j] = "ndb_timemachine"
<1>1. CASE r.op = "updateCache"
  BY <1>1, SnapshotsLater DEF Grounded, TablesOf
<1>2. CASE r.op # "updateCache"
  BY <1>2 DEF Grounded, TablesOf
<1> QED
  BY <1>1, <1>2

(* What is said of the server holds as long as the server stays the same.   *)
LEMMA ServerStays ==
    ASSUME cacheServer' = cacheServer
    PROVE  /\ \A t \in Table : Wholly(t)' = Wholly(t)
           /\ \A t \in Table : Fits(t)' <=> Fits(t)
           /\ \A r, i : Grounded(r, i)' <=> Grounded(r, i)
<1>1. \A t \in Table : Held(t)' = Held(t)
  BY DEF Held
<1>2. \A t \in Table : Wholly(t)' = Wholly(t)
  <2>1. \A t \in Table :
          {IF e.under \in cacheServer.accounts THEN e ELSE [e EXCEPT !.under = 0] : e \in Held(t)}'
            = {IF e.under \in cacheServer.accounts THEN e ELSE [e EXCEPT !.under = 0] : e \in Held(t)}
    BY <1>1, Zenon
  <2>2. Held("ndb_timemachine")' = Held("ndb_timemachine")
    BY <1>1, SyncsOK
  <2>3. \A t \in Table :
          {e \in Held(t) : \E m \in Held("ndb_timemachine") : m.id = e.id}'
            = {e \in Held(t) : \E m \in Held("ndb_timemachine") : m.id = e.id}
    BY <1>1, <2>2
  <2>4. \A t \in Table : {e \in Held(t) : e.under # 0}' = {e \in Held(t) : e.under # 0}
    BY <1>1
  <2>5. \A t \in Table : Belonging(t, Held(t))' = Belonging(t, Held(t))
    BY <1>1 DEF Belonging
  <2> QED
    BY <1>1, <2>1, <2>3, <2>4, <2>5 DEF Wholly
<1>3. \A t \in Table : AccountListings(t)' = AccountListings(t)
  BY DEF AccountListings
<1>4. \A t \in Table : Fits(t)' <=> Fits(t)
  BY <1>1, <1>3 DEF Fits
<1> QED
  BY <1>2, <1>4 DEF Grounded

(* The next table is begun, or the command ends.                           *)
Moved(a) ==
    \E j \in (at[a] + 1)..(Len(TablesOf(request[a])) + 1) :
        /\ NextEnabled(TablesOf(request[a]), at[a], j)
        /\ at' = [at EXCEPT ![a] = j]
        /\ stage' = [stage EXCEPT ![a] = IF j <= Len(TablesOf(request[a])) THEN "clear" ELSE "idle"]

LEMMA NextTableMoves ==
    ASSUME NEW a
    PROVE  /\ NextTable(a, Proceed) =>
                 Moved(a) /\ UNCHANGED <<request, started, complained, patient, overlapped>>
           /\ NextTable(a, Complain) =>
                 /\ Moved(a) /\ complained' = complained \cup {a}
                 /\ UNCHANGED <<request, started, patient, overlapped>>
BY DEF NextTable, Moved, Proceed, Complain, Goto

LEMMA FailsComplains ==
    ASSUME NEW a, TableFails(a)
    PROVE  /\ a \in complained' /\ complained' = complained \cup {a}
           /\ Moved(a) \/ (stage' = [stage EXCEPT ![a] = "idle"] /\ UNCHANGED at)
           /\ UNCHANGED <<request, started, patient, overlapped>>
BY NextTableMoves DEF TableFails, Fail, Complain, Goto

LEMMA AfterAccountsGoes ==
    ASSUME NEW a
    PROVE  /\ AfterAccounts(a, Proceed) =>
                 /\ \/ toAsk'[a] # {} /\ stage' = [stage EXCEPT ![a] = "ask"] /\ UNCHANGED at
                    \/ /\ toAsk'[a] = {} /\ Syncs[Current(a)].by = "project"
                       /\ stage' = [stage EXCEPT ![a] = "list"] /\ UNCHANGED at
                    \/ toAsk'[a] = {} /\ Syncs[Current(a)].by # "project" /\ Moved(a)
                 /\ UNCHANGED <<request, started, complained, patient, overlapped>>
           /\ AfterAccounts(a, Complain) =>
                 /\ \/ stage' = [stage EXCEPT ![a] = "ask"] /\ UNCHANGED at
                    \/ Syncs[Current(a)].by = "project" /\ stage' = [stage EXCEPT ![a] = "list"] /\ UNCHANGED at
                    \/ Moved(a)
                 /\ complained' = complained \cup {a}
                 /\ UNCHANGED <<request, started, patient, overlapped>>
BY NextTableMoves DEF AfterAccounts, Proceed, Complain, Goto

(* A step of a command leaves the others alone.                            *)
CacheFrame(a) ==
    /\ stage[a] # "idle"
    /\ \/ \E s \in CacheStage \ {"version"} : stage' = [stage EXCEPT ![a] = s] /\ UNCHANGED at
       \/ Moved(a)
    /\ complained' = complained \/ complained' = complained \cup {a}
    /\ UNCHANGED <<request, started, patient, overlapped, cacheServer>>
    /\ \A b \in Admin \ {a} : toAsk'[b] = toAsk[b] /\ known'[b] = known[b]

LEMMA CacheWorkFrame ==
    ASSUME CacheStateOK, NEW a \in Admin, CacheWork(a) PROVE CacheFrame(a)
<1> USE NextTableMoves, FailsComplains, AfterAccountsGoes
    DEF CacheFrame, CacheStage, CacheStateOK, CacheTypeOK, Proceed, Fail, Complain, Goto
<1>1. CASE GetVersion(a)
  BY <1>1 DEF GetVersion
<1>2. CASE ClearTable(a)
  BY <1>2 DEF ClearTable
<1>3. CASE ListAccounts(a)
  BY <1>3 DEF ListAccounts
<1>4. CASE AskAccount(a)
  BY <1>4 DEF AskAccount
<1>5. CASE ListEntities(a)
  BY <1>5 DEF ListEntities
<1> QED
  BY <1>1, <1>2, <1>3, <1>4, <1>5 DEF CacheWork

(* A command at work is at a table of the server.                          *)
LEMMA AtTable ==
    ASSUME CacheStateOK, CachePlaces, NEW a \in Admin, ~ Idle(a)
    PROVE  /\ request[a] \in CacheRequest /\ TablesOf(request[a]) \in Seq(Table) /\ at[a] \in Nat
           /\ cacheServer.accounts \subseteq Nat
           /\ \A t \in Table : Held(t) \subseteq CacheRow
           /\ stage[a] # "version" =>
                /\ at[a] \in 1..Len(TablesOf(request[a])) /\ at[a] \in DOMAIN TablesOf(request[a])
                /\ Current(a) \in Table /\ Current(a) = TablesOf(request[a])[at[a]]
<1>1. request[a] \in CacheRequest /\ TablesOf(request[a]) \in Seq(Table) /\ at[a] \in Nat
  BY CacheAssumption DEF CachePlaces, CacheStateOK, CacheTypeOK
<1>2. cacheServer.accounts \subseteq Nat /\ \A t \in Table : Held(t) \subseteq CacheRow
  BY CacheAssumption DEF CacheStateOK, CacheTypeOK, Held
<1>3. ASSUME stage[a] # "version" PROVE at[a] \in DOMAIN TablesOf(request[a])
  BY <1>3 DEF CachePlaces
<1> QED
  BY <1>1, <1>2, <1>3 DEF Current

LEMMA ListingsAreOf ==
    ASSUME NEW t, NEW S PROVE Listings(t, S) \subseteq SUBSET S
BY DEF Listings, Pages

LEMMA AccountListingsAreOf ==
    ASSUME NEW t PROVE AccountListings(t) \subseteq SUBSET cacheServer.accounts
<1>1. Pages(cacheServer.accounts) \subseteq SUBSET cacheServer.accounts
  BY DEF Pages
<1> QED
  BY <1>1 DEF AccountListings

LEMMA RowsAreRows ==
    ASSUME NEW t, NEW P \in SUBSET CacheRow, NEW lost PROVE RowsFor(t, P, lost) \subseteq CacheRow
<1>1. \A e \in CacheRow : [e EXCEPT !.under = 0] \in CacheRow
  BY DEF CacheRow
<1> QED
  BY <1>1 DEF RowsFor

(* The types of what a step changes.                                       *)
LEMMA CacheWorkTypes ==
    ASSUME CacheStateOK, CachePlaces, NEW a \in Admin, CacheWork(a) PROVE CacheStateOK'
<1>1. CacheFrame(a)
  BY CacheWorkFrame
<1>2. at' \in [Admin -> Nat] /\ \E s \in CacheStage : stage' = [stage EXCEPT ![a] = s]
  <2>1. CASE Moved(a)
    <3>1. PICK j \in Nat : at' = [at EXCEPT ![a] = j]
      <4>1. \A j \in (at[a] + 1)..(Len(TablesOf(request[a])) + 1) : j \in Nat
        BY DEF CacheStateOK, CacheTypeOK
      <4> QED
        BY <2>1, <4>1 DEF Moved
    <3> QED
      BY <2>1, <3>1 DEF Moved, CacheStage, CacheStateOK, CacheTypeOK
  <2> QED
    BY <1>1, <2>1 DEF CacheFrame, CacheStateOK, CacheTypeOK
<1>3. AdminsTypeOK(CacheStage, CacheRequest)'
  BY <1>1, <1>2 DEF CacheFrame, CacheStateOK, AdminsTypeOK
<1>4. toAsk' \in [Admin -> SUBSET Nat] /\ known' \in [Admin -> SUBSET Nat] /\ warned' \subseteq Table
      /\ tableRows' \in [Table -> SUBSET CacheRow]
  <2> DEFINE t == Current(a)
  <2>0. /\ cacheServer.accounts \subseteq Nat
        /\ stage[a] # "version" => t \in Table /\ Held(t) \subseteq CacheRow
    BY <1>1, AtTable DEF CacheFrame, Idle
  <2>1. toAsk \in [Admin -> SUBSET Nat] /\ known \in [Admin -> SUBSET Nat] /\ warned \subseteq Table
        /\ tableRows \in [Table -> SUBSET CacheRow]
    BY DEF CacheStateOK, CacheTypeOK
  <2>2. CASE GetVersion(a)
    BY <2>1, <2>2 DEF GetVersion
  <2>3. CASE ClearTable(a)
    BY <2>0, <2>1, <2>3 DEF ClearTable
  <2>4. CASE ListAccounts(a)
    <3>1. /\ toAsk' = toAsk \/ \E P \in AccountListings(t) : toAsk' = [toAsk EXCEPT ![a] = P]
          /\ UNCHANGED <<tableRows, known, warned>>
      BY <2>4 DEF ListAccounts
    <3>2. AccountListings(t) \subseteq SUBSET Nat
      BY <2>0, AccountListingsAreOf
    <3> QED
      BY <2>1, <3>1, <3>2
  <2>5. CASE AskAccount(a)
    <3>1. PICK c \in toAsk[a] :
            /\ \/ tableRows' = tableRows
               \/ \E P \in Listings(t, {e \in Held(t) : e.under = c}) :
                    tableRows' = [tableRows EXCEPT ![t] = @ \cup KeptOf(t, P)]
            /\ toAsk' \in {toAsk, [toAsk EXCEPT ![a] = @ \ {c}]}
            /\ known' \in {known, [known EXCEPT ![a] = @ \cup {c}]}
            /\ warned' \in {warned, warned \cup {t}}
      BY <2>5 DEF AskAccount
    <3>2. stage[a] # "version" /\ c \in Nat
      BY <2>1, <2>5 DEF AskAccount
    <3>3. \A P \in Listings(t, {e \in Held(t) : e.under = c}) : KeptOf(t, P) \subseteq CacheRow
      BY <2>0, <3>2, ListingsAreOf DEF KeptOf, Belonging
    <3> HIDE DEF t
    <3>4. toAsk' \in [Admin -> SUBSET Nat]
      BY <2>1, <3>1, <3>2
    <3>5. known' \in [Admin -> SUBSET Nat]
      BY <2>1, <3>1, <3>2
    <3>6. warned' \subseteq Table
      BY <2>0, <2>1, <3>1, <3>2
    <3>7. tableRows' \in [Table -> SUBSET CacheRow]
      BY <2>0, <2>1, <3>1, <3>2, <3>3
    <3> QED
      BY <3>4, <3>5, <3>6, <3>7
  <2>6. CASE ListEntities(a)
    <3>1. /\ \/ tableRows' = tableRows
             \/ \E Q \in SUBSET Held(t) : \E lost :
                    tableRows' = [tableRows EXCEPT ![t] = @ \cup RowsFor(t, Q, lost)]
          /\ UNCHANGED <<toAsk, known, warned>>
      <4>1. \A P \in Listings(t, Held(t)) : P \in SUBSET Held(t) /\ Belonging(t, P) \in SUBSET Held(t)
        BY ListingsAreOf DEF Belonging
      <4> QED
        BY <2>6, <4>1 DEF ListEntities
    <3>2. stage[a] # "version"
      BY <2>6 DEF ListEntities
    <3>3. \A Q \in SUBSET Held(t) : \A lost : RowsFor(t, Q, lost) \subseteq CacheRow
      BY <2>0, <3>2, RowsAreRows
    <3> HIDE DEF t
    <3> QED
      BY <2>0, <2>1, <3>1, <3>2, <3>3
  <2> QED
    BY <2>2, <2>3, <2>4, <2>5, <2>6 DEF CacheWork
<1> QED
  BY <1>1, <1>2, <1>3, <1>4 DEF CacheStateOK, CacheTypeOK, CacheFrame

LEMMA CacheInitOK == CacheInit => CacheIInv
<1> SUFFICES ASSUME CacheInit PROVE CacheIInv
  OBVIOUS
<1> USE DEF CacheInit, AdminsInit, CacheStart
<1>1. AdminsTypeOK(CacheStage, CacheRequest)
  BY DEF AdminsTypeOK, CacheStage
<1>2. CacheTypeOK
  BY DEF CacheTypeOK, CacheRow
<1> QED
  BY <1>1, <1>2 DEF CacheIInv, CacheStateOK, CachePlaces, OneSyncs, WarnedAreOfAccounts,
     FilledSoFar, Idle

(* A new command overlaps with whatever is at work.                        *)
LEMMA CacheBeginKeeps ==
    ASSUME CacheIInv, NEW a \in Admin, CacheBegin(a) PROVE CacheIInv'
<1> USE DEF CacheIInv, CacheStateOK
<1>1. PICK r \in CacheRequest, s \in {"version", "clear"}, i \in Nat :
        /\ stage' = [stage EXCEPT ![a] = s]
        /\ request' = [request EXCEPT ![a] = r]
        /\ at' = [at EXCEPT ![a] = i]
        /\ s = "version" => i = 0
        /\ s = "clear" => /\ i \in DOMAIN TablesOf(r) /\ TablesOf(r)[i] \in cacheServer.enabled
                          /\ NextEnabled(TablesOf(r), 0, i)
  <2>1. PICK r \in CacheRequest :
         IF r.op = "updateCache"
           THEN Start(a, r, "version", CacheClash) /\ at' = [at EXCEPT ![a] = 0]
           ELSE \E i \in DOMAIN r.tables :
                  /\ r.tables[i] \in cacheServer.enabled
                  /\ NextEnabled(r.tables, 0, i)
                  /\ Start(a, r, "clear", CacheClash)
                  /\ at' = [at EXCEPT ![a] = i]
    BY DEF CacheBegin
  <2>2. TablesOf(r) \in Seq(Table)
    BY CacheAssumption
  <2>3. CASE r.op = "updateCache"
    BY <2>1, <2>3 DEF Start, Goto
  <2>4. CASE r.op # "updateCache"
    <3>1. TablesOf(r) = r.tables /\ DOMAIN r.tables \subseteq Nat
      BY <2>2, <2>4 DEF TablesOf
    <3> QED
      BY <2>1, <2>4, <3>1 DEF Start, Goto
  <2> QED
    BY <2>3, <2>4
<1>2. /\ stage[a] = "idle"
      /\ started' = started + 1 /\ complained' = complained \ {a} /\ UNCHANGED patient
      /\ overlapped' = (overlapped \/ \E b \in Admin \ {a} : ~ Idle(b))
      /\ UNCHANGED <<cacheServer, tableRows, toAsk, known, warned>>
  BY DEF CacheBegin, Start, CacheClash, Idle
<1>3. AdminsTypeOK(CacheStage, CacheRequest)' /\ CacheTypeOK'
  BY <1>1, <1>2 DEF AdminsTypeOK, CacheStage, CacheTypeOK
<1>4. \A b \in Admin \ {a} : stage'[b] = stage[b] /\ request'[b] = request[b] /\ at'[b] = at[b]
  BY <1>1 DEF AdminsTypeOK, CacheTypeOK
<1>5. stage'[a] \in {"version", "clear"} /\ request'[a] = r /\ at'[a] = i /\ stage'[a] = s
  BY <1>1 DEF AdminsTypeOK, CacheTypeOK
<1>6. CachePlaces'
  BY <1>1, <1>2, <1>4, <1>5 DEF CachePlaces, Current, Idle
<1>7. OneSyncs' /\ WarnedAreOfAccounts'
  BY <1>2, <1>4 DEF OneSyncs, WarnedAreOfAccounts, Idle
<1>8. FilledSoFar'
  <2> SUFFICES ASSUME ~ overlapped', NEW b \in Admin, stage'[b] # "idle", stage'[b] # "version"
               PROVE  FilledBy(b)' /\ FillingBy(b)'
    BY DEF FilledSoFar, Idle
  <2>1. b = a /\ s = "clear"
    BY <1>2, <1>4, <1>5 DEF Idle
  <2>2. \A k \in 1..(i - 1) : TablesOf(r)[k] \notin cacheServer.enabled
    BY <1>1, <2>1 DEF NextEnabled
  <2> QED
    BY <1>2, <1>5, <2>1, <2>2 DEF FilledBy, RightAt, Reliable, FillingBy
<1> QED
  BY <1>3, <1>6, <1>7, <1>8

(* A command at work stays at a table it was asked for.                    *)
LEMMA MovedIsAtTable ==
    ASSUME CacheStateOK, CachePlaces, NEW a \in Admin, ~ Idle(a), Moved(a), UNCHANGED <<request, cacheServer>>
    PROVE  /\ \A b \in Admin \ {a} : stage'[b] = stage[b] /\ at'[b] = at[b]
           /\ stage'[a] \in {"clear", "idle"}
           /\ at'[a] \in Nat /\ at'[a] > at[a]
           /\ stage'[a] = "clear" =>
                /\ at'[a] \in DOMAIN TablesOf(request[a])
                /\ TablesOf(request[a])[at'[a]] \in cacheServer.enabled
           /\ stage'[a] = "idle" => at'[a] = Len(TablesOf(request[a])) + 1
           /\ \A k \in (at[a] + 1)..(at'[a] - 1) : TablesOf(request[a])[k] \notin cacheServer.enabled
<1> DEFINE ts == TablesOf(request[a])
<1>1. ts \in Seq(Table) /\ at[a] \in Nat
  BY AtTable
<1>2. PICK j \in (at[a] + 1)..(Len(ts) + 1) :
        /\ NextEnabled(ts, at[a], j)
        /\ at' = [at EXCEPT ![a] = j]
        /\ stage' = [stage EXCEPT ![a] = IF j <= Len(ts) THEN "clear" ELSE "idle"]
  BY DEF Moved
<1>3. at'[a] = j /\ stage'[a] = (IF j <= Len(ts) THEN "clear" ELSE "idle")
      /\ \A b \in Admin \ {a} : stage'[b] = stage[b] /\ at'[b] = at[b]
  BY <1>2 DEF CacheStateOK, CacheTypeOK, AdminsTypeOK
<1>4. j \in Nat /\ j > at[a] /\ j <= Len(ts) + 1 /\ Len(ts) \in Nat
  BY <1>1
<1>5. j <= Len(ts) => j \in DOMAIN ts
  BY <1>1, <1>4
<1> HIDE DEF ts
<1>6. /\ \A k \in (at[a] + 1)..(j - 1) : ts[k] \notin cacheServer.enabled
      /\ j <= Len(ts) => ts[j] \in cacheServer.enabled
  BY <1>2 DEF NextEnabled
<1>7. j > Len(ts) => j = Len(ts) + 1
  BY <1>4
<1> QED
  BY <1>3, <1>4, <1>5, <1>6, <1>7 DEF ts

LEMMA CacheWorkPlaces ==
    ASSUME CacheStateOK, CachePlaces, NEW a \in Admin, CacheWork(a) PROVE CachePlaces'
<1>1. CacheFrame(a) /\ ~ Idle(a)
  BY CacheWorkFrame DEF CacheFrame, Idle
<1>2. /\ request' = request /\ cacheServer' = cacheServer
      /\ \A b \in Admin \ {a} : stage'[b] = stage[b] /\ at'[b] = at[b]
  <2>1. CASE Moved(a)
    BY <1>1, <2>1, MovedIsAtTable DEF CacheFrame
  <2>2. CASE ~ Moved(a)
    BY <1>1, <2>2 DEF CacheFrame, CacheStateOK, AdminsTypeOK
  <2> QED
    BY <2>1, <2>2
<1>3. ASSUME Moved(a)
      PROVE  /\ stage'[a] \in {"clear", "idle"}
             /\ stage'[a] = "clear" =>
                  at'[a] \in DOMAIN TablesOf(request[a]) /\ TablesOf(request[a])[at'[a]] \in cacheServer.enabled
  BY <1>1, <1>2, <1>3, MovedIsAtTable
<1> DEFINE Placed(st) ==
        /\ st \in {"accounts", "ask"} =>
             \/ Syncs[Current(a)].by \in {"ahv", "project"}
             \/ Syncs[Current(a)].by = "ndb" /\ cacheServer.stratos
        /\ st = "list" => Syncs[Current(a)].by \in {"none", "project"}
<1>4. stage[a] # "version" => Placed(stage[a]) /\ Current(a) \in cacheServer.enabled
                              /\ at[a] \in DOMAIN TablesOf(request[a])
  BY <1>1 DEF CachePlaces
<1>5. \/ Moved(a)
      \/ stage'[a] = "idle"
      \/ /\ stage[a] # "version" /\ UNCHANGED at
         /\ stage'[a] # "version" /\ Placed(stage'[a])
  <2> USE NextTableMoves, FailsComplains, AfterAccountsGoes
      DEF Proceed, Fail, Complain, Goto, CacheStateOK, AdminsTypeOK
  <2>1. CASE GetVersion(a)
    BY <2>1 DEF GetVersion
  <2>2. CASE ClearTable(a)
    BY <2>2 DEF ClearTable
  <2>3. CASE ListAccounts(a)
    BY <1>4, <2>3 DEF ListAccounts
  <2>4. CASE AskAccount(a)
    BY <1>4, <2>4 DEF AskAccount
  <2>5. CASE ListEntities(a)
    BY <2>5 DEF ListEntities
  <2> QED
    BY <2>1, <2>2, <2>3, <2>4, <2>5 DEF CacheWork
<1>6. stage'[a] # "idle" =>
        /\ stage'[a] # "version"
        /\ at'[a] \in DOMAIN TablesOf(request[a]) /\ Current(a)' \in cacheServer.enabled
        /\ stage'[a] \in {"accounts", "ask"} =>
             \/ Syncs[Current(a)'].by \in {"ahv", "project"}
             \/ Syncs[Current(a)'].by = "ndb" /\ cacheServer.stratos
        /\ stage'[a] = "list" => Syncs[Current(a)'].by \in {"none", "project"}
  BY <1>2, <1>3, <1>4, <1>5 DEF Current
<1>7. \A b \in Admin \ {a} : Current(b)' = Current(b)
  BY <1>2 DEF Current
<1> QED
  BY <1>1, <1>2, <1>6, <1>7 DEF CachePlaces, Idle

LEMMA CacheWorkWarns ==
    ASSUME CacheStateOK, CachePlaces, WarnedAreOfAccounts, NEW a \in Admin, CacheWork(a)
    PROVE  WarnedAreOfAccounts'
BY DEF CacheWork, GetVersion, ClearTable, ListAccounts, AskAccount, ListEntities,
   WarnedAreOfAccounts

(* When a command takes its next table and this one is right, so are all it *)
(* has gone through.                                                       *)
LEMMA TableDone ==
    ASSUME CacheStateOK, CachePlaces, NEW a \in Admin, ~ Idle(a), stage[a] # "version",
           FilledBy(a), Moved(a), UNCHANGED <<request, cacheServer>>,
           \A t \in Table \ {Current(a)} : tableRows'[t] = tableRows[t] /\ (t \in warned' <=> t \in warned),
           Fits(Current(a)) /\ Current(a) \notin warned' /\ Grounded(request[a], at[a])
             => tableRows'[Current(a)] = Wholly(Current(a))
    PROVE  AllRight(a)'
<1> DEFINE r == request[a]  ts == TablesOf(r)
<1>1. /\ r \in CacheRequest /\ ts \in Seq(Table)
      /\ at[a] \in 1..Len(ts) /\ Current(a) = ts[at[a]] /\ Current(a) \in Table
  BY AtTable
<1>2. at'[a] \in Nat /\ at'[a] <= Len(ts) + 1
      /\ \A k \in (at[a] + 1)..(at'[a] - 1) : ts[k] \notin cacheServer.enabled
  <2>1. stage'[a] = "clear" => at'[a] \in DOMAIN ts
    BY MovedIsAtTable
  <2> QED
    BY <1>1, <2>1, MovedIsAtTable
<1> SUFFICES ASSUME NEW i \in 1..(at'[a] - 1), Reliable(request[a], i)'
             PROVE  tableRows'[ts[i]] = Wholly(ts[i])'
  BY DEF AllRight, RightAt
<1>3. i \in 1..Len(ts) /\ ts[i] \in Table
  BY <1>1, <1>2
<1>4. /\ ts[i] \in cacheServer.enabled \ warned' /\ Fits(ts[i]) /\ Grounded(r, i)
      /\ Wholly(ts[i])' = Wholly(ts[i])
  BY <1>3, ServerStays DEF Reliable
<1>5. CASE i > at[a]
  BY <1>1, <1>2, <1>4, <1>5
<1>6. CASE i <= at[a] /\ ts[i] = Current(a)
  <2>1. Grounded(r, at[a])
    BY <1>1, <1>3, <1>4, <1>6 DEF Grounded
  <2> QED
    BY <1>4, <1>6, <2>1
<1>7. CASE i <= at[a] /\ ts[i] # Current(a)
  <2>1. i \in 1..(at[a] - 1)
    BY <1>1, <1>3, <1>7
  <2>2. Reliable(r, i)
    BY <1>3, <1>4, <1>7 DEF Reliable
  <2>3. tableRows[ts[i]] = Wholly(ts[i])
    BY <1>7, <2>1, <2>2 DEF FilledBy, RightAt
  <2> QED
    BY <1>3, <1>4, <1>7, <2>3
<1> QED
  BY <1>1, <1>3, <1>5, <1>6, <1>7

(* The tables a command has gone through stay right while it fills the next.*)
LEMMA OthersStay ==
    ASSUME CacheStateOK, CachePlaces, NEW a \in Admin, ~ Idle(a), stage[a] # "version",
           FilledBy(a), stage'[a] # "clear", UNCHANGED <<at, request, cacheServer>>,
           \A t \in Table \ {Current(a)} : tableRows'[t] = tableRows[t] /\ (t \in warned' <=> t \in warned)
    PROVE  FilledBy(a)'
<1> DEFINE r == request[a]  ts == TablesOf(r)
<1>1. ts \in Seq(Table) /\ at[a] \in 1..Len(ts) /\ Current(a) = ts[at[a]]
  BY AtTable
<1> SUFFICES ASSUME NEW i \in 1..(at[a] - 1), ts[i] # Current(a), Reliable(r, i)'
             PROVE  tableRows'[ts[i]] = Wholly(ts[i])'
  BY DEF FilledBy, RightAt, Current
<1>2. i \in 1..Len(ts) /\ ts[i] \in Table
  BY <1>1
<1>3. Reliable(r, i) /\ Wholly(ts[i])' = Wholly(ts[i])
  BY <1>2, ServerStays DEF Reliable
<1>4. tableRows[ts[i]] = Wholly(ts[i])
  BY <1>3 DEF FilledBy, RightAt
<1> QED
  BY <1>2, <1>3, <1>4

(* What a step of a command that has logged no error leaves behind.        *)
FillsOn(a) ==
    \/ Moved(a) /\ AllRight(a)'
    \/ UNCHANGED at /\ FilledBy(a)' /\ FillingBy(a)'

(* What the lemmas about the steps of such a command start from.           *)
Filling(a) ==
    CacheIInv /\ ~ overlapped /\ ~ Idle(a) /\ a \notin complained
    /\ CacheFrame(a) /\ a \notin complained'

LEMMA FillingMeans ==
    ASSUME NEW a \in Admin, Filling(a)
    PROVE  /\ CacheStateOK /\ CachePlaces /\ ~ Idle(a)
           /\ UNCHANGED <<request, cacheServer>>
           /\ stage[a] # "version" => FilledBy(a) /\ FillingBy(a)
           /\ stage[a] # "version" => at[a] \in DOMAIN TablesOf(request[a])
                                      /\ Current(a) \in Table /\ Current(a) \in cacheServer.enabled
BY AtTable DEF Filling, CacheFrame, CacheIInv, FilledSoFar, CachePlaces

LEMMA GetVersionFills ==
    ASSUME NEW a \in Admin, Filling(a), GetVersion(a) PROVE FillsOn(a)
<1>1. CacheStateOK /\ CachePlaces /\ ~ Idle(a) /\ UNCHANGED <<request, cacheServer>> /\ at[a] = 0
  BY FillingMeans DEF GetVersion, CachePlaces
<1>2. Moved(a)
  BY NextTableMoves DEF GetVersion, Filling, CacheStateOK, AdminsTypeOK, Fail, Complain
<1>3. \A k \in 1..(at'[a] - 1) : TablesOf(request[a])[k] \notin cacheServer.enabled
  BY <1>1, <1>2, MovedIsAtTable
<1> QED
  BY <1>1, <1>2, <1>3 DEF FillsOn, AllRight, RightAt, Reliable

LEMMA ClearTableFills ==
    ASSUME NEW a \in Admin, Filling(a), ClearTable(a) PROVE FillsOn(a)
<1>1. /\ CacheStateOK /\ CachePlaces /\ ~ Idle(a) /\ UNCHANGED <<request, cacheServer>>
      /\ FilledBy(a) /\ Current(a) \in Table /\ stage[a] = "clear"
  BY FillingMeans DEF ClearTable
<1>2. /\ tableRows' = [tableRows EXCEPT ![Current(a)] = {}]
      /\ warned' = warned \ {Current(a)}
      /\ known' = [known EXCEPT ![a] = {}]
      /\ \/ Syncs[Current(a)].by = "ndb" /\ ~ cacheServer.stratos /\ Moved(a)
         \/ Syncs[Current(a)].by = "none" /\ stage' = [stage EXCEPT ![a] = "list"] /\ UNCHANGED at
         \/ stage' = [stage EXCEPT ![a] = "accounts"] /\ UNCHANGED at
  BY NextTableMoves, FailsComplains DEF ClearTable, Filling, Proceed, Goto
<1>3. /\ tableRows'[Current(a)] = {} /\ known'[a] = {}
      /\ \A t \in Table \ {Current(a)} : tableRows'[t] = tableRows[t] /\ (t \in warned' <=> t \in warned)
  BY <1>1, <1>2 DEF CacheStateOK, CacheTypeOK
<1>4. CASE Syncs[Current(a)].by = "ndb" /\ ~ cacheServer.stratos /\ Moved(a)
  <2>1. Wholly(Current(a)) = {}
    BY <1>4 DEF Wholly
  <2> QED
    BY <1>1, <1>3, <1>4, <2>1, TableDone DEF FillsOn
<1>5. CASE \/ Syncs[Current(a)].by = "none" /\ stage' = [stage EXCEPT ![a] = "list"] /\ UNCHANGED at
           \/ stage' = [stage EXCEPT ![a] = "accounts"] /\ UNCHANGED at
  <2>1. stage'[a] \in {"list", "accounts"} /\ UNCHANGED at
        /\ (stage'[a] = "list" => Syncs[Current(a)].by = "none")
    BY <1>1, <1>5 DEF CacheStateOK, AdminsTypeOK
  <2>2. FilledBy(a)'
    BY <1>1, <1>3, <2>1, OthersStay
  <2>3. Current(a)' = Current(a)
    BY <1>1, <2>1 DEF Current
  <2>4. FillingBy(a)'
    BY <1>3, <2>1, <2>3 DEF FillingBy
  <2> QED
    BY <2>1, <2>2, <2>4 DEF FillsOn
<1> QED
  BY <1>2, <1>4, <1>5

(* A table that is filled account by account is to list what it has of them,*)
(* in the case of the snapshots what has a time machine.                   *)
LEMMA WhollyOfAccounts ==
    ASSUME CacheStateOK, NEW t \in Table, Syncs[t].by \in {"ahv", "ndb"},
           Syncs[t].by = "ndb" => cacheServer.stratos
    PROVE  /\ Wholly(t) = IF t = "ndb_snapshot"
                            THEN {e \in Held(t) : \E m \in Held("ndb_timemachine") : m.id = e.id}
                            ELSE Belonging(t, Held(t))
           /\ \A e \in Wholly(t) : e.under \in cacheServer.accounts
<1>1. t # "user_group" /\ t # "project"
  BY SyncsOK
<1>2. \A e \in Held(t) : e.under \in cacheServer.accounts
  BY CacheAssumption DEF CacheStateOK, CacheTypeOK, Held
<1> QED
  BY <1>1, <1>2 DEF Wholly, Belonging

LEMMA ListAccountsFills ==
    ASSUME NEW a \in Admin, Filling(a), ListAccounts(a) PROVE FillsOn(a)
<1> DEFINE t == Current(a)
<1>1. /\ CacheStateOK /\ CachePlaces /\ ~ Idle(a) /\ UNCHANGED <<request, cacheServer>>
      /\ FilledBy(a) /\ FillingBy(a) /\ t \in Table /\ stage[a] = "accounts"
  BY FillingMeans DEF ListAccounts
<1>2. PICK P \in AccountListings(t) : toAsk' = [toAsk EXCEPT ![a] = P]
  BY FailsComplains DEF ListAccounts, Filling
<1>3. AfterAccounts(a, Proceed)
  BY FailsComplains DEF ListAccounts, Filling
<1>4. UNCHANGED <<tableRows, known, warned>>
  BY DEF ListAccounts
<1>5. toAsk'[a] = P /\ tableRows[t] = {} /\ known[a] = {} /\ P \subseteq cacheServer.accounts
  BY <1>1, <1>2, AccountListingsAreOf DEF FillingBy, CacheStateOK, CacheTypeOK
<1>6. Fits(t) => P = cacheServer.accounts
  BY <1>2 DEF Fits
<1>7. /\ t = "project" <=> Syncs[t].by = "project"
      /\ t # "project" => Syncs[t].by \in {"ahv", "ndb"} /\ (Syncs[t].by = "ndb" => cacheServer.stratos)
  BY <1>1, SyncsOK DEF CachePlaces
<1>8. CASE toAsk'[a] = {} /\ Syncs[t].by # "project" /\ Moved(a)
  <2>1. Fits(t) => tableRows'[t] = Wholly(t)
    BY <1>1, <1>4, <1>5, <1>6, <1>7, <1>8, WhollyOfAccounts
  <2> QED
    BY <1>1, <1>4, <1>8, <2>1, TableDone DEF FillsOn
<1>9. CASE \/ P # {} /\ stage' = [stage EXCEPT ![a] = "ask"] /\ UNCHANGED at
           \/ P = {} /\ Syncs[t].by = "project" /\ stage' = [stage EXCEPT ![a] = "list"] /\ UNCHANGED at
  <2>1. /\ UNCHANGED at
        /\ stage'[a] = "ask" \/ (stage'[a] = "list" /\ P = {} /\ Syncs[t].by = "project")
    BY <1>1, <1>9 DEF CacheStateOK, AdminsTypeOK
  <2>2. FilledBy(a)'
    BY <1>1, <1>4, <2>1, OthersStay
  <2>3. Current(a)' = Current(a)
    BY <1>1, <2>1 DEF Current
  <2>6. (Fits(t)' <=> Fits(t)) /\ Wholly(t)' = Wholly(t) /\ (Reliable(request[a], at[a])' => Fits(t))
    <3>1. (\A u \in Table : Fits(u)' <=> Fits(u)) /\ (\A u \in Table : Wholly(u)' = Wholly(u))
      BY <1>1, ServerStays
    <3>2. (Reliable(request[a], at[a]))' => Fits(Current(a))'
      BY DEF Reliable, Current
    <3> QED
      BY <1>1, <2>3, <3>1, <3>2
  <2>4. Fits(t) /\ t # "project" => {e \in Wholly(t) : e.under \notin P} = {}
    BY <1>1, <1>6, <1>7, WhollyOfAccounts
  <2>5. FillingBy(a)'
    BY <1>1, <1>4, <1>5, <1>6, <2>1, <2>3, <2>4, <2>6, <1>7 DEF FillingBy
  <2> QED
    BY <2>1, <2>2, <2>5 DEF FillsOn
<1> QED
  BY <1>3, <1>5, <1>8, <1>9, AfterAccountsGoes

(* Time machines come before the snapshots that are looked up among them,   *)
(* and their table is right when the command gets to that of the snapshots. *)
LEMMA TimeMachinesKnown ==
    ASSUME CacheStateOK, CachePlaces, WarnedAreOfAccounts, NEW a \in Admin, ~ Idle(a), stage[a] = "ask",
           FilledBy(a), Current(a) = "ndb_snapshot", Reliable(request[a], at[a])
    PROVE  tableRows["ndb_timemachine"] = Held("ndb_timemachine")
<1> DEFINE r == request[a]  ts == TablesOf(r)  tm == "ndb_timemachine"
<1>1. /\ ts \in Seq(Table) /\ at[a] \in 1..Len(ts) /\ Current(a) = ts[at[a]]
      /\ at[a] \in Nat \ {0} /\ at[a] \in DOMAIN ts
  BY AtTable
<1>2. /\ tm \in Table /\ "ndb_snapshot" \in Table /\ tm \notin {"ndb_snapshot", "user_group", "project", "ahv_cluster", "environment"}
      /\ Syncs[tm].by = "ndb" /\ Syncs[tm].whole /\ Syncs["ndb_snapshot"].by = "ndb"
  BY SyncsOK
<1>3. tm \in cacheServer.enabled /\ \E j \in 1..(at[a] - 1) : ts[j] = tm
  BY <1>1, GroundedMeans DEF Reliable
<1>4. PICK j \in 1..(at[a] - 1) : ts[j] = tm
  BY <1>3
<1>5. Fits(tm)
  <2>1. Fits("ndb_snapshot")
    BY <1>1 DEF Reliable
  <2>2. AccountListings(tm) = AccountListings("ndb_snapshot")
    BY <1>2 DEF AccountListings
  <2>3. \A S : Listings(tm, S) = {S}
    BY <1>2 DEF Listings
  <2> QED
    BY <1>2, <2>1, <2>2, <2>3 DEF Fits
<1>6. Reliable(r, j)
  <2>1. tm \notin warned
    BY <1>2 DEF WarnedAreOfAccounts
  <2>2. Grounded(r, j)
    BY <1>2, <1>4 DEF Grounded
  <2> QED
    BY <1>3, <1>4, <1>5, <2>1, <2>2 DEF Reliable
<1>7. tableRows[tm] = Wholly(tm)
  BY <1>2, <1>4, <1>6 DEF FilledBy, RightAt
<1>8. cacheServer.stratos
  BY <1>2 DEF CachePlaces
<1> QED
  BY <1>2, <1>7, <1>8 DEF Wholly, Belonging

(* What one more account adds.                                             *)
LEMMA AccountAdds ==
    ASSUME CacheStateOK, CachePlaces, WarnedAreOfAccounts, NEW a \in Admin, ~ Idle(a), stage[a] = "ask",
           FilledBy(a), FillingBy(a), Syncs[Current(a)].by # "project", Reliable(request[a], at[a]),
           NEW c \in toAsk[a], NEW P \in Listings(Current(a), {e \in Held(Current(a)) : e.under = c})
    PROVE  tableRows[Current(a)] \cup KeptOf(Current(a), P)
             = {e \in Wholly(Current(a)) : e.under \notin toAsk[a] \ {c}}
<1> DEFINE t == Current(a)
<1>1. /\ t \in Table /\ Syncs[t].by \in {"ahv", "ndb"} /\ (Syncs[t].by = "ndb" => cacheServer.stratos)
  BY AtTable DEF CachePlaces
<1>2. /\ toAsk[a] \subseteq cacheServer.accounts
      /\ tableRows[t] = {e \in Wholly(t) : e.under \notin toAsk[a]}
      /\ Fits(t)
  BY DEF FillingBy, Reliable, Current
<1>3. P = {e \in Held(t) : e.under = c}
  <2>1. Listings(t, {e \in Held(t) : e.under = c}) = {{e \in Held(t) : e.under = c}}
    BY <1>1, <1>2 DEF Fits
  <2> QED
    BY <2>1
<1>4. KeptOf(t, P) = {e \in Wholly(t) : e.under = c}
  <2>1. CASE t = "ndb_snapshot"
    <3>1. Syncs[t].looksUp = "timeMachine"
      BY <1>1, <2>1, SyncsOK
    <3>2. tableRows["ndb_timemachine"] = Held("ndb_timemachine")
      BY <2>1, TimeMachinesKnown
    <3> QED
      BY <1>1, <1>3, <2>1, <3>1, <3>2, WhollyOfAccounts DEF KeptOf
  <2>2. CASE t # "ndb_snapshot"
    <3>1. Syncs[t].looksUp # "timeMachine"
      BY <1>1, <2>2, SyncsOK
    <3>2. Belonging(t, P) = {e \in Belonging(t, Held(t)) : e.under = c}
      BY <1>3 DEF Belonging
    <3> QED
      BY <1>1, <2>2, <3>1, <3>2, WhollyOfAccounts DEF KeptOf
  <2> QED
    BY <2>1, <2>2
<1> HIDE DEF t
<1> QED
  BY <1>2, <1>4 DEF t

LEMMA AskAccountFills ==
    ASSUME NEW a \in Admin, Filling(a), AskAccount(a) PROVE FillsOn(a)
<1> DEFINE t == Current(a)
<1>1. /\ CacheStateOK /\ CachePlaces /\ ~ Idle(a) /\ UNCHANGED <<request, cacheServer>>
      /\ FilledBy(a) /\ FillingBy(a) /\ t \in Table /\ t \in cacheServer.enabled /\ stage[a] = "ask"
      /\ WarnedAreOfAccounts
  BY FillingMeans DEF AskAccount, Filling, CacheIInv
<1>2. PICK c \in toAsk[a] :
        \/ /\ Syncs[t].by \in {"ahv", "ndb"}
           /\ \E P \in Listings(t, {e \in Held(t) : e.under = c}) :
                tableRows' = [tableRows EXCEPT ![t] = @ \cup KeptOf(t, P)]
           /\ toAsk' = [toAsk EXCEPT ![a] = @ \ {c}]
           /\ AfterAccounts(a, Proceed)
           /\ UNCHANGED <<known, warned>>
        \/ /\ Syncs[t].by = "project"
           /\ toAsk' = [toAsk EXCEPT ![a] = @ \ {c}]
           /\ known' = [known EXCEPT ![a] = @ \cup {c}]
           /\ AfterAccounts(a, Proceed)
           /\ UNCHANGED <<tableRows, warned>>
        \/ /\ Syncs[t].by = "ahv"
           /\ toAsk' = [toAsk EXCEPT ![a] = @ \ {c}]
           /\ warned' = warned \cup {t}
           /\ AfterAccounts(a, Proceed)
           /\ UNCHANGED <<tableRows, known>>
  BY FailsComplains, AfterAccountsGoes DEF AskAccount, Filling, Fail, Complain
<1>3. /\ toAsk'[a] = toAsk[a] \ {c}
      /\ AfterAccounts(a, Proceed)
      /\ \A u \in Table \ {t} : tableRows'[u] = tableRows[u] /\ (u \in warned' <=> u \in warned)
  <2> HIDE DEF t
  <2> QED
    BY <1>1, <1>2 DEF CacheStateOK, CacheTypeOK
<1>4. Syncs[t].by \in {"ahv", "ndb", "project"}
  BY <1>2
<1>5. Syncs[t].by = "project" /\ Fits(t) => known'[a] \cup toAsk'[a] = cacheServer.accounts
  BY <1>1, <1>2, <1>3 DEF FillingBy, CacheStateOK, CacheTypeOK
<1>6. Syncs[t].by = "project" => tableRows'[t] = {}
  BY <1>1, <1>2 DEF FillingBy
<1>7. ASSUME Syncs[t].by # "project", Fits(t), t \notin warned', Grounded(request[a], at[a])
      PROVE  /\ toAsk[a] \subseteq cacheServer.accounts
             /\ tableRows'[t] = {e \in Wholly(t) : e.under \notin toAsk'[a]}
  <2>1. t \notin warned /\ Reliable(request[a], at[a])
    BY <1>1, <1>2, <1>7 DEF Reliable, Current
  <2>2. PICK P \in Listings(t, {e \in Held(t) : e.under = c}) :
          tableRows' = [tableRows EXCEPT ![t] = @ \cup KeptOf(t, P)]
    BY <1>2, <1>7
  <2>3. tableRows'[t] = tableRows[t] \cup KeptOf(t, P)
    BY <1>1, <2>2 DEF CacheStateOK, CacheTypeOK
  <2>4. tableRows[t] \cup KeptOf(t, P) = {e \in Wholly(t) : e.under \notin toAsk[a] \ {c}}
    BY <1>1, <1>7, <2>1, AccountAdds
  <2>5. toAsk[a] \subseteq cacheServer.accounts
    BY <1>1, <1>7, <2>1 DEF FillingBy
  <2> QED
    BY <1>3, <2>3, <2>4, <2>5
<1>8. CASE toAsk'[a] = {} /\ Syncs[t].by # "project" /\ Moved(a)
  <2>1. Fits(t) /\ t \notin warned' /\ Grounded(request[a], at[a]) => tableRows'[t] = Wholly(t)
    BY <1>7, <1>8
  <2> QED
    BY <1>1, <1>3, <1>8, <2>1, TableDone DEF FillsOn
<1>9. CASE \/ stage' = [stage EXCEPT ![a] = "ask"] /\ UNCHANGED at
           \/ /\ toAsk'[a] = {} /\ Syncs[t].by = "project"
              /\ stage' = [stage EXCEPT ![a] = "list"] /\ UNCHANGED at
  <2>1. /\ UNCHANGED at
        /\ stage'[a] = "ask" \/ (stage'[a] = "list" /\ toAsk'[a] = {} /\ Syncs[t].by = "project")
    BY <1>1, <1>9 DEF CacheStateOK, AdminsTypeOK
  <2>2. FilledBy(a)'
    BY <1>1, <1>3, <2>1, OthersStay
  <2>3. Current(a)' = Current(a)
    BY <1>1, <2>1 DEF Current
  <2>4. /\ Fits(t)' <=> Fits(t)
        /\ Wholly(t)' = Wholly(t)
        /\ Reliable(request[a], at[a])' => Fits(t) /\ t \notin warned' /\ Grounded(request[a], at[a])
    <3>1. /\ \A u \in Table : Fits(u)' <=> Fits(u)
          /\ \A u \in Table : Wholly(u)' = Wholly(u)
      BY <1>1, ServerStays
    <3>3. Grounded(request[a], at[a])' <=> Grounded(request[a], at[a])
      BY <1>1, <2>1 DEF Grounded
    <3>2. (Reliable(request[a], at[a]))' =>
             Fits(Current(a))' /\ Current(a)' \notin warned' /\ Grounded(request[a], at[a])'
      BY DEF Reliable, Current
    <3> QED
      BY <1>1, <2>3, <3>1, <3>2, <3>3
  <2>5. FillingBy(a)'
    BY <1>1, <1>3, <1>5, <1>6, <1>7, <2>1, <2>3, <2>4 DEF FillingBy
  <2> QED
    BY <2>1, <2>2, <2>5 DEF FillsOn
<1> QED
  BY <1>3, <1>8, <1>9, AfterAccountsGoes

LEMMA ListEntitiesFills ==
    ASSUME NEW a \in Admin, Filling(a), ListEntities(a) PROVE FillsOn(a)
<1> DEFINE t == Current(a)
<1>1. /\ CacheStateOK /\ CachePlaces /\ ~ Idle(a) /\ UNCHANGED <<request, cacheServer>>
      /\ FilledBy(a) /\ FillingBy(a) /\ t \in Table /\ stage[a] = "list"
  BY FillingMeans DEF ListEntities
<1>2. PICK P \in {Belonging(t, Q) : Q \in Listings(t, Held(t))} :
        /\ tableRows' = [tableRows EXCEPT ![t] = @ \cup RowsFor(t, P, {} \cup Unknown(a, t, P))]
        /\ NextTable(a, Proceed)
  <2>1. ~ TableFails(a) /\ ~ NextTable(a, Complain) /\ ~ Fail(a)
    BY FailsComplains, NextTableMoves DEF Filling, Fail, Complain
  <2>2. \E P \in {Belonging(t, Q) : Q \in Listings(t, Held(t))} :
          \E lost \in SUBSET LookedUp(t, P) :
            /\ tableRows' = [tableRows EXCEPT ![t] = @ \cup RowsFor(t, P, lost \cup Unknown(a, t, P))]
            /\ \/ lost = {} /\ NextTable(a, Proceed)
               \/ lost # {} /\ NextTable(a, Complain)
    BY <2>1, Zenon DEF ListEntities
  <2> QED
    BY <2>1, <2>2
<1>3. Moved(a) /\ UNCHANGED warned
  BY <1>2, NextTableMoves DEF ListEntities
<1>4. /\ \A u \in Table \ {t} : tableRows'[u] = tableRows[u]
      /\ tableRows'[t] = tableRows[t] \cup RowsFor(t, P, Unknown(a, t, P))
  <2> HIDE DEF t
  <2> QED
    BY <1>1, <1>2 DEF CacheStateOK, CacheTypeOK
<1>5. tableRows[t] = {} /\ Syncs[t].by \in {"none", "project"}
  BY <1>1 DEF FillingBy, CachePlaces
<1>6. Fits(t) => P = Belonging(t, Held(t))
  <2>1. Fits(t) => Listings(t, Held(t)) = {Held(t)}
    BY <1>5 DEF Fits
  <2> QED
    BY <1>2, <2>1
<1>7. CASE t = "project" /\ Fits(t)
  <2>1. known[a] = cacheServer.accounts
    BY <1>1, <1>7, SyncsOK DEF FillingBy
  <2>2. Syncs[t].looksUp = "account" /\ Syncs[t].by # "ndb"
    BY <1>1, <1>7, SyncsOK
  <2>0. P = Held(t)
    BY <1>6, <1>7 DEF Belonging
  <2>3. Unknown(a, t, P) = {e.under : e \in Held(t)} \ cacheServer.accounts
    BY <2>0, <2>1, <2>2 DEF Unknown
  <2>4. RowsFor(t, P, Unknown(a, t, P)) =
          {IF e.under \in cacheServer.accounts THEN e ELSE [e EXCEPT !.under = 0] : e \in Held(t)}
    BY <1>7, <2>0, <2>3 DEF RowsFor
  <2> QED
    BY <1>1, <1>3, <1>4, <1>5, <1>7, <2>2, <2>4, TableDone DEF FillsOn, Wholly
<1>8. CASE t # "project" /\ Fits(t)
  <2>1. Unknown(a, t, P) = {} /\ Syncs[t].by = "none" /\ t # "ndb_snapshot"
    BY <1>1, <1>5, <1>8, SyncsOK DEF Unknown
  <2>2. RowsFor(t, P, {}) = {e \in Belonging(t, Held(t)) : t = "user_group" => e.under # 0}
    BY <1>6, <1>8 DEF RowsFor
  <2>3. Wholly(t) = {e \in Belonging(t, Held(t)) : t = "user_group" => e.under # 0}
    BY <1>8, <2>1 DEF Wholly, Belonging
  <2> QED
    BY <1>1, <1>3, <1>4, <1>5, <2>1, <2>2, <2>3, TableDone DEF FillsOn
<1>9. CASE ~ Fits(t)
  BY <1>1, <1>3, <1>4, <1>9, TableDone DEF FillsOn
<1> QED
  BY <1>7, <1>8, <1>9

LEMMA CacheWorkFills ==
    ASSUME CacheIInv, ~ overlapped, NEW a \in Admin, CacheWork(a), a \notin complained, a \notin complained'
    PROVE  FillsOn(a)
<1>1. Filling(a)
  BY CacheWorkFrame DEF Filling, CacheIInv, CacheFrame, Idle
<1> QED
  BY <1>1, GetVersionFills, ClearTableFills, ListAccountsFills, AskAccountFills, ListEntitiesFills
     DEF CacheWork

LEMMA CacheStep == CacheIInv /\ [CacheNext]_cacheVars => CacheIInv'
<1>1. ASSUME CacheIInv, NEW a \in Admin, CacheWork(a) PROVE CacheIInv'
  <2>1. CacheStateOK' /\ CachePlaces' /\ WarnedAreOfAccounts' /\ CacheFrame(a)
    BY <1>1, CacheWorkTypes, CacheWorkPlaces, CacheWorkWarns, CacheWorkFrame DEF CacheIInv
  <2>2. /\ ~ Idle(a) /\ UNCHANGED <<overlapped, request, cacheServer>>
        /\ \A b \in Admin \ {a} : stage'[b] = stage[b]
        /\ Moved(a) => stage'[a] \in {"clear", "idle"}
    <3>1. CASE Moved(a)
      BY <1>1, <2>1, <3>1, MovedIsAtTable DEF CacheFrame, CacheIInv, Idle
    <3>2. CASE ~ Moved(a)
      BY <1>1, <2>1, <3>2 DEF CacheFrame, CacheIInv, CacheStateOK, AdminsTypeOK, Idle
    <3> QED
      BY <3>1, <3>2
  <2>3. OneSyncs'
    BY <1>1, <2>2 DEF CacheIInv, OneSyncs, Idle
  <2>4. FilledSoFar'
    <3> SUFFICES ASSUME ~ overlapped', NEW b \in Admin, stage'[b] # "idle", b \notin complained',
                        stage'[b] # "version"
                 PROVE  FilledBy(b)' /\ FillingBy(b)'
      BY DEF FilledSoFar, Idle
    <3>1. b = a
      BY <1>1, <2>2 DEF CacheIInv, OneSyncs, Idle
    <3>2. FillsOn(a)
      BY <1>1, <2>1, <2>2, <3>1, CacheWorkFills DEF CacheFrame
    <3>3. CASE Moved(a) /\ AllRight(a)'
      BY <2>2, <3>1, <3>3 DEF AllRight, FilledBy, FillingBy
    <3>4. CASE FilledBy(a)' /\ FillingBy(a)'
      BY <3>1, <3>4
    <3> QED
      BY <3>2, <3>3, <3>4 DEF FillsOn
  <2> QED
    BY <2>1, <2>3, <2>4 DEF CacheIInv
<1>2. ASSUME CacheIInv, UNCHANGED cacheVars PROVE CacheIInv'
  <2> USE <1>2 DEF cacheVars, cacheOwn, admins
  <2>1. CacheStateOK' /\ CachePlaces' /\ OneSyncs' /\ WarnedAreOfAccounts'
    BY DEF CacheIInv, CacheStateOK, AdminsTypeOK, CacheTypeOK, CachePlaces, Current, OneSyncs,
       WarnedAreOfAccounts, Idle
  <2>2. FilledSoFar'
    <3> SUFFICES ASSUME ~ overlapped, NEW a \in Admin, ~ Idle(a), a \notin complained, stage[a] # "version"
                 PROVE  FilledBy(a)' /\ FillingBy(a)'
      BY DEF FilledSoFar, Idle
    <3>1. /\ FilledBy(a) /\ FillingBy(a) /\ TablesOf(request[a]) \in Seq(Table) /\ Current(a) \in Table
          /\ at[a] \in 1..Len(TablesOf(request[a])) /\ Current(a) = TablesOf(request[a])[at[a]]
      BY AtTable DEF CacheIInv, FilledSoFar
    <3>2. Current(a)' = Current(a)
      BY DEF Current
    <3>3. /\ \A u \in Table : Wholly(u)' = Wholly(u)
          /\ \A u \in Table : Fits(u)' <=> Fits(u)
      BY ServerStays
    <3>4. ASSUME NEW i \in 1..at[a]
          PROVE  Reliable(request[a], i)' <=> Reliable(request[a], i)
      <4>1. TablesOf(request[a])[i] \in Table
        BY <3>1
      <4>2. Fits(TablesOf(request[a])[i])' <=> Fits(TablesOf(request[a])[i])
        BY <3>3, <4>1
      <4>3. Grounded(request[a], i)' <=> Grounded(request[a], i)
        BY DEF Grounded
      <4> QED
        BY <4>2, <4>3 DEF Reliable
    <3>5. FilledBy(a)'
      <4> SUFFICES ASSUME NEW i \in 1..(at[a] - 1),
                          stage[a] = "clear" \/ TablesOf(request[a])[i] # Current(a),
                          Reliable(request[a], i)'
                   PROVE  tableRows[TablesOf(request[a])[i]] = Wholly(TablesOf(request[a])[i])'
        BY <3>2 DEF FilledBy, RightAt
      <4>1. i \in 1..at[a] /\ TablesOf(request[a])[i] \in Table
        BY <3>1
      <4>2. tableRows[TablesOf(request[a])[i]] = Wholly(TablesOf(request[a])[i])
        BY <3>1, <3>4, <4>1 DEF FilledBy, RightAt
      <4>3. Wholly(TablesOf(request[a])[i])' = Wholly(TablesOf(request[a])[i])
        BY <3>3, <4>1
      <4> QED
        BY <4>2, <4>3
    <3>6. FillingBy(a)'
      <4>1. at[a] \in 1..at[a]
        BY <3>1
      <4>2. (Fits(Current(a))' <=> Fits(Current(a))) /\ Wholly(Current(a))' = Wholly(Current(a))
        BY <3>1, <3>2, <3>3
      <4> QED
        BY <3>1, <3>2, <3>4, <4>1, <4>2 DEF FillingBy
    <3> QED
      BY <3>5, <3>6
  <2> QED
    BY <2>1, <2>2 DEF CacheIInv
<1> QED
  BY <1>1, <1>2, CacheBeginKeeps DEF CacheNext, CacheFinished

(* The invariant of the tables of the cache.                               *)
THEOREM CacheInvariant == CacheSpec => []CacheIInv
BY CacheInitOK, CacheStep, PTL DEF CacheSpec

(* The step that ends a command which has logged no error.                 *)
CacheEnds ==
    \A a \in Admin : at'[a] # at[a] /\ EndsSilently(a) /\ ~ overlapped' =>
         \A i \in DOMAIN TablesOf(request[a]) :
            LET t == TablesOf(request[a])[i]
            IN  t \in cacheServer.enabled \ warned' /\ Fits(t) /\ Grounded(request[a], i)
                  => tableRows'[t] = Wholly(t)

LEMMA CacheEndsRight == CacheIInv /\ [CacheNext]_cacheVars => CacheEnds
<1> SUFFICES ASSUME CacheIInv, [CacheNext]_cacheVars,
                    NEW a \in Admin, at'[a] # at[a], EndsSilently(a), ~ overlapped',
                    NEW i \in DOMAIN TablesOf(request[a]),
                    TablesOf(request[a])[i] \in cacheServer.enabled \ warned',
                    Fits(TablesOf(request[a])[i]), Grounded(request[a], i)
             PROVE  tableRows'[TablesOf(request[a])[i]] = Wholly(TablesOf(request[a])[i])
  BY DEF CacheEnds
<1> DEFINE ts == TablesOf(request[a])
<1>1. CacheStateOK /\ CachePlaces /\ stage[a] # "idle" /\ stage'[a] = "idle" /\ a \notin complained'
  BY DEF CacheIInv, EndsSilently, Idle
<1>2. CacheWork(a)
  <2>1. CASE UNCHANGED cacheVars
    BY <2>1 DEF cacheVars, cacheOwn
  <2>2. ASSUME NEW b \in Admin, CacheBegin(b) PROVE FALSE
    BY <1>1, <2>2 DEF CacheBegin, Start, Goto, Idle, CacheStateOK, AdminsTypeOK
  <2>3. ASSUME NEW b \in Admin \ {a}, CacheWork(b) PROVE FALSE
    <3>1. CacheFrame(b)
      BY <1>1, <2>3, CacheWorkFrame
    <3>2. CASE Moved(b)
      BY <1>1, <3>1, <3>2, MovedIsAtTable DEF CacheFrame, Idle
    <3>3. CASE ~ Moved(b)
      BY <3>1, <3>3 DEF CacheFrame
    <3> QED
      BY <3>2, <3>3
  <2> QED
    BY <2>1, <2>2, <2>3 DEF CacheNext, CacheFinished
<1>3. CacheFrame(a)
  BY <1>1, <1>2, CacheWorkFrame
<1>4. ~ overlapped /\ a \notin complained /\ UNCHANGED <<request, cacheServer>>
  BY <1>1, <1>3 DEF CacheFrame
<1>5. Moved(a) /\ AllRight(a)'
  BY <1>1, <1>2, <1>4, CacheWorkFills DEF FillsOn
<1>6. ts \in Seq(Table) /\ at'[a] = Len(ts) + 1
  BY <1>1, <1>4, <1>5, AtTable, MovedIsAtTable DEF Idle
<1>7. i \in 1..(at'[a] - 1) /\ ts[i] \in Table
  BY <1>6
<1>8. (Fits(ts[i])' <=> Fits(ts[i])) /\ Wholly(ts[i])' = Wholly(ts[i])
  <2>1. (\A u \in Table : Fits(u)' <=> Fits(u)) /\ \A u \in Table : Wholly(u)' = Wholly(u)
    BY <1>4, ServerStays
  <2> QED
    BY <1>4, <1>7, <2>1
<1>9. Reliable(request[a], i)'
  <2>1. Grounded(request[a], i)'
    BY <1>4 DEF Grounded
  <2> QED
    BY <1>4, <1>8, <2>1 DEF Reliable
<1>10. RightAt(a, i)'
  BY <1>5, <1>7 DEF AllRight
<1> QED
  BY <1>4, <1>8, <1>9, <1>10 DEF RightAt

-----------------------------------------------------------------------------
(* All areas together.  The invariant of the area at work, and nothing in   *)
(* the others.                                                             *)
AreasIInv ==
    /\ area \in Areas
    /\ ProjectsTypeOK /\ MarketplaceTypeOK /\ CatalogueTypeOK /\ AccountsTypeOK /\ TunnelsTypeOK
    /\ CacheTypeOK
    /\ IF area = "projects" THEN ProjectIInv /\ AgreeIInv ELSE projects = {} /\ projectRows = {}
    /\ IF area = "marketplace" THEN MarketIInv /\ MarketAtWork ELSE items = {}
    /\ IF area = "catalogue" THEN CatalogueIInv /\ CatalogueAtWork ELSE entities = {}
    /\ IF area = "accounts" THEN AccountIInv /\ AccountAtWork ELSE parts = {}
    /\ area = "tunnels" => TunnelIInv /\ TunnelAtWork
    /\ area = "cache" => CacheIInv

LEMMA AreaTypes ==
    /\ ProjectIInv => ProjectsTypeOK /\ AdminsTypeOK(ProjectStage, ProjectRequest)
    /\ MarketIInv => MarketplaceTypeOK /\ AdminsTypeOK(MarketStage, MarketRequest)
    /\ CatalogueIInv => CatalogueTypeOK /\ AdminsTypeOK(CatalogueStage, CatalogueRequest)
    /\ AccountIInv => AccountsTypeOK /\ AdminsTypeOK(AccountStage, AccountRequest)
    /\ TunnelIInv => TunnelsTypeOK /\ AdminsTypeOK(TunnelStage, TunnelRequest)
    /\ CacheIInv => CacheTypeOK /\ AdminsTypeOK(CacheStage, CacheRequest)
BY DEF ProjectIInv, ProjectShape, ProjectStateOK, MarketIInv, MarketStateOK, CatalogueIInv,
   CatalogueStateOK, AccountIInv, AccountStateOK, TunnelIInv, TunnelStateOK, CacheIInv,
   CacheStateOK

LEMMA AreasInit == AdministrationInit => AreasIInv
<1> SUFFICES ASSUME AdministrationInit PROVE AreasIInv
  OBVIOUS
<1>1. ProjectsInit /\ MarketplaceInit /\ CatalogueInit /\ AccountsInit /\ TunnelsInit /\ CacheInit
  BY DEF AdministrationInit, ProjectsInit, MarketplaceInit, CatalogueInit, AccountsInit,
     TunnelsInit, CacheInit
<1>2. ProjectIInv /\ AgreeIInv /\ MarketIInv /\ MarketAtWork /\ CatalogueIInv /\ CatalogueAtWork
      /\ AccountIInv /\ AccountAtWork /\ TunnelIInv /\ TunnelAtWork /\ CacheIInv
  BY <1>1, ProjectInitOK, AgreeInit, MarketInit, MarketAtWorkInit, CatalogueInitOK,
     CatalogueAtWorkInit, AccountInit, AccountAtWorkInit, TunnelInit, TunnelAtWorkInit,
     CacheInitOK
<1>3. projects = {} => projectRows = {}
  BY DEF AdministrationInit, ProjectsStart
<1> QED
  BY <1>2, <1>3, AreaTypes DEF AdministrationInit, AreasIInv

(* A step of Administration is one of the area at work, and leaves the     *)
(* others alone.                                                           *)
LEMMA AreaSteps ==
    ASSUME area \in Areas, [AdministrationNext]_administrationVars
    PROVE  /\ area' = area
           /\ area = "projects" => [ProjectsNext]_projectVars
           /\ area = "marketplace" => [MarketplaceNext]_marketVars
           /\ area = "catalogue" => [CatalogueNext]_catalogueVars
           /\ area = "accounts" => [AccountsNext]_accountVars
           /\ area = "tunnels" => [TunnelsNext]_tunnelVars
           /\ area = "cache" => [CacheNext]_cacheVars
           /\ area # "projects" => UNCHANGED projectOwn
           /\ area # "marketplace" => UNCHANGED marketOwn
           /\ area # "catalogue" => UNCHANGED catalogueOwn
           /\ area # "accounts" => UNCHANGED accountOwn
           /\ area # "tunnels" => UNCHANGED tunnelOwn
           /\ area # "cache" => UNCHANGED cacheOwn
<1>1. CASE UNCHANGED administrationVars
  BY <1>1 DEF administrationVars, projectVars, marketVars, catalogueVars, accountVars, tunnelVars,
     cacheVars
<1>2. CASE AdministrationFinished
  BY <1>1, <1>2 DEF AdministrationFinished
<1>3. \/ \E a \in Admin : InProjects(ProjectBegin(a)) \/ InProjects(ProjectWork(a))
      \/ InProjects(TaskEnds)
      \/ InMarketplace(MarketplaceNext) \/ InCatalogue(CatalogueNext)
      \/ InAccounts(AccountsNext) \/ InTunnels(TunnelsNext) \/ InCache(CacheNext)
      \/ UNCHANGED administrationVars
  BY DEF AdministrationNext, AdministrationBegin, AdministrationWork, ServerStep,
     AdministrationFinished, InProjects, InMarketplace, InCatalogue, InAccounts, InTunnels,
     InCache, MarketplaceNext, CatalogueNext, AccountsNext, TunnelsNext, CacheNext
<1>4. CASE \E a \in Admin : InProjects(ProjectBegin(a)) \/ InProjects(ProjectWork(a))
  BY <1>4 DEF InProjects, ProjectsNext
<1>5. CASE InProjects(TaskEnds)
  BY <1>5 DEF InProjects, ProjectsNext
<1>6. CASE InMarketplace(MarketplaceNext)
  BY <1>6 DEF InMarketplace
<1>7. CASE InCatalogue(CatalogueNext)
  BY <1>7 DEF InCatalogue
<1>8. CASE InAccounts(AccountsNext)
  BY <1>8 DEF InAccounts
<1>9. CASE InTunnels(TunnelsNext)
  BY <1>9 DEF InTunnels
<1>10. CASE InCache(CacheNext)
  BY <1>10 DEF InCache
<1> QED
  BY <1>1, <1>3, <1>4, <1>5, <1>6, <1>7, <1>8, <1>9, <1>10

(* What an area keeps has its types while another is at work.               *)
LEMMA IdleAreas ==
    /\ ProjectsTypeOK /\ UNCHANGED projectOwn => ProjectsTypeOK'
    /\ MarketplaceTypeOK /\ UNCHANGED marketOwn => MarketplaceTypeOK'
    /\ CatalogueTypeOK /\ UNCHANGED catalogueOwn => CatalogueTypeOK'
    /\ AccountsTypeOK /\ UNCHANGED accountOwn => AccountsTypeOK'
    /\ TunnelsTypeOK /\ UNCHANGED tunnelOwn => TunnelsTypeOK'
    /\ CacheTypeOK /\ UNCHANGED cacheOwn => CacheTypeOK'
<1>1. ProjectsTypeOK /\ UNCHANGED projectOwn => ProjectsTypeOK'
  BY DEF ProjectsTypeOK, projectOwn, projectServer
<1>2. MarketplaceTypeOK /\ UNCHANGED marketOwn => MarketplaceTypeOK'
  BY DEF MarketplaceTypeOK, marketOwn
<1>3. CatalogueTypeOK /\ UNCHANGED catalogueOwn => CatalogueTypeOK'
  BY DEF CatalogueTypeOK, catalogueOwn
<1>4. AccountsTypeOK /\ UNCHANGED accountOwn => AccountsTypeOK'
  BY DEF AccountsTypeOK, accountOwn
<1>5. TunnelsTypeOK /\ UNCHANGED tunnelOwn => TunnelsTypeOK'
  BY DEF TunnelsTypeOK, tunnelOwn
<1>6. CacheTypeOK /\ UNCHANGED cacheOwn => CacheTypeOK'
  BY DEF CacheTypeOK, cacheOwn
<1> QED
  BY <1>1, <1>2, <1>3, <1>4, <1>5, <1>6

LEMMA AreasStep == AreasIInv /\ [AdministrationNext]_administrationVars => AreasIInv'
<1> SUFFICES ASSUME AreasIInv, [AdministrationNext]_administrationVars PROVE AreasIInv'
  OBVIOUS
<1>1. area \in Areas /\ area' = area
  BY AreaSteps DEF AreasIInv
<1>2. /\ IF area = "projects" THEN ProjectIInv' /\ AgreeIInv' ELSE UNCHANGED projectOwn
      /\ IF area = "marketplace" THEN MarketIInv' /\ MarketAtWork' ELSE UNCHANGED marketOwn
      /\ IF area = "catalogue" THEN CatalogueIInv' /\ CatalogueAtWork' ELSE UNCHANGED catalogueOwn
      /\ IF area = "accounts" THEN AccountIInv' /\ AccountAtWork' ELSE UNCHANGED accountOwn
      /\ IF area = "tunnels" THEN TunnelIInv' /\ TunnelAtWork' ELSE UNCHANGED tunnelOwn
      /\ IF area = "cache" THEN CacheIInv' ELSE UNCHANGED cacheOwn
  BY <1>1, AreaSteps, ProjectStep, AgreeStep, MarketStep, MarketAtWorkStep, CatalogueStep,
     CatalogueAtWorkStep, AccountStep, AccountAtWorkStep, TunnelStep, TunnelAtWorkStep, CacheStep
     DEF AreasIInv
<1>3. (ProjectsTypeOK /\ MarketplaceTypeOK /\ CatalogueTypeOK /\ AccountsTypeOK /\ TunnelsTypeOK
       /\ CacheTypeOK)'
  <2>1. /\ ProjectIInv' => ProjectsTypeOK'
        /\ MarketIInv' => MarketplaceTypeOK'
        /\ CatalogueIInv' => CatalogueTypeOK'
        /\ AccountIInv' => AccountsTypeOK'
        /\ TunnelIInv' => TunnelsTypeOK'
        /\ CacheIInv' => CacheTypeOK'
    <3>1. (/\ ProjectIInv => ProjectsTypeOK
           /\ MarketIInv => MarketplaceTypeOK
           /\ CatalogueIInv => CatalogueTypeOK
           /\ AccountIInv => AccountsTypeOK
           /\ TunnelIInv => TunnelsTypeOK
           /\ CacheIInv => CacheTypeOK)'
      BY AreaTypes, PTL
    <3> QED
      BY <3>1
  <2>2. ProjectsTypeOK'
    BY <1>2, <2>1, IdleAreas DEF AreasIInv
  <2>3. MarketplaceTypeOK'
    BY <1>2, <2>1, IdleAreas DEF AreasIInv
  <2>4. CatalogueTypeOK'
    BY <1>2, <2>1, IdleAreas DEF AreasIInv
  <2>5. AccountsTypeOK'
    BY <1>2, <2>1, IdleAreas DEF AreasIInv
  <2>6. TunnelsTypeOK'
    BY <1>2, <2>1, IdleAreas DEF AreasIInv
  <2>7. CacheTypeOK'
    BY <1>2, <2>1, IdleAreas DEF AreasIInv
  <2> QED
    BY <2>2, <2>3, <2>4, <2>5, <2>6, <2>7
<1> QED
  BY <1>1, <1>2, <1>3 DEF AreasIInv, projectOwn, projectServer, marketOwn, catalogueOwn,
     accountOwn

(* The invariants of the areas hold beside one another.                    *)
THEOREM AreasInvariant == AdministrationSpec => []AreasIInv
BY AreasInit, AreasStep, PTL DEF AdministrationSpec

(* Type correctness of the area at work and of the commands on it.         *)
THEOREM AdministrationTypes == AdministrationSpec => []AdministrationTypeOK
<1>1. AreasIInv => AdministrationTypeOK
  BY AreaTypes DEF AreasIInv, AdministrationTypeOK, Areas
<1> QED
  BY <1>1, AreasInvariant, PTL

(* Once all is done without an error nobody has a role in a project he is   *)
(* not a user of, in whatever order the users of the project and those of   *)
(* its policies were changed.                                              *)
THEOREM MembersOnlyHolds == AdministrationSpec => []MembersOnly
<1>1. AreasIInv => MembersOnly
  BY MembersFollow DEF AreasIInv, MembersOnly
<1> QED
  BY <1>1, AreasInvariant, PTL

(* Once all is done without an error, and no two commands on one project    *)
(* overlapped, the quota in the project's specification is the one and only *)
(* one that the policy engine enforces for it.                             *)
THEOREM QuotaAgreesHolds == AdministrationSpec => []QuotaAgrees
<1>1. AreasIInv => QuotaAgrees
  BY QuotaFollows DEF AreasIInv, QuotaAgrees
<1> QED
  BY <1>1, AreasInvariant, PTL

(* Once all is done without an error, and no two commands overlapped, the   *)
(* cache lists the projects there are, and each project its environments.   *)
THEOREM ListsAgreeHolds == AdministrationSpec => []ListsAgree
<1>1. AreasIInv => ListsAgree
  BY ListsFollow DEF AreasIInv, ListsAgree
<1> QED
  BY <1>1, AreasInvariant, PTL

(* Of the items that are not rejected no two have one version, whatever the *)
(* administrators work on.                                                 *)
THEOREM OneLiveVersionHolds == AdministrationSpec => []OneLiveVersion
<1>1. AreasIInv => OneLiveVersion
  BY DEF AreasIInv, MarketIInv, OneLiveVersion
<1> QED
  BY <1>1, AreasInvariant, PTL

(* A name is that of one entity, whatever the administrators work on.       *)
THEOREM OnePerNameHolds == AdministrationSpec => []OnePerName
<1>1. AreasIInv => OnePerName
  BY DEF AreasIInv, CatalogueIInv, OnePerName
<1> QED
  BY <1>1, AreasInvariant, PTL

(* An account with a credential provider has its provider, whatever the     *)
(* administrators work on.                                                 *)
THEOREM AccountHasProviderHolds == AdministrationSpec => []AccountHasProvider
<1>1. AreasIInv => AccountHasProvider
  BY DEF AreasIInv, AccountIInv, ProviderKept, AccountHasProvider, Of
<1> QED
  BY <1>1, AreasInvariant, PTL

(* A reset does not delete the application in which the tunnel runs, even   *)
(* when other commands reset, create or delete the tunnel meanwhile.        *)
THEOREM TunnelKeepsRunning == AdministrationSpec => KeepsTheTunnelRunning
<1>1. AreasIInv /\ [AdministrationNext]_administrationVars => [TunnelRuns]_tunnelVars
  <2> SUFFICES ASSUME AreasIInv, [AdministrationNext]_administrationVars PROVE TunnelRuns
    OBVIOUS
  <2>1. CASE area = "tunnels"
    BY <2>1, AreaSteps, TunnelRunsOn DEF AreasIInv
  <2>2. CASE area # "tunnels"
    BY <2>2, AreaSteps DEF AreasIInv, tunnelOwn, TunnelRuns
  <2> QED
    BY <2>1, <2>2
<1> QED
  BY <1>1, AreasInvariant, PTL DEF AdministrationSpec, KeepsTheTunnelRunning, TunnelRuns

(* What an area is asked for no other is.                                  *)
LEMMA OtherRequests ==
    ASSUME AreasIInv, NEW a \in Admin
    PROVE  /\ area # "projects" => request[a].op \notin ProjectOp
           /\ area # "accounts" => request[a].op \notin AccountOp
           /\ area # "tunnels" => request[a].op \notin TunnelOp
           /\ area # "marketplace" => request[a].op \notin Verb
           /\ area # "catalogue" => request[a].op \notin CatalogueOp
<1>1. /\ area = "projects" => request[a] \in ProjectRequest \cup {NoRequest}
      /\ area = "marketplace" => request[a] \in MarketRequest \cup {NoRequest}
      /\ area = "catalogue" => request[a] \in CatalogueRequest \cup {NoRequest}
      /\ area = "accounts" => request[a] \in AccountRequest \cup {NoRequest}
      /\ area = "tunnels" => request[a] \in TunnelRequest \cup {NoRequest}
      /\ area = "cache" => request[a] \in CacheRequest \cup {NoRequest}
  BY AreaTypes DEF AreasIInv, AdminsTypeOK
<1>2. /\ area = "projects" => request[a].op \in ProjectOp \cup {"none"}
      /\ area = "marketplace" => request[a].op \in Verb \cup {"none"}
      /\ area = "catalogue" => request[a].op \in CatalogueOp \cup {"none"}
      /\ area = "accounts" => request[a].op \in AccountOp \cup {"none"}
      /\ area = "tunnels" => request[a].op \in TunnelOp \cup {"none"}
      /\ area = "cache" => request[a].op \in CacheOp \cup {"none"}
  BY <1>1, ProjectsAssumption, MarketplaceAssumption, CatalogueAssumption, AccountsAssumption,
     TunnelsAssumption, CacheAssumption DEF NoRequest
<1>3. area \in Areas
  BY DEF AreasIInv
<1> QED
  BY <1>2, <1>3 DEF Areas, ProjectOp, Verb, CatalogueOp, AccountOp, TunnelOp, CacheOp

(* A creation of a project that ends without an error, and overlapped with  *)
(* no other command, leaves the whole project it was asked for, with its row *)
(* in the cache, its quota and its environment, and a deletion leaves none. *)
THEOREM ProjectEndsHolds == AdministrationSpec => ProjectEndsAsAsked
<1>1. AreasIInv /\ [AdministrationNext]_administrationVars => [ProjectEnds]_projectVars
  <2> SUFFICES ASSUME AreasIInv, [AdministrationNext]_administrationVars PROVE ProjectEnds
    OBVIOUS
  <2>1. CASE area = "projects"
    BY <2>1, AreaSteps, ProjectEndsRight DEF AreasIInv
  <2>2. CASE area # "projects"
    BY <2>2, OtherRequests DEF ProjectEnds, ProjectOp
  <2> QED
    BY <2>1, <2>2
<1> QED
  BY <1>1, AreasInvariant, PTL DEF AdministrationSpec, ProjectEndsAsAsked, ProjectEnds

(* A publication that logs no error, and overlapped with no other of the    *)
(* name, leaves a live item of its kind and version, and one of that        *)
(* version in the state it was asked for; unpublishing all versions of a    *)
(* blueprint leaves published at most those that a listing of the group     *)
(* does not reach.                                                         *)
THEOREM MarketEndsHolds == AdministrationSpec => MarketEndsAsAsked
<1>1. AreasIInv /\ [AdministrationNext]_administrationVars => [MarketEnds]_marketVars
  <2> SUFFICES ASSUME AreasIInv, [AdministrationNext]_administrationVars PROVE MarketEnds
    OBVIOUS
  <2>1. CASE area = "marketplace"
    BY <2>1, AreaSteps, MarketEndsRight DEF AreasIInv
  <2>2. CASE area # "marketplace"
    BY <2>2, OtherRequests DEF MarketEnds, Verb, Publication
  <2> QED
    BY <2>1, <2>2
<1> QED
  BY <1>1, AreasInvariant, PTL DEF AdministrationSpec, MarketEndsAsAsked, MarketEnds

(* A creation, an update or a deletion by name that logs no error and has   *)
(* not overlapped has done it, with the rows of the cache: the entity is    *)
(* there with its secrets, or nothing is left of the names.                 *)
THEOREM CatalogueEndsHolds == AdministrationSpec => CatalogueEndsAsAsked
<1>1. AreasIInv /\ [AdministrationNext]_administrationVars => [CatalogueEnds]_catalogueVars
  <2> SUFFICES ASSUME AreasIInv, [AdministrationNext]_administrationVars PROVE CatalogueEnds
    OBVIOUS
  <2>1. CASE area = "catalogue"
    BY <2>1, AreaSteps, CatalogueEndsRight DEF AreasIInv
  <2>2. CASE area # "catalogue"
    BY <2>2, OtherRequests DEF CatalogueEnds, CatalogueOp
  <2> QED
    BY <2>1, <2>2
<1> QED
  BY <1>1, AreasInvariant, PTL DEF AdministrationSpec, CatalogueEndsAsAsked, CatalogueEnds

(* A creation or an update of an account that logs no error and has run     *)
(* alone leaves every part as it was described, and a deletion none.       *)
THEOREM AccountEndsHolds == AdministrationSpec => AccountEndsAsAsked
<1>1. AreasIInv /\ [AdministrationNext]_administrationVars => [AccountEnds]_accountVars
  <2> SUFFICES ASSUME AreasIInv, [AdministrationNext]_administrationVars PROVE AccountEnds
    OBVIOUS
  <2>1. CASE area = "accounts"
    BY <2>1, AreaSteps, AccountEndsRight DEF AreasIInv
  <2>2. CASE area # "accounts"
    BY <2>2, OtherRequests DEF AccountEnds, AccountOp
  <2> QED
    BY <2>1, <2>2
<1> QED
  BY <1>1, AreasInvariant, PTL DEF AdministrationSpec, AccountEndsAsAsked, AccountEnds

(* A creation or a reset of the tunnel that logs no error, has run alone    *)
(* and waited until its task had ended has done it: the tunnel is in an     *)
(* application that runs, and the deletion of the old one is asked for.    *)
THEOREM TunnelEndsHolds == AdministrationSpec => TunnelEndsAsAsked
<1>1. AreasIInv /\ [AdministrationNext]_administrationVars => [TunnelEnds]_tunnelVars
  <2> SUFFICES ASSUME AreasIInv, [AdministrationNext]_administrationVars PROVE [TunnelEnds]_tunnelVars
    OBVIOUS
  <2>1. CASE area = "tunnels"
    BY <2>1, AreaSteps, TunnelEndsRight DEF AreasIInv
  <2>2. CASE area # "tunnels"
    BY <2>2, OtherRequests DEF TunnelEnds, TunnelOp
  <2> QED
    BY <2>1, <2>2
<1> QED
  BY <1>1, AreasInvariant, PTL DEF AdministrationSpec, TunnelEndsAsAsked, TunnelEnds

(* A command that fills tables of the cache and logs no error leaves in each*)
(* what the server has that can be used, whatever accounts did not answer,  *)
(* as far as the pages it asks for reach.                                  *)
THEOREM CacheFillsTheTables == AdministrationSpec => CacheEndsAsAsked
<1>1. AreasIInv /\ [AdministrationNext]_administrationVars => [CacheEnds]_cacheVars
  <2> SUFFICES ASSUME AreasIInv, [AdministrationNext]_administrationVars PROVE CacheEnds
    OBVIOUS
  <2>1. CASE area = "cache"
    BY <2>1, AreaSteps, CacheEndsRight DEF AreasIInv
  <2>2. CASE area # "cache"
    BY <2>2, AreaSteps DEF AreasIInv, cacheOwn, CacheEnds
  <2> QED
    BY <2>1, <2>2
<1> QED
  BY <1>1, AreasInvariant, PTL DEF AdministrationSpec, CacheEndsAsAsked, CacheEnds
=============================================================================
