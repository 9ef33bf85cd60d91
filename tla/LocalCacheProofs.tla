--------------------------- MODULE LocalCacheProofs ---------------------------
(* What holds of the environment cache whatever commands run, however many  *)
(* environments and however long the pages: the type invariant, what the    *)
(* cache and the project's list are worth when no command complained, and    *)
(* the inductive invariant they follow from.                                *)
EXTENDS LocalCache, FiniteSetTheorems, TLAPS

(* The stages a command of each kind goes through.                          *)
StagesOf(op) == {"start"} \cup Ended \cup
    CASE op = "create"  -> {"create", "read", "put", "poll", "fetch", "insertRow"}
      [] op = "replace" -> {"resolve", "delete", "read", "put", "poll", "deleteRow", "create",
                            "fetch", "insertRow"}
      [] op = "update"  -> {"resolve", "readEnv", "putEnv", "fetch", "updateRow"}
      [] op = "delete"  -> {"resolve", "delete", "read", "put", "poll", "deleteRow"}
      [] op = "sync"    -> {"clearRows", "list", "insertRows"}
      [] op = "clear"   -> {"recreate"}

InItsStages == \A c \in Command : pc[c] \in StagesOf(OpOf[c])

(* A command that has made its environment on the server and has yet to put *)
(* it into the cache, and one that has deleted it and has yet to remove it. *)
Adding(c) == pc[c] \in {"read", "put", "poll", "fetch", "insertRow"} /\ Adds(c)
Removing(c) == pc[c] \in {"read", "put", "poll", "deleteRow"} /\ ~ Adds(c)

(* Whose environment a command works on: an update and a deletion on the    *)
(* named one, an addition on one that is newer than all that can be named.  *)
MineOK ==
    \A c \in Command :
        /\ pc[c] \in {"delete", "readEnv", "putEnv", "updateRow"} => mine[c] = Named[c]
        /\ pc[c] = "deleteRow" => Removing(c)
        /\ pc[c] = "insertRow" => Adding(c)
        /\ pc[c] = "fetch" => Adding(c) \/ (OpOf[c] = "update" /\ mine[c] = Named[c])
        /\ Adding(c) => mine[c] \in NInitial + 1 .. born
        /\ Removing(c) => mine[c] = Named[c] /\ mine[c] \notin live

(* Only named environments are ever deleted.                                *)
CreatedStay == NInitial <= born /\ NInitial + 1 .. born \subseteq live

ListingOK ==
    \A c \in Command :
        /\ pc[c] \in {"start", "clearRows"} => offset[c] = 0 /\ listed[c] = {}
        /\ \A l \in listed[c] : l.env \in 1 .. born

(* A copy of the project of the present version is the project.              *)
ReadOK ==
    \A c \in Command :
        /\ read[c].version <= project.version
        /\ read[c].version = project.version => read[c].refs = project.refs

(* The task at work on the project changes its list for one environment, to  *)
(* what the server has; a command that waits for it has that environment.    *)
TaskOK ==
    /\ \A t, u \in change : t = u
    /\ \A t \in change :
        /\ result[t.by] = "pending"
        /\ pc[t.by] = "poll" => mine[t.by] = t.env
        /\ \A e \in Env \ {t.env} : e \in t.refs <=> e \in project.refs
        /\ t.env \in t.refs => t.env \in NInitial + 1 .. born
        /\ t.env \notin t.refs => t.env \in (1 .. born) \ live

(* An environment on which the server and the project's list differ is one  *)
(* that a command is about to enter or to strike out, or failed to, or will  *)
(* be told that it has failed to; or a task is about to, or has failed to    *)
(* when nobody was waiting.                                                 *)
Pending(e) ==
    \E c \in Command :
        /\ mine[c] = e
        /\ pc[c] \in {"read", "put", "failed"} \/ (pc[c] = "poll" /\ result[c] = "failed")
AssociatedInv ==
    \A e \in Env :
        (e \in live <=> e \in project.refs) \/ Pending(e) \/ e \in lost
        \/ \E t \in change : t.env = e

Unfailed == \A c \in Command : pc[c] \notin {"failed", "broken"}

(* A command that will bring the environment e into the cache.               *)
Unpaged(c, e) == Cardinality({x \in live : x < e}) >= offset[c]
Brings(c, e) ==
    \/ Adding(c) /\ mine[c] = e
    \/ pc[c] = "list" /\ Unpaged(c, e)
    \/ HoldsListed(c, e)

CompleteInv ==
    Unfailed /\ ~ emptied /\ shifted = {} =>
        \A e \in live \ Cached : \E c \in Command : Brings(c, e)

(* What a command holds for the cache is what the server has.                *)
HeldCurrent ==
    \A c \in Command :
        /\ pc[c] \in {"insertRow", "updateRow"} =>
               copy[c] = edition[mine[c]] \/ mine[c] \in overtaken
        /\ pc[c] \in {"list", "insertRows"} =>
               \A l \in listed[c] : l.edition = edition[l.env] \/ l.env \in overtaken

Refreshes(c, e) == OpOf[c] = "update" /\ mine[c] = e /\ pc[c] \in {"fetch", "updateRow"}
RowsCurrent ==
    Unfailed =>
        \A r \in rows : \/ r.edition = edition[r.env]
                       \/ r.env \in overtaken
                       \/ \E c \in Command : Refreshes(c, r.env)

(* A deleted environment is in the cache, or will be, only while the command *)
(* that deleted it has yet to remove its row.                               *)
Lingers(e) == e \in Cached \/ \E c \in Command : HoldsListed(c, e)
GhostInv ==
    Unfailed =>
        \A e \in Env \ (live \cup outrun) :
            Lingers(e) => \E d \in Command : Removing(d) /\ mine[d] = e

Control == TypeOK /\ InItsStages /\ MineOK /\ CreatedStay /\ ListingOK
IInv == /\ Control /\ ReadOK /\ TaskOK /\ AssociatedInv /\ CompleteInv /\ HeldCurrent /\ RowsCurrent
        /\ GhostInv
-----------------------------------------------------------------------------
(* A command past its choice of environment works on one that was created.  *)
LEMMA WorksOnOne ==
  ASSUME Control, NEW c \in Command,
         pc[c] \in {"delete", "readEnv", "putEnv", "updateRow", "read", "put", "deleteRow",
                    "insertRow", "fetch"}
  PROVE  mine[c] \in 1 .. born /\ mine[c] \in Env /\ mine[c] # NoEnv
BY CacheAssumption DEF Control, TypeOK, MineOK, CreatedStay, Adding, Removing, Env

(* Every action moves one command. *)
LEMMA Moves ==
  ASSUME TypeOK, NEW c \in Command, NEW stage, Goto(c, stage)
  PROVE  \A d \in Command : pc'[d] = IF d = c THEN stage ELSE pc[d]
BY DEF TypeOK, Goto

LEMMA PageIsLive ==
  ASSUME NEW from
  PROVE  Page(from) \subseteq live
BY DEF Page

(* UpdateRow gives its row another edition and leaves every other.           *)
LEMMA UpdatedRows ==
  ASSUME Control, NEW c \in Command, UpdateRow(c)
  PROVE  /\ \A s \in rows' : s \in Row /\ \E r \in rows :
                /\ s.env = r.env
                /\ s.edition = IF r.env = mine[c] THEN copy[c] ELSE r.edition
         /\ Cached' = Cached
         /\ \A r, q \in rows' : r.env = q.env => r = q
<1> DEFINE upd(r) == IF r.env = mine[c] THEN [r EXCEPT !.edition = copy[c]] ELSE r
<1>1. TypeOK
  BY DEF Control
<1>2. copy[c] \in Nat
  BY <1>1 DEF TypeOK
<1>3. \A r \in rows : /\ upd(r) \in Row /\ upd(r).env = r.env
                      /\ upd(r).edition = IF r.env = mine[c] THEN copy[c] ELSE r.edition
  BY <1>1, <1>2 DEF TypeOK, Row
<1>4. rows' = {upd(r) : r \in rows}
  BY DEF UpdateRow
<1> HIDE DEF upd
<1>5. Cached' = Cached
  BY <1>3, <1>4 DEF Cached
<1>6. \A r, q \in rows' : r.env = q.env => r = q
  BY <1>1, <1>3, <1>4 DEF TypeOK
<1>7. QED
  BY <1>3, <1>4, <1>5, <1>6

LEMMA TypeStep ==
  ASSUME Control, NEW c \in Command, Work(c) \/ Fail(c)
  PROVE  TypeOK'
<1> USE CacheAssumption
<1>0. TypeOK /\ MineOK /\ ListingOK /\ (Work(c) \/ Fail(c))
  BY DEF Control
<1>1. CASE Start(c)
  BY <1>1, <1>0 DEF Start, Goto, local, server, list, file, TypeOK, Stage, Ended, Env, Cached, Op
<1>2. CASE BrokenTable(c)
  BY <1>2, <1>0 DEF BrokenTable, Goto, local, server, list, file, TypeOK, Stage, Ended, Cached
<1>3. CASE CreateOnServer(c)
  <2>1. born' \in 0 .. NEnv /\ born' \in Env /\ born' = born + 1 /\ live' \subseteq 1 .. born'
    BY <1>3, <1>0 DEF CreateOnServer, TypeOK, Env
  <2>2. mine' \in [Command -> Env \cup {NoEnv}]
    BY <1>3, <1>0, <2>1 DEF CreateOnServer, TypeOK
  <2>3. pc' \in [Command -> Stage]
    BY <1>3, <1>0 DEF CreateOnServer, TypeOK, Goto, Stage
  <2>4. Cached' \subseteq 1 .. born'
    BY <1>3, <1>0, <2>1 DEF CreateOnServer, file, TypeOK, Cached
  <2>5. QED
    BY <1>3, <1>0, <2>1, <2>2, <2>3, <2>4 DEF CreateOnServer, list, file, TypeOK
<1>4. CASE Resolve(c)
  <2>1. Named[c] \in Env
    BY DEF Env
  <2>2. QED
    BY <1>4, <1>0, <2>1 DEF Resolve, Goto, server, list, file, TypeOK, Stage, Ended, Cached
<1>5. CASE DeleteOnServer(c)
  <2>1. pc' \in [Command -> Stage]
    BY <1>5, <1>0 DEF DeleteOnServer, TypeOK, Goto, Stage, Ended
  <2>2. live' \subseteq live /\ shifted' \subseteq Command
    BY <1>5, <1>0 DEF DeleteOnServer, TypeOK
  <2>3. QED
    BY <1>5, <1>0, <2>1, <2>2 DEF DeleteOnServer, local, list, file, TypeOK, Cached
<1>6. CASE ReadEnv(c)
  BY <1>6, <1>0, WorksOnOne DEF ReadEnv, Goto, server, list, file, TypeOK, Stage, Ended, Cached
<1>7. CASE PutEnv(c)
  <2>1. mine[c] \in Env
    BY <1>7, WorksOnOne DEF PutEnv
  <2>2. edition' \in [Env -> Nat]
    BY <1>7, <1>0, <2>1 DEF PutEnv, TypeOK
  <2>3. overtaken' \subseteq Env
    BY <1>7, <1>0, <2>1 DEF PutEnv, TypeOK
  <2>4. pc' \in [Command -> Stage]
    BY <1>7, <1>0 DEF PutEnv, TypeOK, Goto, Stage, Ended
  <2>5. QED
    BY <1>7, <1>0, <2>2, <2>3, <2>4 DEF PutEnv, local, list, file, TypeOK, Cached
<1>8. CASE ReadProject(c)
  BY <1>8, <1>0 DEF ReadProject, Goto, server, list, file, TypeOK, Stage, Ended, Cached
<1>9. CASE PutProject(c)
  <2>1. mine[c] \in Env
    BY <1>9, WorksOnOne DEF PutProject
  <2>2. NewRefs(c) \subseteq Env
    BY <1>0, <2>1 DEF NewRefs, TypeOK, ProjectSpec
  <2>3. change' \subseteq [by : Command, env : Env, refs : SUBSET Env]
        /\ result' \in [Command -> {"none", "pending", "succeeded", "failed"}]
    BY <1>9, <1>0, <2>1, <2>2 DEF PutProject, PollProject, TypeOK
  <2>4. pc' \in [Command -> Stage]
    BY <1>9, <1>0 DEF PutProject, PollProject, TypeOK, Goto, Stage, Ended
  <2>5. QED
    BY <1>9, <1>0, <2>3, <2>4 DEF PutProject, PollProject, local, file, TypeOK, Cached
<1>10. CASE FetchOne(c)
  BY <1>10, <1>0, WorksOnOne DEF FetchOne, Goto, server, list, file, TypeOK, Stage, Ended, Cached
<1>11. CASE InsertRow(c)
  <2>1. mine[c] \in Env /\ mine[c] \in 1 .. born
    BY <1>11, WorksOnOne DEF InsertRow
  <2>2. pc' \in [Command -> Stage]
    BY <1>11, <1>0 DEF InsertRow, TypeOK, Goto, Stage, Ended
  <2> DEFINE new == [env |-> mine[c], edition |-> copy[c]]
  <2>3. new \in Row /\ new.env = mine[c]
    BY <1>0, <2>1 DEF TypeOK, Row
  <2>4. CASE rows' = rows
    BY <1>11, <1>0, <2>2, <2>4 DEF InsertRow, local, server, list, TypeOK, Cached
  <2>5. CASE mine[c] \notin Cached /\ rows' = rows \cup {new}
    <3> HIDE DEF new
    <3>1. rows' \subseteq Row /\ Cached' \subseteq 1 .. born
      BY <1>0, <2>1, <2>3, <2>5 DEF TypeOK, Cached
    <3>2. \A r, q \in rows' : r.env = q.env => r = q
      BY <1>0, <2>3, <2>5 DEF TypeOK, Cached
    <3>3. QED
      BY <1>11, <1>0, <2>2, <3>1, <3>2 DEF InsertRow, local, server, list, TypeOK
  <2>6. QED
    BY <1>11, <2>4, <2>5 DEF InsertRow
<1>12. CASE UpdateRow(c)
  <2>1. pc' \in [Command -> Stage]
    BY <1>12, <1>0 DEF UpdateRow, TypeOK, Goto, Stage, Ended
  <2>2. rows' \subseteq Row /\ Cached' = Cached /\ \A r, q \in rows' : r.env = q.env => r = q
    BY <1>12, UpdatedRows
  <2>3. QED
    BY <1>12, <1>0, <2>1, <2>2 DEF UpdateRow, local, server, list, TypeOK
<1>13. CASE DeleteRow(c)
  <2>1. rows' \subseteq rows
    BY <1>13 DEF DeleteRow, Without
  <2>2. pc' \in [Command -> Stage]
    BY <1>13, <1>0 DEF DeleteRow, AfterDelete, TypeOK, Goto, Stage, Ended
  <2>3. Cached' \subseteq Cached
    BY <2>1 DEF Cached
  <2>4. outrun' \subseteq Env
    <3>1. mine[c] \in Env
      BY <1>13, WorksOnOne DEF DeleteRow
    <3>2. QED
      BY <1>13, <1>0, <3>1 DEF DeleteRow, TypeOK
  <2>5. QED
    BY <1>13, <1>0, <2>1, <2>2, <2>3, <2>4 DEF DeleteRow, local, server, list, TypeOK
<1>14. CASE ClearRows(c)
  <2>1. rows' \subseteq rows
    BY <1>14 DEF ClearRows
  <2>2. pc' \in [Command -> Stage]
    BY <1>14, <1>0 DEF ClearRows, TypeOK, Goto, Stage, Ended
  <2>3. Cached' \subseteq Cached
    BY <2>1 DEF Cached
  <2>4. QED
    BY <1>14, <1>0, <2>1, <2>2, <2>3 DEF ClearRows, local, server, list, TypeOK
<1>15. CASE ListPage(c)
  <2> DEFINE page == {[env |-> e, edition |-> edition[e]] : e \in Page(offset[c])}
  <2>1. Page(offset[c]) \subseteq Env
    <3>1. live \subseteq Env
      BY <1>0 DEF TypeOK, Env
    <3>2. QED
      BY <3>1, PageIsLive
  <2>2. page \subseteq Row
    BY <1>0, <2>1 DEF TypeOK, Row
  <2>3. listed' \in [Command -> SUBSET Row]
    <3> HIDE DEF page
    <3>1. listed' = [listed EXCEPT ![c] = @ \cup page]
      BY <1>15 DEF ListPage, page
    <3>2. QED
      BY <1>0, <2>2, <3>1 DEF TypeOK
  <2>4. pc' \in [Command -> Stage] /\ offset' \in [Command -> Nat]
    BY <1>15, <1>0 DEF ListPage, TypeOK, Goto, Stage, Ended
  <2>5. QED
    BY <1>15, <1>0, <2>3, <2>4 DEF ListPage, server, list, file, TypeOK, Cached
<1>16. CASE InsertListed(c)
  <2>1. pc' \in [Command -> Stage]
    BY <1>16, <1>0 DEF InsertListed, TypeOK, Goto, Stage, Ended
  <2>2. CASE UNCHANGED <<listed, rows>>
    BY <1>16, <1>0, <2>1, <2>2 DEF InsertListed, server, list, TypeOK, Cached
  <2>3. CASE \E l \in listed[c] : /\ l.env \notin Cached
                                  /\ rows' = rows \cup {l}
                                  /\ listed' = [listed EXCEPT ![c] = @ \ {l}]
    <3>1. PICK l \in listed[c] : /\ l.env \notin Cached
                                 /\ rows' = rows \cup {l}
                                 /\ listed' = [listed EXCEPT ![c] = @ \ {l}]
      BY <2>3
    <3>2. l \in Row /\ l.env \in 1 .. born
      BY <1>0 DEF TypeOK, ListingOK
    <3>3. listed' \in [Command -> SUBSET Row]
      BY <1>0, <3>1 DEF TypeOK
    <3>4. rows' \subseteq Row /\ Cached' \subseteq 1 .. born
      BY <1>0, <3>1, <3>2 DEF TypeOK, Cached
    <3>5. \A r, q \in rows' : r.env = q.env => r = q
      BY <1>0, <3>1 DEF TypeOK, Cached
    <3>6. QED
      BY <1>16, <1>0, <2>1, <3>3, <3>4, <3>5 DEF InsertListed, server, list, TypeOK
  <2>4. QED
    BY <1>16, <2>2, <2>3 DEF InsertListed
<1>17. CASE Recreate(c)
  BY <1>17, <1>0 DEF Recreate, Goto, local, server, list, TypeOK, Stage, Ended, Cached
<1>20. CASE PollProject(c)
  BY <1>20, <1>0 DEF PollProject, AfterPoll, Goto, local, server, list, file, TypeOK, Stage,
     Ended, Cached
<1>18. CASE Fail(c)
  BY <1>18, <1>0 DEF Fail, Goto, local, server, list, file, TypeOK, Stage, Ended, Cached
<1>19. QED
  BY <1>0, <1>1, <1>2, <1>3, <1>4, <1>5, <1>6, <1>7, <1>8, <1>9, <1>10, <1>11, <1>12, <1>13,
     <1>14, <1>15, <1>16, <1>17, <1>18, <1>20 DEF Work

LEMMA StagesStep ==
  ASSUME Control, NEW c \in Command, Work(c) \/ Fail(c)
  PROVE  InItsStages'
<1> USE CacheAssumption
<1>0. TypeOK /\ InItsStages /\ MineOK /\ (Work(c) \/ Fail(c))
  BY DEF Control
<1> SUFFICES ASSUME NEW d \in Command
             PROVE  pc'[d] \in StagesOf(OpOf[d])
  BY DEF InItsStages
<1>1. pc[d] \in StagesOf(OpOf[d]) /\ OpOf[d] \in Op
  BY <1>0 DEF InItsStages
<1>2. CASE d # c
  BY <1>0, <1>1, <1>2, Moves DEF Work, Fail, Start, BrokenTable, CreateOnServer, Resolve,
     DeleteOnServer, ReadEnv, PutEnv, ReadProject, PutProject, PollProject, FetchOne, InsertRow,
     UpdateRow, DeleteRow, ClearRows, ListPage, InsertListed, Recreate
<1>3. CASE d = c
  <2>1. CASE Start(c)
    BY <1>0, <1>1, <1>3, <2>1 DEF Start, Goto, TypeOK, StagesOf, Op
  <2>2. CASE BrokenTable(c) \/ Fail(c)
    BY <1>0, <1>1, <1>3, <2>2 DEF BrokenTable, Fail, Goto, TypeOK, StagesOf, Op, Ended
  <2>3. CASE CreateOnServer(c) \/ DeleteOnServer(c) \/ ReadEnv(c) \/ PutEnv(c) \/ ReadProject(c)
    BY <1>0, <1>1, <1>3, <2>3 DEF CreateOnServer, DeleteOnServer, ReadEnv, PutEnv, ReadProject,
       Goto, TypeOK, StagesOf, Op, Ended
  <2>4. CASE Resolve(c)
    BY <1>0, <1>1, <1>3, <2>4 DEF Resolve, Goto, TypeOK, StagesOf, Op, Ended
  <2>5. CASE PutProject(c) \/ PollProject(c)
    BY <1>0, <1>1, <1>3, <2>5 DEF PutProject, PollProject, AfterPoll, Adds, Goto, TypeOK,
       StagesOf, Op, Ended
  <2>6. CASE FetchOne(c)
    BY <1>0, <1>1, <1>3, <2>6 DEF FetchOne, MineOK, Adding, Adds, Goto, TypeOK, StagesOf, Op,
       Ended
  <2>7. CASE InsertRow(c) \/ UpdateRow(c)
    BY <1>0, <1>1, <1>3, <2>7 DEF InsertRow, UpdateRow, Goto, TypeOK, StagesOf, Op, Ended
  <2>8. CASE DeleteRow(c)
    BY <1>0, <1>1, <1>3, <2>8 DEF DeleteRow, AfterDelete, Goto, TypeOK, StagesOf, Op, Ended
  <2>9. CASE ClearRows(c) \/ ListPage(c) \/ InsertListed(c)
    BY <1>0, <1>1, <1>3, <2>9 DEF ClearRows, ListPage, InsertListed, Goto, TypeOK, StagesOf, Op,
       Ended
  <2>10. CASE Recreate(c)
    BY <1>0, <1>1, <1>3, <2>10 DEF Recreate, Goto, TypeOK, StagesOf, Op, Ended
  <2>11. QED
    BY <1>0, <2>1, <2>2, <2>3, <2>4, <2>5, <2>6, <2>7, <2>8, <2>9, <2>10 DEF Work
<1>4. QED
  BY <1>2, <1>3

(* What an action leaves alone of the other commands and of the server.      *)
LEMMA Others ==
  ASSUME TypeOK, NEW c \in Command, Work(c) \/ Fail(c)
  PROVE  \A d \in Command \ {c} :
             /\ pc'[d] = pc[d] /\ mine'[d] = mine[d] /\ copy'[d] = copy[d]
             /\ read'[d] = read[d] /\ listed'[d] = listed[d] /\ offset'[d] = offset[d]
BY DEF TypeOK, Work, Fail, Start, BrokenTable, CreateOnServer, Resolve, DeleteOnServer, ReadEnv,
   PutEnv, ReadProject, PutProject, PollProject, FetchOne, InsertRow, UpdateRow, DeleteRow,
   ClearRows, ListPage, InsertListed, Recreate, Goto, local, server, list, file

(* The server's set of environments: only a creation and a deletion change it. *)
LEMMA Server ==
  ASSUME Control, NEW c \in Command, Work(c) \/ Fail(c)
  PROVE  \/ CreateOnServer(c) /\ born' = born + 1 /\ live' = live \cup {born + 1}
         \/ /\ DeleteOnServer(c) /\ mine[c] = Named[c]
            /\ born' = born /\ live' = live \ {mine[c]}
         \/ born' = born /\ live' = live
BY DEF Control, MineOK, Work, Fail, Start, BrokenTable, CreateOnServer, Resolve, DeleteOnServer,
   ReadEnv, PutEnv, ReadProject, PutProject, PollProject, FetchOne, InsertRow, UpdateRow,
   DeleteRow, ClearRows, ListPage, InsertListed, Recreate, Goto, local, server, list, file

LEMMA CreatedStayStep ==
  ASSUME Control, NEW c \in Command, Work(c) \/ Fail(c)
  PROVE  CreatedStay'
<1>1. TypeOK /\ CreatedStay
  BY DEF Control
<1>2. Named[c] \in 1 .. NInitial /\ NInitial \in Nat /\ born \in Nat
  BY <1>1, CacheAssumption DEF TypeOK
<1>3. CASE born' = born + 1 /\ live' = live \cup {born + 1}
  BY <1>1, <1>2, <1>3 DEF CreatedStay
<1>4. CASE born' = born /\ (live' = live \/ live' = live \ {Named[c]})
  BY <1>1, <1>2, <1>4 DEF CreatedStay
<1>5. QED
  BY <1>3, <1>4, Server

LEMMA MineStep ==
  ASSUME Control, NEW c \in Command, Work(c) \/ Fail(c)
  PROVE  MineOK'
<1> USE CacheAssumption
<1>0. TypeOK /\ InItsStages /\ MineOK /\ CreatedStay /\ (Work(c) \/ Fail(c))
  BY DEF Control
<1>1. \A d \in Command : Named[d] \in 1 .. NInitial /\ OpOf[d] \in Op
  OBVIOUS
<1> SUFFICES ASSUME NEW d \in Command
             PROVE  /\ pc'[d] \in {"delete", "readEnv", "putEnv", "updateRow"} =>
                           mine'[d] = Named[d]
                    /\ pc'[d] = "deleteRow" => Removing(d)'
                    /\ pc'[d] = "insertRow" => Adding(d)'
                    /\ pc'[d] = "fetch" =>
                           Adding(d)' \/ (OpOf[d] = "update" /\ mine'[d] = Named[d])
                    /\ Adding(d)' => mine'[d] \in NInitial + 1 .. born'
                    /\ Removing(d)' => mine'[d] = Named[d] /\ mine'[d] \notin live'
  BY DEF MineOK
<1>2. born' >= born /\ born \in Nat /\ born' \in Nat /\ live' \ {born'} \subseteq live
      /\ (born' = born => live' \subseteq live)
  BY <1>0, Server DEF TypeOK
<1>3. CASE d # c
  <2>1. pc'[d] = pc[d] /\ mine'[d] = mine[d]
    BY <1>0, <1>3, Others
  <2>2. (Adding(d)' <=> Adding(d)) /\ (Removing(d)' <=> Removing(d))
    BY <2>1 DEF Adding, Removing, Adds
  <2>3. Named[d] # born' \/ born' = born
    BY <1>0, <1>1, Server DEF CreatedStay, TypeOK
  <2>4. Named[d] \notin live => Named[d] \notin live'
    BY <1>2, <2>3
  <2>5. QED
    BY <1>0, <1>2, <2>1, <2>2, <2>4 DEF MineOK
<1>4. CASE d = c
  <2>1. CASE Start(c)
    BY <1>0, <1>1, <1>4, <2>1 DEF Start, local, server, list, Goto, TypeOK, MineOK, Adding,
       Removing, Adds, Op
  <2>2. CASE BrokenTable(c) \/ Fail(c) \/ ClearRows(c) \/ Recreate(c)
    BY <1>0, <1>4, <2>2 DEF BrokenTable, Fail, ClearRows, Recreate, local, Goto, TypeOK,
       Adding, Removing
  <2>3. CASE ListPage(c) \/ InsertListed(c)
    BY <1>0, <1>4, <2>3 DEF ListPage, InsertListed, Goto, TypeOK, Adding, Removing
  <2>4. CASE CreateOnServer(c)
    <3>1. mine'[c] = born + 1 /\ born' = born + 1 /\ pc'[c] = "read"
      BY <1>0, <2>4 DEF CreateOnServer, Goto, TypeOK
    <3>2. OpOf[c] \in {"create", "replace"} /\ born + 1 > NInitial
      BY <1>0, <1>1, <2>4 DEF CreateOnServer, InItsStages, StagesOf, Op, Ended, CreatedStay,
         TypeOK
    <3>3. Adding(c)' /\ mine'[c] \in NInitial + 1 .. born'
      BY <1>0, <1>1, <3>1, <3>2 DEF Adding, Adds, TypeOK
    <3>4. QED
      BY <1>4, <3>1, <3>3 DEF Adding, Removing
  <2>5. CASE Resolve(c)
    BY <1>0, <1>1, <1>4, <2>5 DEF Resolve, Goto, TypeOK, Adding, Removing
  <2>6. CASE DeleteOnServer(c)
    <3>1. mine'[c] = mine[c] /\ mine[c] = Named[c] /\ pc'[c] \in {"read", "failed"}
      BY <1>0, <2>6 DEF DeleteOnServer, local, Goto, TypeOK, MineOK
    <3>2. OpOf[c] \in {"delete", "replace"}
      BY <1>0, <1>1, <2>6 DEF DeleteOnServer, InItsStages, StagesOf, Op, Ended
    <3>3. ~ Adds(c)' /\ ~ Adding(c)'
      BY <3>1, <3>2 DEF Adding, Adds
    <3>4. pc'[c] = "read" => mine[c] \notin live'
      BY <1>0, <2>6 DEF DeleteOnServer, Goto, TypeOK
    <3>5. QED
      BY <1>4, <3>1, <3>3, <3>4 DEF Removing
  <2>7. CASE ReadEnv(c) \/ PutEnv(c)
    BY <1>0, <1>1, <1>4, <2>7 DEF ReadEnv, PutEnv, local, Goto, TypeOK, MineOK, InItsStages,
       StagesOf, Op, Ended, Adding, Removing, Adds
  <2>8. CASE ReadProject(c) \/ PutProject(c) \/ PollProject(c)
    BY <1>0, <1>4, <2>8 DEF ReadProject, PutProject, PollProject, AfterPoll, local, server, list,
       Goto, TypeOK, MineOK, Adding, Removing, Adds
  <2>9. CASE FetchOne(c)
    BY <1>0, <1>4, <2>9 DEF FetchOne, server, list, Goto, TypeOK, MineOK, Adding, Removing, Adds
  <2>10. CASE InsertRow(c) \/ UpdateRow(c)
    BY <1>0, <1>4, <2>10 DEF InsertRow, UpdateRow, local, server, list, Goto, TypeOK, MineOK,
       Adding, Removing, Adds
  <2>11. CASE DeleteRow(c)
    BY <1>0, <1>4, <2>11 DEF DeleteRow, AfterDelete, local, server, list, Goto, TypeOK, MineOK,
       Adding, Removing, Adds
  <2>12. QED
    BY <1>0, <2>1, <2>2, <2>3, <2>4, <2>5, <2>6, <2>7, <2>8, <2>9, <2>10, <2>11 DEF Work
<1>5. QED
  BY <1>3, <1>4

LEMMA ListingStep ==
  ASSUME Control, NEW c \in Command, Work(c) \/ Fail(c)
  PROVE  ListingOK'
<1>0. TypeOK /\ InItsStages /\ ListingOK /\ (Work(c) \/ Fail(c))
  BY DEF Control
<1> SUFFICES ASSUME NEW d \in Command
             PROVE  /\ pc'[d] \in {"start", "clearRows"} => offset'[d] = 0 /\ listed'[d] = {}
                    /\ \A l \in listed'[d] : l.env \in 1 .. born'
  BY DEF ListingOK
<1>1. born' >= born /\ born \in Nat /\ born' \in Nat
  BY <1>0, CacheAssumption, Server DEF TypeOK
<1>2. CASE d # c
  BY <1>0, <1>1, <1>2, Others DEF ListingOK
<1>3. CASE d = c
  <2>1. CASE Start(c) \/ ClearRows(c)
    BY <1>0, <1>3, <2>1 DEF Start, ClearRows, local, server, list, Goto, TypeOK, ListingOK
  <2>2. CASE ListPage(c)
    <3>1. live \subseteq 1 .. born
      BY <1>0 DEF TypeOK
    <3>2. \A e \in Page(offset[c]) : e \in 1 .. born
      BY <3>1, PageIsLive
    <3>3. pc'[c] \notin {"start", "clearRows"} /\ born' = born
      BY <1>0, <2>2 DEF ListPage, server, list, Goto, TypeOK
    <3>4. \A l \in listed'[c] : l \in listed[c] \/ \E e \in Page(offset[c]) : l.env = e
      BY <1>0, <2>2 DEF ListPage, TypeOK
    <3>5. QED
      BY <1>0, <1>3, <3>2, <3>3, <3>4 DEF ListingOK
  <2>3. CASE InsertListed(c)
    <3>1. pc'[c] \notin {"start", "clearRows"} /\ born' = born
      BY <1>0, <2>3 DEF InsertListed, server, list, Goto, TypeOK
    <3>2. listed'[c] \subseteq listed[c]
      BY <1>0, <2>3 DEF InsertListed, TypeOK
    <3>3. QED
      BY <1>0, <1>3, <3>1, <3>2 DEF ListingOK
  <2>4. CASE ~ (Start(c) \/ ClearRows(c) \/ ListPage(c) \/ InsertListed(c))
    <3>1. pc'[c] \notin {"start", "clearRows"} /\ listed'[c] = listed[c]
      BY <1>0, <2>4 DEF Work, Fail, BrokenTable, CreateOnServer, Resolve, DeleteOnServer, ReadEnv,
         PutEnv, ReadProject, PutProject, PollProject, AfterPoll, FetchOne, InsertRow, UpdateRow,
         DeleteRow, AfterDelete, Recreate, Goto, local, TypeOK
    <3>2. QED
      BY <1>0, <1>1, <1>3, <3>1 DEF ListingOK
  <2>5. QED
    BY <2>1, <2>2, <2>3, <2>4
<1>4. QED
  BY <1>2, <1>3

LEMMA ControlStep ==
  ASSUME Control, NEW c \in Command, Work(c) \/ Fail(c)
  PROVE  Control'
BY TypeStep, StagesStep, MineStep, CreatedStayStep, ListingStep DEF Control

LEMMA ReadStep ==
  ASSUME Control, ReadOK, NEW c \in Command, Work(c) \/ Fail(c)
  PROVE  ReadOK'
<1>0. TypeOK /\ TypeOK' /\ (Work(c) \/ Fail(c))
  BY ControlStep DEF Control
<1> SUFFICES ASSUME NEW d \in Command
             PROVE  /\ read'[d].version <= project'.version
                    /\ read'[d].version = project'.version => read'[d].refs = project'.refs
  BY DEF ReadOK
<1>1. \A x \in Command : read[x].version \in Nat /\ project.version \in Nat
  BY <1>0 DEF TypeOK, ProjectSpec
<1>2. CASE ReadProject(c)
  BY <1>0, <1>1, <1>2 DEF ReadProject, server, list, TypeOK, ReadOK
<1>4. CASE read' = read /\ project' = project
  BY <1>4 DEF ReadOK
<1>5. QED
  BY <1>0, <1>2, <1>4 DEF Work, Fail, Start, BrokenTable, CreateOnServer, Resolve, DeleteOnServer,
     ReadEnv, PutEnv, PutProject, PollProject, FetchOne, InsertRow, UpdateRow, DeleteRow,
     ClearRows, ListPage, InsertListed, Recreate, local, server, list

(* Of the list and the tasks that change it, a command only starts a task.   *)
LEMMA Listing ==
  ASSUME NEW c \in Command, Work(c) \/ Fail(c)
  PROVE  /\ project' = project /\ lost' = lost
         /\ \/ change' = change /\ result' = result
            \/ PutProject(c) /\ ~ Refused(c)
BY DEF Work, Fail, Start, BrokenTable, CreateOnServer, Resolve, DeleteOnServer, ReadEnv, PutEnv,
   ReadProject, PutProject, PollProject, FetchOne, InsertRow, UpdateRow, DeleteRow, ClearRows,
   ListPage, InsertListed, Recreate, server, list, local

(* The task a command starts makes of the list what the server has.          *)
LEMMA NewTask ==
  ASSUME Control, ReadOK, NEW c \in Command, PutProject(c), ~ Refused(c)
  PROVE  /\ change = {} /\ change' = {[by |-> c, env |-> mine[c], refs |-> NewRefs(c)]}
         /\ result'[c] = "pending" /\ pc'[c] = "poll" /\ mine' = mine
         /\ live' = live /\ born' = born
         /\ \A e \in Env \ {mine[c]} : e \in NewRefs(c) <=> e \in project.refs
         /\ mine[c] \in NewRefs(c) => mine[c] \in NInitial + 1 .. born
         /\ mine[c] \notin NewRefs(c) => mine[c] \in (1 .. born) \ live
<1>1. TypeOK /\ MineOK /\ mine[c] \in 1 .. born
  BY WorksOnOne DEF Control, PutProject
<1>2. read[c].refs = project.refs
  BY DEF Refused, ReadOK
<1>3. pc[c] = "put" /\ (Adding(c) <=> Adds(c)) /\ (Removing(c) <=> ~ Adds(c))
  BY DEF PutProject, Adding, Removing
<1>4. /\ change = {} /\ change' = {[by |-> c, env |-> mine[c], refs |-> NewRefs(c)]}
      /\ result'[c] = "pending" /\ pc'[c] = "poll" /\ mine' = mine
      /\ live' = live /\ born' = born
  BY <1>1 DEF PutProject, Refused, Goto, TypeOK, local
<1>5. \A e \in Env \ {mine[c]} : e \in NewRefs(c) <=> e \in project.refs
  BY <1>2 DEF NewRefs
<1>6. CASE Adds(c)
  BY <1>1, <1>3, <1>4, <1>5, <1>6 DEF NewRefs, MineOK
<1>7. CASE ~ Adds(c)
  BY <1>1, <1>3, <1>4, <1>5, <1>7 DEF NewRefs, MineOK
<1>8. QED
  BY <1>6, <1>7

LEMMA TaskStep ==
  ASSUME Control, ReadOK, TaskOK, NEW c \in Command, Work(c) \/ Fail(c)
  PROVE  TaskOK'
<1>0. TypeOK /\ MineOK /\ CreatedStay /\ (Work(c) \/ Fail(c))
  BY DEF Control
<1>1. CASE PutProject(c) /\ ~ Refused(c)
  <2> DEFINE new == [by |-> c, env |-> mine[c], refs |-> NewRefs(c)]
  <2>1. change' = {new} /\ new.by = c /\ new.env = mine[c] /\ new.refs = NewRefs(c)
    BY <1>1, NewTask
  <2>2. project' = project
    BY Listing
  <2>3. QED
    BY <1>1, <2>1, <2>2, NewTask DEF TaskOK
<1>2. CASE change' = change /\ result' = result
  <2> SUFFICES ASSUME NEW t \in change
               PROVE  /\ result[t.by] = "pending"
                      /\ pc'[t.by] = "poll" => mine'[t.by] = t.env
                      /\ \A e \in Env \ {t.env} : e \in t.refs <=> e \in project.refs
                      /\ t.env \in t.refs => t.env \in NInitial + 1 .. born'
                      /\ t.env \notin t.refs => t.env \in (1 .. born') \ live'
    BY <1>2, Listing DEF TaskOK
  <2>1. t.by \in Command /\ t.env \in Env /\ t.refs \subseteq Env
    BY <1>0 DEF TypeOK
  <2>2. pc'[t.by] = "poll" => pc[t.by] = "poll" /\ mine'[t.by] = mine[t.by]
    <3>1. CASE t.by # c
      BY <1>0, <2>1, <3>1, Others
    <3>2. CASE t.by = c
      <4>1. ~ (PutProject(c) /\ ~ Refused(c))
        BY <1>0, <1>2, <3>2 DEF PutProject, Refused
      <4>2. QED
        BY <1>0, <3>2, <4>1 DEF Work, Fail, Start, BrokenTable, CreateOnServer, Resolve,
           DeleteOnServer, ReadEnv, PutEnv, ReadProject, PutProject, PollProject, AfterPoll,
           FetchOne, InsertRow, UpdateRow, DeleteRow, AfterDelete, ClearRows, ListPage,
           InsertListed, Recreate, Goto, TypeOK, local
    <3>3. QED
      BY <3>1, <3>2
  <2>3. NInitial \in Nat /\ Named[c] \in 1 .. NInitial /\ born \in Nat
    BY <1>0, CacheAssumption DEF TypeOK
  <2>4. \/ born' = born + 1 /\ live' = live \cup {born + 1}
        \/ born' = born /\ live' \subseteq live
    BY Server
  <2>5. QED
    BY <2>2, <2>3, <2>4 DEF TaskOK
<1>3. QED
  BY <1>1, <1>2, Listing

LEMMA AssociatedStep ==
  ASSUME Control, ReadOK, TaskOK, AssociatedInv, NEW c \in Command, Work(c) \/ Fail(c)
  PROVE  AssociatedInv'
<1>0. TypeOK /\ MineOK /\ CreatedStay /\ (Work(c) \/ Fail(c))
  BY DEF Control
<1> DEFINE awaits(d) == pc[d] \in {"read", "put", "failed"} \/ (pc[d] = "poll" /\ result[d] = "failed")
<1> SUFFICES ASSUME NEW e \in Env
             PROVE  \/ e \in live' <=> e \in project'.refs
                    \/ Pending(e)' \/ e \in lost' \/ \E t \in change' : t.env = e
  BY DEF AssociatedInv, Env
<1>1. \/ e \in live <=> e \in project.refs
      \/ Pending(e) \/ e \in lost \/ \E t \in change : t.env = e
  BY DEF AssociatedInv
<1>2. \A d \in Command \ {c} : result'[d] = result[d]
  BY <1>0, Listing DEF PutProject, TypeOK
<1>3. \A d \in Command \ {c} : mine[d] = e /\ awaits(d) => Pending(e)'
  BY <1>0, <1>2, Others DEF Pending
<1>4. e \in lost => e \in lost'
  BY Listing
<1>5. CASE CreateOnServer(c) /\ e = born + 1
  BY <1>0, <1>5 DEF CreateOnServer, Goto, TypeOK, Pending
<1>6. CASE DeleteOnServer(c) /\ mine[c] = e /\ live' # live
  BY <1>0, <1>6 DEF DeleteOnServer, local, Goto, TypeOK, Pending
<1>7. CASE ~ (CreateOnServer(c) /\ e = born + 1) /\ ~ (DeleteOnServer(c) /\ mine[c] = e /\ live' # live)
  <2>1. e \in live' <=> e \in live
    BY <1>7, Server
  <2>2. project' = project
    BY Listing
  <2>3. CASE PutProject(c) /\ ~ Refused(c)
    <3>1. change = {} /\ change' = {[by |-> c, env |-> mine[c], refs |-> NewRefs(c)]}
      BY <2>3, NewTask
    <3>2. [by |-> c, env |-> mine[c], refs |-> NewRefs(c)].env = mine[c]
      OBVIOUS
    <3>3. mine[c] = e => \E t \in change' : t.env = e
      BY <3>1, <3>2
    <3>4. QED
      BY <1>1, <1>3, <1>4, <2>1, <2>2, <3>1, <3>3 DEF Pending
  <2>4. CASE change' = change /\ result' = result
    <3>1. ~ (PutProject(c) /\ ~ Refused(c)) \/ change # {}
      BY <2>4 DEF PutProject, Refused
    <3>2. awaits(c) => awaits(c)' /\ mine'[c] = mine[c]
      BY <1>0, <2>4, <3>1 DEF Work, Fail, Start, BrokenTable, CreateOnServer, Resolve,
         DeleteOnServer, ReadEnv, PutEnv, ReadProject, PutProject, PollProject, Refused, FetchOne,
         InsertRow, UpdateRow, DeleteRow, ClearRows, ListPage, InsertListed, Recreate, Goto,
         local, TypeOK, Ended
    <3>3. mine[c] = e /\ awaits(c) => Pending(e)'
      BY <3>2 DEF Pending
    <3>4. QED
      BY <1>1, <1>3, <1>4, <2>1, <2>2, <2>4, <3>3 DEF Pending
  <2>5. QED
    BY <2>3, <2>4, Listing
<1>8. QED
  BY <1>5, <1>6, <1>7

(* The end of a task: what it has changed is then in the list, or was told,   *)
(* or will be, to the command that waits for it, or is lost.                  *)
LEMMA TaskEndsStep ==
  ASSUME Control, ReadOK, TaskOK, AssociatedInv, TaskEnds
  PROVE  Control' /\ ReadOK' /\ TaskOK' /\ AssociatedInv'
<1>0. TypeOK /\ InItsStages /\ MineOK /\ CreatedStay /\ ListingOK
  BY DEF Control
<1>1. PICK t \in change :
          /\ change' = {}
          /\ \/ /\ project' = [refs |-> t.refs, version |-> project.version + 1]
                /\ result' = [result EXCEPT ![t.by] = "succeeded"]
                /\ UNCHANGED lost
             \/ /\ project' = [project EXCEPT !.version = @ + 1]
                /\ result' = [result EXCEPT ![t.by] = "failed"]
                /\ lost' = IF pc[t.by] = "poll" THEN lost ELSE lost \cup {t.env}
          /\ UNCHANGED <<pc, local, live, edition, born, shifted, overtaken, file>>
  BY DEF TaskEnds
<1>2. t.by \in Command /\ t.env \in Env /\ t.refs \subseteq Env
  BY <1>0, <1>1 DEF TypeOK
<1>3. project \in ProjectSpec
  BY <1>0 DEF TypeOK
<1>4. project' \in ProjectSpec /\ project'.version = project.version + 1
      /\ project'.refs \in {t.refs, project.refs}
  BY <1>1, <1>2, <1>3 DEF ProjectSpec
<1>5. result' \in [Command -> {"none", "pending", "succeeded", "failed"}] /\ lost' \subseteq Env
  BY <1>0, <1>1, <1>2 DEF TypeOK
<1>6. TypeOK'
  BY <1>0, <1>1, <1>4, <1>5 DEF TypeOK, local, file, Cached
<1>7. Control'
  BY <1>0, <1>1, <1>6 DEF Control, local, InItsStages, MineOK, Adding, Removing, Adds,
     CreatedStay, ListingOK
<1>8. ReadOK'
  <2>1. \A c \in Command : read[c].version \in Nat /\ project.version \in Nat
    BY <1>0 DEF TypeOK, ProjectSpec
  <2>2. QED
    BY <1>1, <1>4, <2>1 DEF ReadOK, local
<1>9. TaskOK'
  BY <1>1 DEF TaskOK
<1>10. AssociatedInv'
  <2> SUFFICES ASSUME NEW e \in Env
               PROVE  (e \in live' <=> e \in project'.refs) \/ Pending(e)' \/ e \in lost'
    BY DEF AssociatedInv, Env
  <2>1. pc' = pc /\ mine' = mine /\ live' = live /\ lost \subseteq lost'
    BY <1>1 DEF local
  <2>2. \A d \in Command : result[d] = "failed" => result'[d] = "failed"
    BY <1>0, <1>1, <1>2 DEF TypeOK, TaskOK
  <2>3. Pending(e) => Pending(e)'
    BY <2>1, <2>2 DEF Pending
  <2>4. CASE e = t.env
    <3>1. CASE project'.refs = t.refs /\ project' = [refs |-> t.refs, version |-> project.version + 1]
      <4>1. e \in t.refs => e \in live
        BY <1>0, <1>1, <2>4 DEF TaskOK, CreatedStay
      <4>2. e \notin t.refs => e \notin live
        BY <1>1, <2>4 DEF TaskOK
      <4>3. QED
        BY <2>1, <3>1, <4>1, <4>2
    <3>2. CASE /\ result' = [result EXCEPT ![t.by] = "failed"]
               /\ lost' = IF pc[t.by] = "poll" THEN lost ELSE lost \cup {t.env}
      <4>1. CASE pc[t.by] = "poll"
        <5>1. mine[t.by] = e /\ result'[t.by] = "failed"
          BY <1>0, <1>1, <1>2, <2>4, <3>2, <4>1 DEF TaskOK, TypeOK
        <5>2. QED
          BY <1>2, <2>1, <4>1, <5>1 DEF Pending
      <4>2. CASE pc[t.by] # "poll"
        BY <2>4, <3>2, <4>2
      <4>3. QED
        BY <4>1, <4>2
    <3>3. QED
      BY <1>1, <3>1, <3>2
  <2>5. CASE e # t.env
    <3>1. e \in project'.refs <=> e \in project.refs
      BY <1>1, <1>4, <2>5 DEF TaskOK
    <3>2. (e \in live <=> e \in project.refs) \/ Pending(e) \/ e \in lost
      BY <1>1, <2>5 DEF AssociatedInv, TaskOK
    <3>3. QED
      BY <2>1, <2>3, <3>1, <3>2
  <2>6. QED
    BY <2>4, <2>5
<1>11. QED
  BY <1>7, <1>8, <1>9, <1>10

-----------------------------------------------------------------------------
(* Of finitely many numbers, fewer come before one of them than there are.   *)
LEMMA OlderOnes ==
  ASSUME NEW n \in Nat, NEW S \in SUBSET (1 .. n), NEW e
  PROVE  /\ Cardinality({x \in S : x < e}) \in Nat
         /\ Cardinality(S) \in Nat
         /\ e \in S => Cardinality({x \in S : x < e}) < Cardinality(S)
<1> DEFINE older == {x \in S : x < e}
<1>1. IsFiniteSet(1 .. n)
  BY FS_Interval
<1>2. IsFiniteSet(S)
  BY <1>1, FS_Subset
<1>3. older \subseteq S
  OBVIOUS
<1>4. e \in S => e \notin older
  <2>1. e \in S => ~ (e < e)
    OBVIOUS
  <2>2. QED
    BY <2>1
<1> HIDE DEF older
<1>5. IsFiniteSet(older) /\ Cardinality(older) <= Cardinality(S)
      /\ (Cardinality(older) = Cardinality(S) => older = S)
  BY <1>2, <1>3, FS_Subset
<1>6. Cardinality(older) \in Nat /\ Cardinality(S) \in Nat
  BY <1>2, <1>5, FS_CardinalityType
<1>7. e \in S => Cardinality(older) < Cardinality(S)
  BY <1>4, <1>5, <1>6
<1>8. QED
  BY <1>6, <1>7 DEF older

(* An error stays reported, what the history has noted it keeps, and only an *)
(* update cache that starts to fill the table anew ends that it is emptied.  *)
LEMMA HistoryKept ==
  ASSUME TypeOK, NEW c \in Command, Work(c) \/ Fail(c)
  PROVE  /\ Unfailed' => Unfailed
         /\ emptied => emptied' \/ (ClearRows(c) /\ pc'[c] = "list")
         /\ Recreate(c) => emptied'
         /\ shifted \subseteq shifted' /\ overtaken \subseteq overtaken' /\ outrun \subseteq outrun'
<1>1. pc[c] \notin {"failed", "broken", "done"}
  BY DEF Work, Fail, Start, BrokenTable, CreateOnServer, Resolve, DeleteOnServer, ReadEnv, PutEnv,
     ReadProject, PutProject, PollProject, FetchOne, InsertRow, UpdateRow, DeleteRow, ClearRows,
     ListPage, InsertListed, Recreate, Ended
<1>2. \A d \in Command \ {c} : pc'[d] = pc[d]
  BY Others
<1>3. shifted \subseteq shifted' /\ overtaken \subseteq overtaken' /\ outrun \subseteq outrun'
  BY DEF Work, Fail, Start, BrokenTable, CreateOnServer, Resolve, DeleteOnServer, ReadEnv, PutEnv,
     ReadProject, PutProject, PollProject, FetchOne, InsertRow, UpdateRow, DeleteRow, ClearRows,
     ListPage, InsertListed, Recreate, server, list, file
<1>4. Recreate(c) => emptied'
  BY DEF Recreate
<1>5. emptied => emptied' \/ (ClearRows(c) /\ pc'[c] = "list")
  BY DEF Work, Fail, Start, BrokenTable, CreateOnServer, Resolve, DeleteOnServer, ReadEnv,
     PutEnv, ReadProject, PutProject, PollProject, FetchOne, InsertRow, UpdateRow, DeleteRow,
     ClearRows, ListPage, InsertListed, Recreate, Goto, TypeOK, server, list, file
<1>6. QED
  BY <1>1, <1>2, <1>3, <1>4, <1>5 DEF Unfailed

(* What another command is about to bring, it still is after the step: the   *)
(* entities before an environment in the listing become fewer only by a     *)
(* deletion, which shifts the listings under way.                           *)
LEMMA BringsKept ==
  ASSUME Control, NEW c \in Command, Work(c) \/ Fail(c), shifted' = {},
         NEW d \in Command \ {c}, NEW e \in live, Brings(d, e)
  PROVE  Brings(d, e)'
<1>0. TypeOK /\ TypeOK'
  BY ControlStep DEF Control
<1>1. /\ pc'[d] = pc[d] /\ mine'[d] = mine[d] /\ listed'[d] = listed[d] /\ offset'[d] = offset[d]
  BY <1>0, Others
<1>2. CASE Adding(d) /\ mine[d] = e
  BY <1>1, <1>2 DEF Adding, Adds, Brings
<1>3. CASE HoldsListed(d, e)
  BY <1>1, <1>3 DEF HoldsListed, Brings
<1>4. CASE pc[d] = "list" /\ Unpaged(d, e)
  <2>1. CASE offset[d] = 0
    <3>0. born' \in Nat /\ live' \in SUBSET (1 .. born')
      BY <1>0, CacheAssumption DEF TypeOK
    <3>1. Cardinality({x \in live' : x < e}) \in Nat
      BY <3>0, OlderOnes
    <3>2. QED
      BY <1>1, <1>4, <2>1, <3>1 DEF Unpaged, Brings
  <2>2. CASE offset[d] # 0
    <3>1. offset[d] > 0 /\ born \in Nat /\ e <= born /\ e \in Nat
      BY <1>0, <2>2, CacheAssumption DEF TypeOK
    <3>2. ~ (DeleteOnServer(c) /\ live' # live)
      BY <1>4, <3>1 DEF DeleteOnServer
    <3>3. live' = live \/ live' = live \cup {born + 1}
      BY <3>2, Server
    <3>4. {x \in live' : x < e} = {x \in live : x < e}
      BY <3>1, <3>3
    <3>5. QED
      BY <1>1, <1>4, <3>4 DEF Unpaged, Brings
  <2>3. QED
    BY <2>1, <2>2
<1>5. QED
  BY <1>2, <1>3, <1>4 DEF Brings

(* And the command that takes the step goes on with it or has done it.       *)
LEMMA BringsOn ==
  ASSUME Control, NEW c \in Command, Work(c) \/ Fail(c), Unfailed',
         NEW e \in live, Brings(c, e)
  PROVE  Brings(c, e)' \/ e \in Cached'
<1>0. TypeOK /\ MineOK /\ pc'[c] \notin {"failed", "broken"} /\ (Work(c) \/ Fail(c))
  BY DEF Control, Unfailed
<1>1. CASE Adding(c) /\ mine[c] = e
  <2>1. OpOf[c] \in {"create", "replace"}
    BY <1>1 DEF Adding, Adds
  <2>2. CASE ReadProject(c) \/ PutProject(c) \/ PollProject(c)
    BY <1>0, <1>1, <2>2 DEF ReadProject, PutProject, PollProject, AfterPoll, local, Goto, TypeOK,
       Adding, Adds, Brings
  <2>3. CASE FetchOne(c)
    BY <1>0, <1>1, <2>1, <2>3 DEF FetchOne, Goto, TypeOK, Adding, Adds, Brings
  <2>4. CASE InsertRow(c)
    <3>1. rows' = rows \cup {[env |-> e, edition |-> copy[c]]}
      BY <1>0, <1>1, <2>4 DEF InsertRow, Goto, TypeOK
    <3>2. [env |-> e, edition |-> copy[c]].env = e
      OBVIOUS
    <3>3. QED
      BY <3>1, <3>2 DEF Cached
  <2>5. QED
    BY <1>0, <1>1, <2>2, <2>3, <2>4 DEF Adding, Work, Fail, Start, BrokenTable, CreateOnServer,
       Resolve, DeleteOnServer, ReadEnv, PutEnv, UpdateRow, DeleteRow, ClearRows, ListPage,
       InsertListed, Recreate, Goto, TypeOK
<1>2. CASE pc[c] = "list"
  <2>1. ListPage(c)
    BY <1>0, <1>2 DEF Work, Fail, Start, BrokenTable, CreateOnServer, Resolve, DeleteOnServer,
       ReadEnv, PutEnv, ReadProject, PutProject, PollProject, FetchOne, InsertRow, UpdateRow,
       DeleteRow, ClearRows, InsertListed, Recreate, Goto, TypeOK
  <2> DEFINE older == Cardinality({x \in live : x < e})
             page == {[env |-> x, edition |-> edition[x]] : x \in Page(offset[c])}
  <2>2. older \in Nat /\ Cardinality(live) \in Nat /\ older < Cardinality(live)
    <3>1. born \in Nat /\ live \in SUBSET (1 .. born)
      BY <1>0, CacheAssumption DEF TypeOK
    <3>2. QED
      BY <3>1, OlderOnes
  <2>3. offset[c] \in Nat /\ PageLen \in Nat
    BY <1>0, CacheAssumption DEF TypeOK
  <2>4. listed'[c] = listed[c] \cup page /\ pc'[c] \in {"list", "insertRows"} /\ live' = live
    BY <1>0, <2>1 DEF ListPage, server, list, Goto, TypeOK
  <2>5. CASE HoldsListed(c, e)
    BY <2>4, <2>5 DEF HoldsListed, Brings
  <2>6. CASE e \in Page(offset[c])
    <3>1. [env |-> e, edition |-> edition[e]] \in listed'[c]
      BY <2>4, <2>6
    <3>2. QED
      BY <2>4, <3>1 DEF HoldsListed, Brings
  <2>7. CASE Unpaged(c, e) /\ e \notin Page(offset[c])
    <3>1. older >= offset[c] + PageLen
      BY <2>2, <2>3, <2>7 DEF Page, Unpaged
    <3>2. ~ LastPage(offset[c])
      BY <2>2, <2>3, <3>1 DEF LastPage
    <3>3. pc'[c] = "list" /\ offset'[c] = offset[c] + PageLen
      BY <1>0, <2>1, <3>2 DEF ListPage, TypeOK
    <3>4. QED
      BY <2>2, <2>3, <2>4, <3>1, <3>3 DEF Unpaged, Brings
  <2>8. QED
    BY <1>2, <2>5, <2>6, <2>7 DEF Brings, Adding
<1>3. CASE pc[c] = "insertRows" /\ HoldsListed(c, e)
  <2>1. InsertListed(c)
    BY <1>0, <1>3 DEF Work, Fail, Start, BrokenTable, CreateOnServer, Resolve, DeleteOnServer,
       ReadEnv, PutEnv, ReadProject, PutProject, PollProject, FetchOne, InsertRow, UpdateRow,
       DeleteRow, ClearRows, ListPage, Recreate, Goto, TypeOK
  <2>2. PICK l \in listed[c] : l.env = e
    BY <1>3 DEF HoldsListed
  <2>3. PICK k \in listed[c] : rows' = rows \cup {k} /\ listed' = [listed EXCEPT ![c] = @ \ {k}]
                               /\ pc' = pc
    BY <1>0, <2>1, <2>2 DEF InsertListed, Goto, TypeOK
  <2>4. CASE k = l
    BY <2>2, <2>3, <2>4 DEF Cached
  <2>5. CASE k # l
    BY <1>0, <1>3, <2>2, <2>3, <2>5 DEF TypeOK, HoldsListed, Brings
  <2>6. QED
    BY <2>4, <2>5
<1>4. QED
  BY <1>1, <1>2, <1>3 DEF Brings, HoldsListed

(* Rows leave the table by a deletion, by update cache and by clear cache.   *)
LEMMA RowsLeave ==
  ASSUME Control, NEW c \in Command, Work(c) \/ Fail(c), NEW e \in Cached, e \notin Cached'
  PROVE  \/ DeleteRow(c) /\ mine[c] = e
         \/ ClearRows(c)
         \/ Recreate(c)
<1>1. CASE UpdateRow(c)
  BY <1>1, UpdatedRows
<1>2. CASE DeleteRow(c)
  BY <1>2 DEF DeleteRow, Without, Cached
<1>3. CASE InsertRow(c) \/ InsertListed(c)
  BY <1>3 DEF InsertRow, InsertListed, Cached
<1>4. CASE rows' = rows
  BY <1>4 DEF Cached
<1>5. QED
  BY <1>1, <1>2, <1>3, <1>4 DEF Work, Fail, Start, BrokenTable, CreateOnServer, Resolve,
     DeleteOnServer, ReadEnv, PutEnv, ReadProject, PutProject, PollProject, FetchOne, ListPage,
     file

LEMMA CompleteStep ==
  ASSUME Control, CompleteInv, NEW c \in Command, Work(c) \/ Fail(c)
  PROVE  CompleteInv'
<1>0. TypeOK /\ TypeOK' /\ InItsStages /\ MineOK /\ MineOK' /\ ListingOK
      /\ (Work(c) \/ Fail(c))
  BY ControlStep DEF Control
<1> SUFFICES ASSUME Unfailed', ~ emptied', shifted' = {}, NEW e \in live', e \notin Cached'
             PROVE  \E d \in Command : Brings(d, e)'
  BY DEF CompleteInv
<1>1. CASE e \notin live
  <2>1. mine'[c] = e /\ pc'[c] = "read"
    BY <1>0, <1>1, Server DEF CreateOnServer, Goto, TypeOK
  <2>2. Adding(c)'
    BY <1>0, <2>1 DEF MineOK, Adding, Removing
  <2>3. QED
    BY <2>1, <2>2 DEF Brings
<1>2. CASE ClearRows(c) /\ e \in live
  <2>1. pc'[c] = "list" /\ offset'[c] = 0
    BY <1>0, <1>2 DEF ClearRows, local, Goto, TypeOK, Unfailed, ListingOK
  <2>2. born' \in Nat /\ live' \in SUBSET (1 .. born')
    BY <1>0, CacheAssumption DEF TypeOK
  <2>3. Cardinality({x \in live' : x < e}) \in Nat
    BY <2>2, OlderOnes
  <2>4. Unpaged(c, e)'
    BY <2>1, <2>3 DEF Unpaged
  <2>5. QED
    BY <2>1, <2>4 DEF Brings
<1>3. CASE ~ ClearRows(c) /\ e \in live
  <2>1. e \notin Cached
    <3>1. SUFFICES ASSUME e \in Cached PROVE FALSE
      OBVIOUS
    <3>2. ~ Recreate(c)
      BY <1>0, HistoryKept
    <3>3. DeleteRow(c) /\ mine[c] = e
      BY <1>0, <1>3, <3>1, <3>2, RowsLeave
    <3>4. QED
      BY <1>0, <1>3, <3>3 DEF DeleteRow, MineOK
  <2>2. Unfailed /\ ~ emptied /\ shifted = {}
    BY <1>0, <1>3, HistoryKept
  <2>3. PICK d \in Command : Brings(d, e)
    BY <1>3, <2>1, <2>2 DEF CompleteInv
  <2>4. QED
    BY <1>0, <1>3, <2>3, BringsKept, BringsOn
<1>4. QED
  BY <1>1, <1>2, <1>3

LEMMA HeldStep ==
  ASSUME Control, HeldCurrent, NEW c \in Command, Work(c) \/ Fail(c)
  PROVE  HeldCurrent'
<1>0. TypeOK /\ TypeOK' /\ (Work(c) \/ Fail(c))
  BY ControlStep DEF Control
<1> SUFFICES ASSUME NEW d \in Command
             PROVE  /\ pc'[d] \in {"insertRow", "updateRow"} =>
                           copy'[d] = edition'[mine'[d]] \/ mine'[d] \in overtaken'
                    /\ pc'[d] \in {"list", "insertRows"} =>
                           \A l \in listed'[d] :
                               l.edition = edition'[l.env] \/ l.env \in overtaken'
  BY DEF HeldCurrent
<1>1. /\ pc[d] \in {"insertRow", "updateRow"} =>
             copy[d] = edition[mine[d]] \/ mine[d] \in overtaken'
      /\ pc[d] \in {"list", "insertRows"} =>
             \A l \in listed[d] : l.edition = edition[l.env] \/ l.env \in overtaken'
  BY <1>0, HistoryKept DEF HeldCurrent
<1>2. CASE PutEnv(c)
  <2>1. pc'[d] \in {"insertRow", "updateRow", "list", "insertRows"} => pc'[d] = pc[d]
    BY <1>0, <1>2 DEF PutEnv, Goto, TypeOK
  <2>2. mine' = mine /\ copy' = copy /\ listed' = listed
    BY <1>2 DEF PutEnv, local
  <2>3. CASE edition' = edition
    BY <1>1, <2>1, <2>2, <2>3
  <2>4. CASE edition' # edition
    <3>1. /\ Holds(d, mine[c]) => mine[c] \in overtaken'
          /\ edition' = [edition EXCEPT ![mine[c]] = @ + 1]
      BY <1>2, <2>4 DEF PutEnv
    <3>2. \A e \in Env : e # mine[c] => edition'[e] = edition[e]
      BY <1>0, <3>1 DEF TypeOK
    <3>3. pc[d] \in {"insertRow", "updateRow"} => mine[d] \in Env
      BY WorksOnOne
    <3>4. \A l \in listed[d] : l.env \in Env
      BY <1>0 DEF TypeOK, Row
    <3>5. QED
      BY <1>1, <2>1, <2>2, <3>1, <3>2, <3>3, <3>4 DEF Holds, HoldsListed
  <2>5. QED
    BY <2>3, <2>4
<1>3. CASE ~ PutEnv(c)
  <2>1. edition' = edition
    BY <1>0, <1>3 DEF Work, Fail, Start, BrokenTable, CreateOnServer, Resolve, DeleteOnServer,
       ReadEnv, ReadProject, PutProject, PollProject, FetchOne, InsertRow, UpdateRow, DeleteRow,
       ClearRows, ListPage, InsertListed, Recreate, server, list
  <2>2. CASE d # c
    BY <1>0, <1>1, <2>1, <2>2, Others
  <2>3. CASE d = c /\ FetchOne(c)
    BY <1>0, <2>1, <2>3 DEF FetchOne, server, list, Goto, TypeOK
  <2>4. CASE d = c /\ ListPage(c)
    <3>1. \A l \in listed'[c] :
              l \in listed[c] \/ \E e \in Page(offset[c]) : l = [env |-> e, edition |-> edition[e]]
      BY <1>0, <2>4 DEF ListPage, TypeOK
    <3>2. pc[c] = "list" /\ pc'[c] \in {"list", "insertRows"}
      BY <1>0, <2>4 DEF ListPage, Goto, TypeOK
    <3>3. QED
      BY <1>1, <2>1, <2>4, <3>1, <3>2
  <2>5. CASE d = c /\ InsertListed(c)
    <3>1. listed'[c] \subseteq listed[c] /\ pc[c] = "insertRows" /\ pc'[c] \notin {"insertRow", "updateRow"}
      BY <1>0, <2>5 DEF InsertListed, Goto, TypeOK
    <3>2. QED
      BY <1>1, <2>1, <2>5, <3>1
  <2>6. CASE d = c /\ ClearRows(c)
    BY <1>0, <2>6 DEF ClearRows, local, Goto, TypeOK, Control, ListingOK
  <2>7. CASE d = c /\ ~ (FetchOne(c) \/ ListPage(c) \/ InsertListed(c) \/ ClearRows(c))
    BY <1>0, <1>3, <2>7 DEF Work, Fail, Start, BrokenTable, CreateOnServer, Resolve,
       DeleteOnServer, ReadEnv, ReadProject, PutProject, PollProject, AfterPoll, InsertRow,
       UpdateRow, DeleteRow, AfterDelete, Recreate, Goto, TypeOK
  <2>8. QED
    BY <2>2, <2>3, <2>4, <2>5, <2>6, <2>7
<1>4. QED
  BY <1>2, <1>3

(* An update under way stays under way until it has written the row.         *)
LEMMA RefreshesKept ==
  ASSUME Control, NEW c \in Command, Work(c) \/ Fail(c), Unfailed',
         NEW d \in Command, NEW e, Refreshes(d, e)
  PROVE  Refreshes(d, e)' \/ (UpdateRow(c) /\ d = c)
<1>0. TypeOK /\ MineOK /\ pc'[c] \notin {"failed", "broken"} /\ (Work(c) \/ Fail(c))
  BY DEF Control, Unfailed
<1>1. CASE d # c
  BY <1>0, <1>1, Others DEF Refreshes
<1>2. CASE d = c
  BY <1>0, <1>2 DEF Refreshes, Work, Fail, Start, BrokenTable, CreateOnServer, Resolve,
     DeleteOnServer, ReadEnv, PutEnv, ReadProject, PutProject, PollProject, FetchOne, InsertRow,
     DeleteRow, ClearRows, ListPage, InsertListed, Recreate, Goto, TypeOK
<1>3. QED
  BY <1>1, <1>2

(* The rows after a step: those there were, or what the command held.        *)
LEMMA RowsCome ==
  ASSUME Control, NEW c \in Command, Work(c) \/ Fail(c), NEW s \in rows'
  PROVE  \/ s \in rows /\ ~ (UpdateRow(c) /\ mine[c] = s.env)
         \/ s.env = mine[c] /\ s.edition = copy[c] /\ (InsertRow(c) \/ UpdateRow(c))
         \/ s \in listed[c] /\ InsertListed(c)
<1>1. CASE UpdateRow(c)
  <2>1. PICK r \in rows : /\ s.env = r.env
                          /\ s.edition = IF r.env = mine[c] THEN copy[c] ELSE r.edition
    BY <1>1, UpdatedRows
  <2>2. CASE r.env = mine[c]
    BY <1>1, <2>1, <2>2
  <2>3. CASE r.env # mine[c]
    <3>1. s \in Row /\ r \in Row
      BY <1>1, UpdatedRows DEF Control, TypeOK
    <3>2. s = r
      BY <2>1, <2>3, <3>1 DEF Row
    <3>3. QED
      BY <2>1, <2>3, <3>2
  <2>4. QED
    BY <2>2, <2>3
<1>2. CASE InsertRow(c)
  BY <1>2 DEF InsertRow, UpdateRow
<1>3. CASE InsertListed(c)
  BY <1>3 DEF InsertListed, UpdateRow
<1>4. CASE rows' \subseteq rows /\ ~ UpdateRow(c)
  BY <1>4
<1>5. QED
  BY <1>1, <1>2, <1>3, <1>4 DEF Work, Fail, Start, BrokenTable, CreateOnServer, Resolve,
     DeleteOnServer, ReadEnv, PutEnv, ReadProject, PutProject, PollProject, FetchOne, DeleteRow,
     Without, ClearRows, ListPage, Recreate, file

LEMMA RowsCurrentStep ==
  ASSUME Control, HeldCurrent, RowsCurrent, NEW c \in Command, Work(c) \/ Fail(c)
  PROVE  RowsCurrent'
<1>0. TypeOK /\ TypeOK' /\ InItsStages /\ MineOK /\ (Work(c) \/ Fail(c))
  BY ControlStep DEF Control
<1> SUFFICES ASSUME Unfailed', NEW s \in rows', s.env \notin overtaken'
             PROVE  s.edition = edition'[s.env] \/ \E d \in Command : Refreshes(d, s.env)'
  BY DEF RowsCurrent
<1>1. Unfailed /\ s.env \notin overtaken
  BY <1>0, HistoryKept
<1>2. s.env \in Env
  BY <1>0 DEF TypeOK, Row
<1>3. CASE s \in rows /\ ~ (UpdateRow(c) /\ mine[c] = s.env)
  <2>1. CASE \E d \in Command : Refreshes(d, s.env)
    BY <1>3, <2>1, RefreshesKept DEF Refreshes
  <2>2. CASE s.edition = edition[s.env]
    <3>1. CASE edition'[s.env] = edition[s.env]
      BY <2>2, <3>1
    <3>2. CASE edition'[s.env] # edition[s.env]
      <4>1. PutEnv(c) /\ edition' # edition
        BY <1>0, <3>2 DEF Work, Fail, Start, BrokenTable, CreateOnServer, Resolve, DeleteOnServer,
           ReadEnv, ReadProject, PutProject, PollProject, FetchOne, InsertRow, UpdateRow,
           DeleteRow, ClearRows, ListPage, InsertListed, Recreate, server, list
      <4>2. mine[c] = s.env /\ mine' = mine /\ pc'[c] = "fetch"
        BY <1>0, <1>2, <3>2, <4>1 DEF PutEnv, local, Goto, TypeOK
      <4>3. OpOf[c] = "update"
        BY <1>0, <4>1, CacheAssumption DEF PutEnv, InItsStages, StagesOf, Op, Ended
      <4>4. QED
        BY <4>2, <4>3 DEF Refreshes
    <3>3. QED
      BY <3>1, <3>2
  <2>3. QED
    BY <1>1, <1>3, <2>1, <2>2 DEF RowsCurrent
<1>4. CASE s.env = mine[c] /\ s.edition = copy[c] /\ (InsertRow(c) \/ UpdateRow(c))
  <2>1. copy[c] = edition[mine[c]] /\ edition' = edition
    BY <1>1, <1>4 DEF HeldCurrent, InsertRow, UpdateRow, server, list
  <2>2. QED
    BY <1>4, <2>1
<1>5. CASE s \in listed[c] /\ InsertListed(c)
  <2>1. s.edition = edition[s.env] /\ edition' = edition
    BY <1>1, <1>5 DEF HeldCurrent, InsertListed, server, list
  <2>2. QED
    BY <2>1
<1>6. QED
  BY <1>0, <1>3, <1>4, <1>5, RowsCome

(* A deletion under way stays under way until it has removed the row.        *)
LEMMA RemovingKept ==
  ASSUME Control, NEW c \in Command, Work(c) \/ Fail(c), Unfailed',
         NEW d \in Command, NEW e, Removing(d), mine[d] = e
  PROVE  (Removing(d)' /\ mine'[d] = e) \/ (DeleteRow(c) /\ mine[c] = e)
<1>0. TypeOK /\ pc'[c] \notin {"failed", "broken"} /\ (Work(c) \/ Fail(c))
  BY DEF Control, Unfailed
<1>1. CASE d # c
  BY <1>0, <1>1, Others DEF Removing, Adds
<1>2. CASE d = c
  <2>1. CASE ReadProject(c) \/ PutProject(c) \/ PollProject(c)
    BY <1>0, <1>2, <2>1 DEF ReadProject, PutProject, PollProject, AfterPoll, local, Goto, TypeOK,
       Removing, Adds
  <2>2. CASE DeleteRow(c)
    BY <1>2, <2>2
  <2>3. QED
    BY <1>0, <1>2, <2>1, <2>2 DEF Removing, Work, Fail, Start, BrokenTable, CreateOnServer,
       Resolve, DeleteOnServer, ReadEnv, PutEnv, FetchOne, InsertRow, UpdateRow, ClearRows,
       ListPage, InsertListed, Recreate, Goto, TypeOK
<1>3. QED
  BY <1>1, <1>2

(* An environment that lingers did so before, or is one the server has.      *)
LEMMA LingersFrom ==
  ASSUME Control, NEW c \in Command, Work(c) \/ Fail(c), NEW e, Lingers(e)'
  PROVE  Lingers(e) \/ e \in live
<1>0. TypeOK /\ MineOK /\ CreatedStay /\ (Work(c) \/ Fail(c))
  BY DEF Control
<1>1. CASE e \in Cached'
  <2>1. PICK s \in rows' : s.env = e
    BY <1>1 DEF Cached
  <2>2. CASE InsertRow(c) /\ mine[c] = e
    BY <1>0, <2>2 DEF InsertRow, MineOK, CreatedStay
  <2>3. CASE UpdateRow(c)
    BY <1>1, <2>3, UpdatedRows DEF Lingers
  <2>4. CASE s \in listed[c] /\ InsertListed(c)
    BY <2>1, <2>4 DEF InsertListed, HoldsListed, Lingers
  <2>5. CASE s \in rows
    BY <2>1, <2>5 DEF Cached, Lingers
  <2>6. QED
    BY <1>0, <2>1, <2>2, <2>3, <2>4, <2>5, RowsCome
<1>2. CASE \E d \in Command : HoldsListed(d, e)'
  <2>1. PICK d \in Command : HoldsListed(d, e)'
    BY <1>2
  <2>2. CASE d # c
    BY <1>0, <2>1, <2>2, Others DEF HoldsListed, Lingers
  <2>3. CASE d = c
    <3>1. CASE ListPage(c)
      <4>1. \A l \in listed'[c] : l \in listed[c] \/ \E x \in Page(offset[c]) : l.env = x
        BY <1>0, <3>1 DEF ListPage, TypeOK
      <4>2. pc[c] = "list"
        BY <3>1 DEF ListPage
      <4>3. QED
        BY <2>1, <2>3, <4>1, <4>2, PageIsLive DEF HoldsListed, Lingers
    <3>2. CASE InsertListed(c)
      BY <1>0, <2>1, <2>3, <3>2 DEF InsertListed, TypeOK, HoldsListed, Lingers
    <3>3. CASE ClearRows(c)
      BY <1>0, <2>1, <2>3, <3>3 DEF ClearRows, local, HoldsListed, Control, ListingOK
    <3>4. QED
      BY <1>0, <2>1, <2>3, <3>1, <3>2, <3>3 DEF Work, Fail, Start, BrokenTable, CreateOnServer,
         Resolve, DeleteOnServer, ReadEnv, PutEnv, ReadProject, PutProject, PollProject,
         AfterPoll, FetchOne, InsertRow, UpdateRow, DeleteRow, AfterDelete, Recreate, Goto,
         TypeOK, HoldsListed
  <2>4. QED
    BY <2>2, <2>3
<1>3. QED
  BY <1>1, <1>2 DEF Lingers

LEMMA GhostStep ==
  ASSUME Control, GhostInv, NEW c \in Command, Work(c) \/ Fail(c)
  PROVE  GhostInv'
<1>0. TypeOK /\ InItsStages /\ MineOK /\ (Work(c) \/ Fail(c))
  BY DEF Control
<1> SUFFICES ASSUME Unfailed', NEW e \in Env, e \notin outrun', e \notin live', Lingers(e)'
             PROVE  \E d \in Command : (Removing(d) /\ mine[d] = e)'
  BY DEF GhostInv, Env
<1>1. Unfailed /\ e \notin outrun
  BY <1>0, HistoryKept
<1>2. CASE e \in live
  <2>1. DeleteOnServer(c) /\ mine[c] = e /\ mine[c] = Named[c] /\ live' # live
    BY <1>0, <1>2, Server
  <2>2. pc'[c] = "read" /\ mine' = mine
    BY <1>0, <2>1 DEF DeleteOnServer, local, Goto, TypeOK
  <2>3. OpOf[c] \in {"delete", "replace"}
    BY <1>0, <2>1, CacheAssumption DEF DeleteOnServer, InItsStages, StagesOf, Op, Ended
  <2>4. QED
    BY <2>1, <2>2, <2>3 DEF Removing, Adds
<1>3. CASE e \notin live
  <2>1. PICK d \in Command : Removing(d) /\ mine[d] = e
    BY <1>0, <1>1, <1>3, LingersFrom DEF GhostInv
  <2>2. CASE DeleteRow(c) /\ mine[c] = e
    <3>1. rows' = Without(e)
      BY <1>0, <2>2 DEF DeleteRow, Goto, TypeOK, Unfailed
    <3>2. e \notin Cached'
      BY <3>1 DEF Without, Cached
    <3>3. PICK x \in Command : HoldsListed(x, e)'
      BY <3>2 DEF Lingers
    <3>4. HoldsListed(x, e)
      <4>1. CASE x # c
        BY <1>0, <3>3, <4>1, Others DEF HoldsListed
      <4>2. CASE x = c
        BY <1>0, <2>2, <3>3, <4>2 DEF DeleteRow, AfterDelete, Goto, TypeOK, HoldsListed
      <4>3. QED
        BY <4>1, <4>2
    <3>5. e \in outrun'
      BY <1>0, <2>2, <3>1, <3>2, <3>4 DEF DeleteRow, Goto, TypeOK, Unfailed
    <3>6. QED
      BY <3>5
  <2>3. QED
    BY <1>0, <2>1, <2>2, RemovingKept
<1>4. QED
  BY <1>2, <1>3

-----------------------------------------------------------------------------
LEMMA CacheInit == Init => IInv
<1> SUFFICES ASSUME Init PROVE IInv
  OBVIOUS
<1> USE CacheAssumption DEF Init
<1>1. \A r \in rows : r \in Row /\ r.env \in 1 .. NInitial /\ r.edition = 0
  BY DEF Row, Env
<1>2. Cached = 1 .. NInitial
  <2>1. \A e \in 1 .. NInitial : [env |-> e, edition |-> 0] \in rows
                                 /\ [env |-> e, edition |-> 0].env = e
    OBVIOUS
  <2>2. QED
    BY <1>1, <2>1 DEF Cached
<1>3. TypeOK
  <2>1. 1 .. NInitial \subseteq Env
    BY DEF Env
  <2>2. project \in ProjectSpec
    BY <2>1 DEF ProjectSpec
  <2>3. \A r, q \in rows : r.env = q.env => r = q
    BY <1>1 DEF Row
  <2>4. QED
    BY <1>1, <1>2, <2>2, <2>3 DEF TypeOK, Stage
<1>4. InItsStages
  BY DEF InItsStages, StagesOf, Op
<1>5. MineOK /\ CreatedStay /\ ListingOK
  BY DEF MineOK, Adding, Removing, CreatedStay, ListingOK
<1>6. ReadOK /\ TaskOK /\ AssociatedInv
  BY <1>3 DEF ReadOK, TaskOK, AssociatedInv, TypeOK, ProjectSpec
<1>7. CompleteInv /\ HeldCurrent
  BY <1>2 DEF CompleteInv, HeldCurrent
<1>8. RowsCurrent /\ GhostInv
  BY <1>1, <1>2 DEF RowsCurrent, GhostInv, Lingers, HoldsListed, Env
<1>9. QED
  BY <1>3, <1>4, <1>5, <1>6, <1>7, <1>8 DEF IInv, Control

LEMMA CacheStep == IInv /\ [Next]_vars => IInv'
<1> SUFFICES ASSUME IInv, [Next]_vars PROVE IInv'
  OBVIOUS
<1>1. CASE UNCHANGED vars
  <2>1. Control'
    BY <1>1 DEF vars, local, server, list, file, IInv, Control, TypeOK, Cached, InItsStages,
       MineOK, Adding, Removing, Adds, CreatedStay, ListingOK
  <2>2. ReadOK' /\ TaskOK' /\ AssociatedInv'
    BY <1>1 DEF vars, local, server, list, file, IInv, ReadOK, TaskOK, AssociatedInv, Pending
  <2>3. \A c \in Command, e \in live : Brings(c, e)' <=> Brings(c, e)
    BY <1>1 DEF vars, local, server, list, file, Brings, Adding, Adds, Unpaged, HoldsListed
  <2>4. (Unfailed' <=> Unfailed) /\ Cached' = Cached
    BY <1>1 DEF vars, local, server, list, file, Unfailed, Cached
  <2>5. CompleteInv'
    BY <1>1, <2>3, <2>4 DEF vars, local, server, list, file, IInv, CompleteInv
  <2>6. HeldCurrent' /\ RowsCurrent'
    BY <1>1, <2>4 DEF vars, local, server, list, file, IInv, HeldCurrent, RowsCurrent, Refreshes
  <2>7. GhostInv'
    BY <1>1, <2>4 DEF vars, local, server, list, file, IInv, GhostInv, Lingers, HoldsListed,
       Removing, Adds
  <2>8. QED
    BY <2>1, <2>2, <2>5, <2>6, <2>7 DEF IInv
<1>2. ASSUME NEW c \in Command, Work(c) \/ Fail(c) PROVE IInv'
  BY <1>2, ControlStep, ReadStep, TaskStep, AssociatedStep, CompleteStep, HeldStep,
     RowsCurrentStep, GhostStep DEF IInv
<1>3. CASE TaskEnds
  <2>1. Control' /\ ReadOK' /\ TaskOK' /\ AssociatedInv'
    BY <1>3, TaskEndsStep DEF IInv
  <2>2. UNCHANGED <<pc, local, live, edition, born, shifted, overtaken, file>>
    BY <1>3 DEF TaskEnds
  <2>3. \A c \in Command, e \in live : Brings(c, e)' <=> Brings(c, e)
    BY <2>2 DEF local, Brings, Adding, Adds, Unpaged, HoldsListed
  <2>4. (Unfailed' <=> Unfailed) /\ Cached' = Cached
    BY <2>2 DEF file, Unfailed, Cached
  <2>5. CompleteInv'
    BY <2>2, <2>3, <2>4 DEF file, IInv, CompleteInv
  <2>6. HeldCurrent' /\ RowsCurrent'
    BY <2>2, <2>4 DEF local, file, IInv, HeldCurrent, RowsCurrent, Refreshes
  <2>7. GhostInv'
    BY <2>2, <2>4 DEF local, file, IInv, GhostInv, Lingers, HoldsListed, Removing, Adds
  <2>8. QED
    BY <2>1, <2>5, <2>6, <2>7 DEF IInv
<1>4. QED
  BY <1>1, <1>2, <1>3 DEF Next, Terminated

(* The inductive invariant: the stages and the environment of each command,  *)
(* what a copy of the project is worth by its version, and, for each way in  *)
(* which cache, list and server may differ, the command that will set it     *)
(* right or has complained.                                                 *)
THEOREM CacheInvariant == Spec => []IInv
BY CacheInit, CacheStep, PTL DEF Spec

(* Every variable keeps its type; in particular no environment has two rows, *)
(* and no row is of an environment that was never created.                   *)
THEOREM CacheTypes == Spec => []TypeOK
<1>1. IInv => TypeOK
  BY DEF IInv, Control
<1>2. QED
  BY <1>1, CacheInvariant, PTL

(* When every command so far ended without an error, the cache lists the     *)
(* server's environments as they are: none is missing unless the cache was   *)
(* cleared or an environment was deleted between two pages, none is left     *)
(* over unless its row was deleted before another update cache inserted it,  *)
(* and none is out of date unless it was changed between being read and      *)
(* being written.                                                           *)
THEOREM SilentMeansListedHolds == Spec => []SilentMeansListed
<1>1. ASSUME IInv, Silent PROVE SilentMeansListed
  <2>1. Unfailed /\ \A c \in Command : pc[c] \in {"start", "done"}
    BY <1>1 DEF Silent, Unfailed
  <2>2. SilentMeansComplete
    BY <1>1, <2>1 DEF SilentMeansComplete, Complete, IInv, CompleteInv, Brings, Adding,
       HoldsListed
  <2>3. SilentMeansNoGhost
    <3>1. TypeOK /\ Cached \subseteq Env
      BY <1>1, CacheAssumption DEF IInv, Control, TypeOK, Cached, Row
    <3>2. QED
      BY <1>1, <2>1, <3>1 DEF SilentMeansNoGhost, IInv, GhostInv, Lingers, Removing
  <2>4. SilentMeansFresh
    BY <1>1, <2>1 DEF SilentMeansFresh, IInv, RowsCurrent, Refreshes
  <2>5. QED
    BY <2>2, <2>3, <2>4 DEF SilentMeansListed
<1>2. IInv => SilentMeansListed
  BY <1>1 DEF SilentMeansListed, SilentMeansComplete, Complete, SilentMeansNoGhost,
     SilentMeansFresh
<1>3. QED
  BY <1>2, CacheInvariant, PTL

(* In the same situation the project's list names exactly the environments   *)
(* that exist, but for those whose task is still at work, or failed when     *)
(* nobody waited for it any more: a copy of an older version is refused, so  *)
(* no command puts back a list that another has changed since.               *)
THEOREM SilentMeansAssociatedHolds == Spec => []SilentMeansAssociated
<1>1. IInv => SilentMeansAssociated
  BY DEF IInv, AssociatedInv, Pending, Silent, SilentMeansAssociated
<1>2. QED
  BY <1>1, CacheInvariant, PTL
=============================================================================
