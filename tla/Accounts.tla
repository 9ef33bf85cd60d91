-------------------------------- MODULE Accounts --------------------------------
(***************************************************************************)
(* Accounts (src/calm/dsl/cli/accounts.py).  One with a credential provider *)
(* is three entities of one name - the provider, its resource type and the  *)
(* account - that are created, updated and deleted one call after another;  *)
(* any other is the account alone, a custom one if it is that of a provider *)
(* somebody has made before.  There is one name, and "edition" tells which  *)
(* description an entity was made from.                                    *)
(*                                                                         *)
(* The server is external: it keeps what it is sent, and may refuse a call. *)
(***************************************************************************)
EXTENDS Administrators

CONSTANTS
    Edition,           \* descriptions an administrator has of the account
    AccountRequest     \* what an administrator may ask for

AccountOp == {"createAccount", "updateAccount", "deleteAccount"}
Part == {"provider", "type", "account"}

ASSUME AccountsAssumption ==
    AccountRequest \subseteq [op : AccountOp, edition : Edition, force : BOOLEAN]

VARIABLES
    nature,        \* what provider the account has
    parts,         \* the entities there are: at most one of each part
    accountInHand, \* the account each command has found: at most one
    accountRows,   \* the accounts the local cache lists
    accountIds,    \* identities handed out
    unheeded       \* history: a provider was refused, which no command looks at

accountOwn == <<nature, parts, accountInHand, accountRows, accountIds, unheeded>>
accountVars == <<accountOwn, admins>>

AccountNature == {"ahv", "other", "credential", "custom"}

PartType == [part : Part, id : Nat, edition : Edition]

AccountStage ==
    {"idle", "makeProvider", "makeType", "checkAccount", "deleteOld", "makeAccount", "listAccount",
     "getAccount", "putProvider", "putType", "getProvider", "putAccount", "refreshAccount",
     "dropType", "dropAccount", "dropProvider", "unlistAccount"}

AccountsTypeOK ==
    /\ nature \in AccountNature
    /\ parts \subseteq PartType
    /\ \A p, q \in parts : p.part = q.part => p = q
    /\ accountInHand \in [Admin -> SUBSET Nat]
    /\ accountRows \subseteq Nat
    /\ accountIds \in Nat
    /\ unheeded \in BOOLEAN

PartsOf == IF nature = "credential" THEN Part ELSE {"account"}

Of(part) == {p \in parts : p.part = part}

(* Start with no account, or with a whole one that the cache lists.        *)
AccountsStart ==
    /\ nature \in AccountNature
    /\ \/ parts = {} /\ accountIds = 0
       \/ /\ \E e \in Edition :
               parts = {[part |-> p, id |-> 1, edition |-> e] :
                           p \in PartsOf}
          /\ accountIds = 1
    /\ accountInHand = [a \in Admin |-> {}]
    /\ accountRows = {p.id : p \in Of("account")}
    /\ unheeded = FALSE

AccountsInit == AdminsInit /\ AccountsStart

-----------------------------------------------------------------------------
(* Commands on one account are not meant to run at the same time.          *)
AccountClash(r, q) == TRUE

AccountBegin(a) ==
    /\ \E r \in AccountRequest :
         Start(a, r, IF r.op # "createAccount" THEN "getAccount"
                     ELSE IF nature = "credential" THEN "makeProvider" ELSE "checkAccount", AccountClash)
    /\ accountInHand' = [accountInHand EXCEPT ![a] = {}]
    /\ UNCHANGED <<nature, parts, accountRows, accountIds, unheeded>>

AccountRefused(a) == Fail(a) /\ UNCHANGED accountOwn

(* A new entity, of the description in the request; names are taken once.  *)
Make(a, part) ==
    /\ Of(part) = {}
    /\ parts' = parts \cup {[part |-> part, id |-> accountIds + 1, edition |-> request[a].edition]}
    /\ accountIds' = accountIds + 1

PutPart(a, part) ==
    /\ Of(part) # {}
    /\ parts' = {IF p.part = part THEN [p EXCEPT !.edition = request[a].edition] ELSE p : p \in parts}

DropPart(part) ==
    /\ Of(part) # {}
    /\ parts' = parts \ Of(part)

-----------------------------------------------------------------------------
(* create.  --force is not passed on: a provider that is there is an error. *)
(* Whether the new provider was accepted nobody asks.                      *)
MakeProvider(a) ==
    /\ stage[a] = "makeProvider"
    /\ \/ /\ Make(a, "provider")
          /\ Proceed(a, "makeType") \/ Fail(a)
          /\ UNCHANGED <<nature, accountInHand, accountRows, unheeded>>
       \/ /\ Of("provider") = {}
          /\ unheeded' = TRUE
          /\ Proceed(a, "makeType")
          /\ UNCHANGED <<nature, parts, accountInHand, accountRows, accountIds>>
       \/ AccountRefused(a)

MakeType(a) ==
    /\ stage[a] = "makeType"
    /\ \/ /\ Make(a, "type")
          /\ Proceed(a, "checkAccount") \/ Fail(a)
          /\ UNCHANGED <<nature, accountInHand, accountRows, unheeded>>
       \/ AccountRefused(a)

CheckAccount(a) ==
    /\ stage[a] = "checkAccount"
    /\ \/ Of("account") = {} /\ Proceed(a, "makeAccount") /\ UNCHANGED accountOwn
       \/ /\ Of("account") # {} /\ request[a].force
          /\ accountInHand' = [accountInHand EXCEPT ![a] = {p.id : p \in Of("account")}]
          /\ Proceed(a, "deleteOld")
          /\ UNCHANGED <<nature, parts, accountRows, accountIds, unheeded>>
       \/ AccountRefused(a)

(* The row of the account that is deleted by --force stays.                *)
DeleteOld(a) ==
    /\ stage[a] = "deleteOld"
    /\ \/ /\ \E p \in Of("account") : p.id \in accountInHand[a]
          /\ DropPart("account")
          /\ Proceed(a, "makeAccount") \/ Fail(a)
          /\ UNCHANGED <<nature, accountInHand, accountRows, accountIds, unheeded>>
       \/ AccountRefused(a)

(* An account that is returned as a draft is an error.                     *)
MakeAccount(a) ==
    /\ stage[a] = "makeAccount"
    /\ \/ /\ Make(a, "account")
          /\ accountInHand' = [accountInHand EXCEPT ![a] = {accountIds'}]
          /\ Proceed(a, "listAccount") \/ Fail(a)
          /\ UNCHANGED <<nature, accountRows, unheeded>>
       \/ AccountRefused(a)

(* For an AHV account the table is emptied and filled again, and others     *)
(* after it: any of the calls may fail.  For another, one row is changed.   *)
ReadAnew(a) ==
    \/ /\ accountRows' = {p.id : p \in Of("account")}
       /\ Proceed(a, "idle") \/ Fail(a)
    \/ accountRows' = {} /\ Fail(a)

Relist(a, rows) ==
    \/ nature = "ahv" /\ ReadAnew(a)
    \/ /\ nature # "ahv"
       /\ \/ accountRows' = rows /\ Proceed(a, "idle")
          \/ UNCHANGED accountRows /\ Fail(a)

ListAccount(a) ==
    /\ stage[a] = "listAccount"
    /\ Relist(a, accountRows \cup accountInHand[a])
    /\ UNCHANGED <<nature, parts, accountInHand, accountIds, unheeded>>

-----------------------------------------------------------------------------
(* update and delete find the account by its name.  Of a custom account     *)
(* delete_account deletes nothing, and goes on to its row.                 *)
FirstDropped ==
    CASE nature = "credential" -> "dropType"
      [] nature = "custom" -> "unlistAccount"
      [] OTHER -> "dropAccount"

GetAccount(a) ==
    /\ stage[a] = "getAccount"
    /\ \/ \E p \in Of("account") :
            /\ accountInHand' = [accountInHand EXCEPT ![a] = {p.id}]
            /\ Proceed(a, CASE request[a].op = "updateAccount" ->
                                 IF nature = "credential" THEN "putProvider" ELSE "putAccount"
                            [] OTHER -> FirstDropped)
            /\ UNCHANGED <<nature, parts, accountRows, accountIds, unheeded>>
       \/ AccountRefused(a)

(* The answers of update_provider and update_resource_types are not looked  *)
(* at; that an entity is not there is an error all the same.               *)
PutUnheeded(a, part, s) ==
    \/ /\ PutPart(a, part)
       /\ Proceed(a, s)
       /\ UNCHANGED <<nature, accountInHand, accountRows, accountIds, unheeded>>
    \/ /\ Of(part) # {}
       /\ unheeded' = TRUE
       /\ Proceed(a, s)
       /\ UNCHANGED <<nature, parts, accountInHand, accountRows, accountIds>>
    \/ AccountRefused(a)

PutProvider(a) == stage[a] = "putProvider" /\ PutUnheeded(a, "provider", "putType")

PutType(a) == stage[a] = "putType" /\ PutUnheeded(a, "type", "getProvider")

GetProvider(a) ==
    /\ stage[a] = "getProvider"
    /\ (Of("provider") # {} /\ Proceed(a, "putAccount")) \/ Fail(a)
    /\ UNCHANGED accountOwn

PutAccount_Skipped(a) == \* Mutant: the account of a custom provider is not updated
    /\ stage[a] = "putAccount"
    /\ Proceed(a, "refreshAccount")
    /\ UNCHANGED accountOwn

PutAccount(a) ==
    /\ stage[a] = "putAccount"
    /\ \/ /\ PutPart(a, "account")
          /\ Proceed(a, "refreshAccount") \/ Fail(a)
          /\ UNCHANGED <<nature, accountInHand, accountRows, accountIds, unheeded>>
       \/ AccountRefused(a)

RefreshAccount(a) ==
    /\ stage[a] = "refreshAccount"
    /\ Relist(a, accountRows)
    /\ UNCHANGED <<nature, parts, accountInHand, accountIds, unheeded>>

-----------------------------------------------------------------------------
(* delete: the resource types, the account and the provider, in this order. *)
Drop(a, part, s) ==
    \/ /\ DropPart(part)
       /\ Proceed(a, s) \/ Fail(a)
       /\ UNCHANGED <<nature, accountInHand, accountRows, accountIds, unheeded>>
    \/ AccountRefused(a)

DropType(a) ==
    /\ stage[a] = "dropType"
    /\ \/ Of("type") = {} /\ Proceed(a, "dropAccount") /\ UNCHANGED accountOwn
       \/ Drop(a, "type", "dropAccount")

DropAccount_Last(a) == \* Mutant: the provider goes before the account
    /\ stage[a] = "dropAccount"
    /\ IF nature = "credential" THEN Drop(a, "provider", "unlistAccount") ELSE Drop(a, "account", "unlistAccount")

(* The task that takes an AHV account off is polled; the command goes on    *)
(* after a failure or the last poll.                                       *)
DropAccount(a) ==
    /\ stage[a] = "dropAccount"
    /\ \/ Drop(a, "account", IF nature = "credential" THEN "dropProvider" ELSE "unlistAccount")
       \/ /\ nature = "ahv" /\ Of("account") # {}
          /\ parts' \in {parts, parts \ Of("account")}
          /\ Complain(a, "unlistAccount")
          /\ UNCHANGED <<nature, accountInHand, accountRows, accountIds, unheeded>>

DropProvider(a) ==
    /\ stage[a] = "dropProvider"
    /\ Drop(a, "provider", "unlistAccount")

(* That a row could not be taken out goes to the debug log only.            *)
UnlistAccount(a) ==
    /\ stage[a] = "unlistAccount"
    /\ \/ nature = "ahv" /\ ReadAnew(a)
       \/ /\ nature # "ahv"
          /\ accountRows' \in {accountRows, accountRows \ accountInHand[a]}
          /\ Proceed(a, "idle")
    /\ UNCHANGED <<nature, parts, accountInHand, accountIds, unheeded>>

AccountWork(a) ==
    \/ MakeProvider(a) \/ MakeType(a) \/ CheckAccount(a) \/ DeleteOld(a) \/ MakeAccount(a)
    \/ ListAccount(a) \/ GetAccount(a) \/ PutProvider(a) \/ PutType(a) \/ GetProvider(a)
    \/ PutAccount(a) \/ RefreshAccount(a) \/ DropType(a) \/ DropAccount(a) \/ DropProvider(a)
    \/ UnlistAccount(a)

AccountsFinished == Exhausted /\ UNCHANGED accountVars

AccountsNext ==
    \/ \E a \in Admin : AccountBegin(a) \/ AccountWork(a)
    \/ AccountsFinished

AccountsSpec == AccountsInit /\ [][AccountsNext]_accountVars

-----------------------------------------------------------------------------
(* An account with a credential provider never stands without its provider, at no *)
(* point of a creation or a deletion and after none that stopped halfway -  *)
(* unless the provider was refused, which create_account ignores, or two    *)
(* commands run at the same time.                                          *)
AccountHasProvider ==
    nature = "credential" /\ ~ unheeded /\ ~ overlapped /\ Of("account") # {} => Of("provider") # {}

(* A creation or an update that logs no error leaves all the parts of the   *)
(* account as they were described, and a new one listed; a deletion leaves  *)
(* none, except of a custom account, which it does not delete at all.  An   *)
(* AHV account is no longer listed then; the row of another may have stayed, *)
(* but no other row is gone.                                               *)
AccountEndsAsAsked ==
    [][\A a \in Admin : EndsSilently(a) /\ ~ overlapped' =>
         LET r == request[a]
         IN  CASE r.op = "deleteAccount" ->
                     /\ nature # "custom" => parts' = {}
                     /\ nature = "ahv" => accountRows' = {}
                     /\ nature # "ahv" => accountRows \ accountRows' \subseteq accountInHand[a]
               [] r.op \in AccountOp \ {"deleteAccount"} ->
                     /\ {p.id : p \in {p \in parts' : p.part = "account"}} = accountInHand[a]
                     /\ r.op = "createAccount" => accountInHand[a] \subseteq accountRows'
                     /\ ~ unheeded' =>
                          /\ {p.part : p \in parts'} = PartsOf
                          /\ \A p \in parts' : p.edition = r.edition
               [] OTHER -> TRUE]_accountVars
=============================================================================
