-------------------------- MODULE SecretStoreProofs --------------------------
(***************************************************************************)
(* For any processes, names, values and number of commands: as long as no  *)
(* command that deletes overlapped with another, no value is without its   *)
(* secret, a secret never has two values, find returns the last value      *)
(* stored, and a secret without a value was interrupted.                   *)
(***************************************************************************)
EXTENDS SecretStore, TLAPS

(* A process that is at work has its arguments, and only the commands that *)
(* delete get to the stages that delete.                                   *)
AtWork ==
    \A p \in Process :
        /\ pc[p] # "idle" => op[p] \in Op /\ name[p] \in Name /\ value[p] \in Value
        /\ pc[p] \in {"deleteData", "deleteSecret", "clear", "recreate"}
             => op[p] \in Destructive
        /\ pc[p] = "find" => answer[p] = NoValue

(* Without an overlap, who deletes is the only process at work.            *)
Alone ==
    \A p, q \in Process :
        pc[p] # "idle" /\ pc[q] # "idle" /\ op[p] \in Destructive => p = q

(* Who inserts a value is alone with its secret, which has none yet.       *)
OneCreator ==
    /\ \A p \in Process : pc[p] = "insertData" => name[p] \in secrets /\ Data(name[p]) = {}
    /\ \A p, q \in Process :
         pc[p] = "insertData" /\ pc[q] = "insertData" /\ name[p] = name[q] => p = q

ValuesGoFirst ==
    \A p \in Process : pc[p] = "deleteSecret" => Data(name[p]) = {}

(* The two tables agree, and hold what was stored last.                    *)
TablesAgree ==
    /\ \A r \in data : r.ref \in secrets /\ r.value = latest[r.ref]
    /\ \A r, s \in data : r.ref = s.ref => r = s

EmptyExplained ==
    \A n \in secrets : Data(n) = {} => Busy(n) \/ n \in interrupted

Undisturbed == Alone /\ OneCreator /\ ValuesGoFirst /\ TablesAgree /\ EmptyExplained

IInv == TypeOK /\ AtWork /\ (~ overlapped => Undisturbed)

LEMMA InitIInv == Init => IInv
<1> SUFFICES ASSUME Init PROVE IInv
  OBVIOUS
<1>1. TypeOK
  BY DEF Init, TypeOK
<1>2. AtWork
  BY DEF Init, AtWork
<1>3. Undisturbed
  BY DEF Init, Undisturbed, Alone, OneCreator, ValuesGoFirst, TablesAgree, EmptyExplained, Data
<1> QED
  BY <1>1, <1>2, <1>3 DEF IInv

(* Types and arguments are kept, overlap or not. *)
LEMMA StepTypes ==
    ASSUME StoreAssumption, TypeOK, AtWork, [Next]_vars
    PROVE  TypeOK' /\ AtWork'
<1> USE DEF TypeOK, AtWork, Goto, arguments, tables, history
<1>1. ASSUME NEW p \in Process, Begin(p) PROVE TypeOK' /\ AtWork'
  <2> PICK o \in Op, n \in Name, v \in Value :
        /\ op' = [op EXCEPT ![p] = o]
        /\ name' = [name EXCEPT ![p] = n]
        /\ value' = [value EXCEPT ![p] = v]
        /\ Goto(p, IF o = "find" THEN "find"
                   ELSE IF o = "clear" THEN "clear"
                   ELSE IF o = "clearCache" THEN "recreate" ELSE "check")
        /\ todo' = [todo EXCEPT ![p] = IF o = "clear" THEN secrets ELSE {}]
        /\ overlapped' = (overlapped \/ Overlaps(p, o))
    BY <1>1 DEF Begin
  <2>1. TypeOK'
    BY <1>1 DEF Begin
  <2>2. AtWork'
    BY <1>1 DEF Begin, Destructive
  <2> QED
    BY <2>1, <2>2
<1>2. ASSUME NEW p \in Process, Check(p) \/ Open(p) \/ Interrupt(p) \/ Clear(p)
      PROVE  TypeOK' /\ AtWork'
  <2>1. TypeOK'
    BY <1>2 DEF Check, Open, Interrupt, Clear
  <2>2. AtWork'
    BY <1>2 DEF Check, Open, Interrupt, Clear, Destructive
  <2> QED
    BY <2>1, <2>2
<1>3. ASSUME NEW p \in Process, Find(p) PROVE TypeOK' /\ AtWork'
  BY <1>3 DEF Find, Data, Row
<1>4. ASSUME NEW p \in Process, InsertSecret(p) \/ DeleteSecret(p) \/ Recreate(p)
      PROVE  TypeOK' /\ AtWork'
  BY <1>4 DEF InsertSecret, DeleteSecret, Recreate, Destructive
<1>5. ASSUME NEW p \in Process, InsertData(p) PROVE TypeOK' /\ AtWork'
  BY <1>5 DEF InsertData, Row
<1>6. ASSUME NEW p \in Process, Store(p) PROVE TypeOK' /\ AtWork'
  BY <1>6 DEF Store, Row
<1>7. ASSUME NEW p \in Process, DeleteData(p) PROVE TypeOK' /\ AtWork'
  BY <1>7 DEF DeleteData, Data
<1>8. CASE UNCHANGED vars
  BY <1>8 DEF vars
<1> QED
  BY <1>1, <1>2, <1>3, <1>4, <1>5, <1>6, <1>7, <1>8 DEF Next, Step, Finished

(* An overlap is never forgotten. *)
LEMMA OverlapStays ==
    ASSUME [Next]_vars, ~ overlapped' PROVE ~ overlapped
BY DEF Next, Step, Finished, vars, history, Begin, Check, InsertSecret, InsertData, Open, Store,
   Find, DeleteData, DeleteSecret, Clear, Recreate, Interrupt

(* A process starts a command that deletes, or next to one, at the price of *)
(* an overlap; the other steps start nothing.                               *)
LEMMA StepAlone ==
    ASSUME TypeOK, AtWork, Alone, [Next]_vars, ~ overlapped'
    PROVE  Alone'
<1> USE DEF TypeOK, Alone, Goto, arguments
<1>1. ASSUME NEW p \in Process, Begin(p) PROVE Alone'
  <2>1. PICK o \in Op : op' = [op EXCEPT ![p] = o] /\ overlapped' = (overlapped \/ Overlaps(p, o))
    BY <1>1 DEF Begin
  <2>2. \A q \in Process \ {p} :
          /\ pc'[q] = pc[q] /\ op'[q] = op[q]
          /\ pc[q] # "idle" => o \notin Destructive /\ op[q] \notin Destructive
    BY <1>1, <2>1 DEF Begin, Overlaps
  <2>3. op'[p] = o
    BY <2>1
  <2> SUFFICES ASSUME NEW a \in Process, NEW b \in Process, a # b,
                      pc'[a] # "idle", pc'[b] # "idle", op'[a] \in Destructive
               PROVE  FALSE
    BY DEF Alone
  <2>4. CASE a = p
    BY <2>2, <2>3, <2>4
  <2>5. CASE b = p
    BY <2>2, <2>5
  <2>6. CASE a # p /\ b # p
    BY <2>2, <2>6
  <2> QED
    BY <2>4, <2>5, <2>6
<1>2. ASSUME NEW p \in Process, Step(p), ~ Begin(p) PROVE Alone'
  BY <1>2 DEF Step, Check, InsertSecret, InsertData, Open, Store, Find, DeleteData,
     DeleteSecret, Clear, Recreate, Interrupt
<1>3. CASE UNCHANGED vars
  BY <1>3 DEF vars
<1> QED
  BY <1>1, <1>2, <1>3 DEF Next, Finished

Tables == OneCreator /\ ValuesGoFirst /\ TablesAgree /\ EmptyExplained

(* Steps that leave the tables alone. *)
LEMMA QuietStep ==
    ASSUME Tables, NEW p \in Process,
           UNCHANGED <<secrets, data, nextId, latest>>,
           interrupted \subseteq interrupted',
           \A q \in Process \ {p} : pc'[q] = pc[q] /\ name'[q] = name[q],
           pc'[p] \notin {"insertData", "deleteSecret"},
           pc[p] \in {"insertData", "deleteSecret"} => name[p] \in interrupted'
    PROVE  Tables'
<1>1. OneCreator' /\ ValuesGoFirst'
  BY DEF Tables, OneCreator, ValuesGoFirst, Data
<1>2. TablesAgree' /\ EmptyExplained'
  BY DEF Tables, TablesAgree, EmptyExplained, Busy, Data
<1> QED
  BY <1>1, <1>2 DEF Tables

(* Every other step, one by one. *)
LEMMA StepTables ==
    ASSUME StoreAssumption, TypeOK, AtWork, Alone, Tables, [Next]_vars
    PROVE  Tables'
<1> USE DEF TypeOK, Goto, arguments, tables, history
<1>1. ASSUME NEW p \in Process,
             Begin(p) \/ Check(p) \/ Open(p) \/ Interrupt(p) \/ Find(p) \/ Clear(p)
      PROVE  Tables'
  BY <1>1, QuietStep DEF Begin, Check, Open, Interrupt, Find, Clear
<1>2. ASSUME NEW p \in Process, InsertSecret(p) PROVE Tables'
  <2>1. CASE name[p] \in secrets
    BY <1>2, <2>1, QuietStep DEF InsertSecret
  <2>2. CASE name[p] \notin secrets
    <3>1. name[p] \in Name
      BY <1>2 DEF InsertSecret, AtWork
    <3>2. OneCreator' /\ ValuesGoFirst'
      BY <1>2, <2>2, <3>1 DEF InsertSecret, Tables, OneCreator, ValuesGoFirst, TablesAgree, Data
    <3>3. TablesAgree' /\ EmptyExplained'
      BY <1>2, <2>2, <3>1 DEF InsertSecret, Tables, TablesAgree, EmptyExplained, Busy, Data
    <3> QED
      BY <3>2, <3>3 DEF Tables
  <2> QED
    BY <2>1, <2>2
<1>3. ASSUME NEW p \in Process, InsertData(p) PROVE Tables'
  <2> DEFINE new == [id |-> nextId, ref |-> name[p], value |-> value[p]]
  <2>1. name[p] \in secrets /\ Data(name[p]) = {} /\ name[p] \in Name /\ value[p] \in Value
    BY <1>3 DEF InsertData, Tables, OneCreator, AtWork
  <2>2. data' = data \cup {new} /\ new.ref = name[p] /\ new.value = value[p]
    BY <1>3 DEF InsertData
  <2>3. \A q \in Process : pc[q] = "deleteSecret" => FALSE
    BY <1>3 DEF InsertData, Alone, AtWork
  <2> HIDE DEF new
  <2>4. OneCreator' /\ ValuesGoFirst'
    BY <1>3, <2>1, <2>2, <2>3 DEF InsertData, Tables, OneCreator, ValuesGoFirst, Data
  <2>5. TablesAgree'
    BY <1>3, <2>1, <2>2 DEF InsertData, Tables, TablesAgree, Data
  <2>6. EmptyExplained'
    <3> SUFFICES ASSUME NEW n \in secrets', Data(n)' = {}, n \notin interrupted'
                 PROVE  Busy(n)'
      BY DEF EmptyExplained
    <3>1. n # name[p] /\ Data(n) = {}
      BY <2>2 DEF Data
    <3>2. PICK q \in Process : name[q] = n /\ pc[q] \in {"insertData", "deleteSecret"}
      BY <1>3, <3>1 DEF InsertData, Tables, EmptyExplained, Busy
    <3> QED
      BY <1>3, <3>1, <3>2 DEF InsertData, Busy
  <2> QED
    BY <2>4, <2>5, <2>6 DEF Tables
<1>4. ASSUME NEW p \in Process, Store(p) PROVE Tables'
  <2> DEFINE Written(r) == IF r.ref = name[p] THEN [r EXCEPT !.value = value[p]] ELSE r
  <2>1. data' = {Written(r) : r \in data}
    BY <1>4 DEF Store
  <2>2. \A r \in data :
          /\ Written(r).ref = r.ref
          /\ Written(r).value = IF r.ref = name[p] THEN value[p] ELSE r.value
    BY DEF Row
  <2> HIDE DEF Written
  <2>3. \A n : Data(n)' = {} <=> Data(n) = {}
    BY <2>1, <2>2 DEF Data
  <2>4. OneCreator' /\ ValuesGoFirst' /\ EmptyExplained'
    BY <1>4, <2>3 DEF Store, Tables, OneCreator, ValuesGoFirst, EmptyExplained, Busy
  <2>5. TablesAgree'
    BY <1>4, <2>1, <2>2 DEF Store, Tables, TablesAgree, Data, Row
  <2> QED
    BY <2>4, <2>5 DEF Tables
<1>5. ASSUME NEW p \in Process, DeleteData(p) \/ DeleteSecret(p) \/ Recreate(p)
      PROVE  Tables'
  <2>1. \A q \in Process : pc[q] # "idle" => q = p
    BY <1>5 DEF DeleteData, DeleteSecret, Recreate, Alone, AtWork
  <2>2. OneCreator' /\ ValuesGoFirst'
    BY <1>5, <2>1 DEF DeleteData, DeleteSecret, Recreate, Tables, OneCreator, ValuesGoFirst, Data
  <2>3. TablesAgree'
    BY <1>5 DEF DeleteData, DeleteSecret, Recreate, Tables, TablesAgree, ValuesGoFirst, Data
  <2>4. EmptyExplained'
    BY <1>5, <2>1 DEF DeleteData, DeleteSecret, Recreate, Tables, EmptyExplained, Busy, Data
  <2> QED
    BY <2>2, <2>3, <2>4 DEF Tables
<1>6. CASE UNCHANGED vars
  BY <1>6 DEF vars, Tables, OneCreator, ValuesGoFirst, TablesAgree, EmptyExplained, Busy, Data
<1> QED
  BY <1>1, <1>2, <1>3, <1>4, <1>5, <1>6 DEF Next, Step, Finished

(* The inductive invariant holds in every reachable state. *)
THEOREM Invariant == Spec => []IInv
<1>1. IInv /\ [Next]_vars => IInv'
  <2> SUFFICES ASSUME IInv, [Next]_vars PROVE IInv'
    OBVIOUS
  <2>1. TypeOK' /\ AtWork'
    BY StepTypes, StoreAssumption DEF IInv
  <2>2. ~ overlapped' => Alone' /\ Tables'
    BY StepAlone, StepTables, OverlapStays, StoreAssumption DEF IInv, Undisturbed, Tables
  <2> QED
    BY <2>1, <2>2 DEF IInv, Undisturbed, Tables
<1> QED
  BY <1>1, InitIInv, PTL DEF Spec

(* Every variable keeps its type. *)
THEOREM TypeCorrect == Spec => []TypeOK
BY Invariant, PTL DEF IInv

LEMMA InvariantParts == IInv => ValuesBelong /\ EmptyMeansInterrupted
BY DEF IInv, Undisturbed, TablesAgree, EmptyExplained, ValuesBelong, NoOrphanValue, OneValue,
   EmptyMeansInterrupted

(* A value never outlives its secret, and a secret never has two values,   *)
(* whoever creates it at the same time.                                    *)
THEOREM ValuesBelongToSecrets == Spec => []ValuesBelong
BY Invariant, InvariantParts, PTL

(* A secret without a value is being worked on or was interrupted. *)
THEOREM OnlyInterruptedIsEmpty == Spec => []EmptyMeansInterrupted
BY Invariant, InvariantParts, PTL

(* find returns the value stored last. *)
THEOREM FindIsCurrent == Spec => FindsLatest
<1>1. ASSUME IInv, [Next]_vars, ~ overlapped, NEW p \in Process,
             pc[p] = "find", pc'[p] = "idle", answer'[p] # NoValue
      PROVE  answer'[p] = latest[name[p]]
  <2> USE <1>1 DEF IInv, TypeOK, Goto
  <2>1. Find(p)
    <3>1. CASE UNCHANGED vars
      BY <3>1 DEF vars
    <3>2. CASE Finished
      BY <3>2 DEF Finished, vars
    <3>3. ASSUME NEW q \in Process, Step(q), q # p PROVE FALSE
      BY <3>3 DEF Step, Begin, Check, InsertSecret, InsertData, Open, Store, Find,
         DeleteData, DeleteSecret, Clear, Recreate, Interrupt
    <3>4. ASSUME Step(p) PROVE Find(p)
      BY <3>4 DEF Step, Begin, Check, InsertSecret, InsertData, Open, Store,
         DeleteData, DeleteSecret, Clear, Recreate, Interrupt
    <3> QED
      BY <3>1, <3>2, <3>3, <3>4 DEF Next
  <2>2. answer[p] = NoValue
    BY DEF AtWork
  <2>3. PICK r \in Data(name[p]) : answer'[p] = r.value
    BY <2>1, <2>2 DEF Find
  <2> QED
    BY <2>3 DEF Undisturbed, TablesAgree, Data
<1>2. IInv /\ [Next]_vars
        => (~ overlapped =>
              \A p \in Process : pc[p] = "find" /\ pc'[p] = "idle" /\ answer'[p] # NoValue
                                    => answer'[p] = latest[name[p]])
  BY <1>1
<1> QED
  BY <1>2, Invariant, PTL DEF Spec, FindsLatest
=============================================================================
