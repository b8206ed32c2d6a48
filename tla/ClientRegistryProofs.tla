------------------------ MODULE ClientRegistryProofs ------------------------
(***************************************************************************)
(* No client that registered is forgotten or inserted twice, for any       *)
(* number of clients, instances and crashes.                               *)
(*                                                                         *)
(* The argument needs that a client waits only at its own instance, that   *)
(* the batches of an instance have no client in common, and that a client  *)
(* which is not registered is nowhere: then each step moves it from one    *)
(* place to the next.  A row exists only of a client that was written, so  *)
(* an insertion finds no older row, and the age of none.                   *)
(***************************************************************************)
EXTENDS ClientRegistry, FiniteSetTheorems, TLAPS

Queued(c) == \E i \in Instances : c \in insertQueue[i]
InBatch(c) == \E i \in Instances : \E b \in batches[i] : c \in b

\* A client waits at its own instance.
AtHome ==
  \A i \in Instances, c \in Clients :
     c \in insertQueue[i] \/ (\E b \in batches[i] : c \in b) => at[c] = i

\* Batches that overlap in time share no client.
BatchesDisjoint ==
  \A i \in Instances : \A a, b \in batches[i] : \A c \in Clients : c \in a /\ c \in b => a = b

\* A registered client is in one of the four places, any other in none.
OnePlace(c) ==
  /\ entity[c] = "registered" <=> Queued(c) \/ InBatch(c) \/ c \in written \/ c \in lost
  /\ Queued(c) => ~InBatch(c) /\ c \notin written /\ c \notin lost
  /\ InBatch(c) => c \notin written /\ c \notin lost
  /\ c \in written => c \notin lost

RowsWritten == \A c \in Clients : row[c] # "none" => c \in written

IInv ==
  /\ TypeOK
  /\ age \in [Clients -> {"young", "fiveMinutes", "oneDay"}]
  /\ AtHome /\ BatchesDisjoint
  /\ \A c \in Clients : OnePlace(c)
  /\ RowsWritten

-----------------------------------------------------------------------------
\* One place in the sense above is one member of Places.
LEMMA IInvImplies == IInv => RegisteredAreKept
<1> SUFFICES ASSUME IInv, NEW c \in Clients, entity[c] = "registered"
             PROVE  Cardinality(Places(c)) = 1
  BY DEF RegisteredAreKept
<1>1. at[c] \in Instances /\ OnePlace(c)
  BY DEF IInv, TypeOK
<1>2. c \in insertQueue[at[c]] <=> Queued(c)
  BY <1>1 DEF IInv, AtHome, Queued
<1>3. c \in UNION batches[at[c]] <=> InBatch(c)
  BY <1>1 DEF IInv, AtHome, InBatch
<1>4. \E p : Places(c) = {p}
  <2>1. CASE Queued(c)
    <3>1. Places(c) = {"queue"}
      BY <1>1, <1>2, <1>3, <2>1 DEF OnePlace, Places
    <3> QED BY <3>1
  <2>2. CASE InBatch(c)
    <3>1. Places(c) = {"batch"}
      BY <1>1, <1>2, <1>3, <2>2 DEF OnePlace, Places
    <3> QED BY <3>1
  <2>3. CASE c \in written
    <3>1. Places(c) = {"written"}
      BY <1>1, <1>2, <1>3, <2>3 DEF OnePlace, Places
    <3> QED BY <3>1
  <2>4. CASE c \in lost
    <3>1. Places(c) = {"lost"}
      BY <1>1, <1>2, <1>3, <2>4 DEF OnePlace, Places
    <3> QED BY <3>1
  <2> QED BY <1>1, <2>1, <2>2, <2>3, <2>4 DEF OnePlace
<1> QED BY <1>4, FS_Singleton

LEMMA InitIInv == Init => IInv
<1> SUFFICES ASSUME Init PROVE IInv
  OBVIOUS
<1>1. TypeOK /\ age \in [Clients -> {"young", "fiveMinutes", "oneDay"}]
  BY RegistryAssumption DEF Init, TypeOK
<1>2. AtHome /\ BatchesDisjoint /\ RowsWritten
  BY DEF Init, AtHome, BatchesDisjoint, RowsWritten
<1>3. \A c \in Clients : OnePlace(c)
  BY DEF Init, OnePlace, Queued, InBatch
<1> QED BY <1>1, <1>2, <1>3 DEF IInv

-----------------------------------------------------------------------------
(* Where clients are.                                                      *)

WhereInv == AtHome /\ BatchesDisjoint /\ \A c \in Clients : OnePlace(c)

\* Steps that register nobody, and flush and insert nothing.
LEMMA PlacesUndisturbed ==
  ASSUME WhereInv, UNCHANGED <<at, insertQueue, batches, written, lost>>,
         \A c \in Clients : entity'[c] = "registered" <=> entity[c] = "registered"
  PROVE  WhereInv'
<1>1. AtHome' /\ BatchesDisjoint'
  BY DEF WhereInv, AtHome, BatchesDisjoint
<1>2. ASSUME NEW c \in Clients PROVE OnePlace(c)'
  BY DEF WhereInv, OnePlace, Queued, InBatch
<1> QED BY <1>1, <1>2 DEF WhereInv

\* insert: from nowhere to the queue of the client's instance.
LEMMA InsertWhere ==
  ASSUME TypeOK, WhereInv, NEW c \in Clients, insert(c)
  PROVE  WhereInv'
<1>1. /\ at[c] \in Instances /\ entity[c] = "validating"
      /\ UNCHANGED <<at, batches, written, lost>>
      /\ entity' = [entity EXCEPT ![c] = "registered"]
      /\ insertQueue' = [insertQueue EXCEPT ![at[c]] = insertQueue[at[c]] \cup {c}]
  BY DEF TypeOK, insert, table
<1>2. /\ entity'[c] = "registered"
      /\ \A d \in Clients : d # c => entity'[d] = entity[d]
  BY <1>1 DEF TypeOK
<1>3. \A i \in Instances, d \in Clients :
         d \in insertQueue'[i] <=> d \in insertQueue[i] \/ (d = c /\ i = at[c])
  BY <1>1 DEF TypeOK
<1>4. AtHome' /\ BatchesDisjoint'
  BY <1>1, <1>3 DEF WhereInv, AtHome, BatchesDisjoint
<1>5. ASSUME NEW d \in Clients PROVE OnePlace(d)'
  <2>1. Queued(d)' <=> Queued(d) \/ d = c
    BY <1>1, <1>3 DEF Queued
  <2>2. InBatch(d)' <=> InBatch(d)
    BY <1>1 DEF InBatch
  <2>3. CASE d = c
    BY <1>1, <1>2, <2>1, <2>2, <2>3 DEF WhereInv, OnePlace
  <2>4. CASE d # c
    BY <1>1, <1>2, <2>1, <2>2, <2>4 DEF WhereInv, OnePlace
  <2> QED BY <2>3, <2>4
<1> QED BY <1>4, <1>5 DEF WhereInv

\* insertClients: the whole queue becomes a batch, disjoint from the others.
LEMMA FlushWhere ==
  ASSUME TypeOK, WhereInv, NEW i \in Instances, insertClients(i)
  PROVE  WhereInv'
<1>1. /\ UNCHANGED <<at, entity, written, lost>>
      /\ insertQueue' = [insertQueue EXCEPT ![i] = {}]
      /\ batches' = [batches EXCEPT ![i] = batches[i] \cup {insertQueue[i]}]
  BY DEF insertClients, connections
<1>2. \A j \in Instances : /\ insertQueue'[j] = IF j = i THEN {} ELSE insertQueue[j]
                           /\ batches'[j] = IF j = i THEN batches[i] \cup {insertQueue[i]} ELSE batches[j]
  BY <1>1 DEF TypeOK
<1>3. AtHome'
  BY <1>1, <1>2 DEF WhereInv, AtHome
<1>4. ASSUME NEW c \in Clients, c \in insertQueue[i], NEW b \in batches[i], c \in b PROVE FALSE
  BY <1>4 DEF WhereInv, OnePlace, Queued, InBatch
<1>5. BatchesDisjoint'
  BY <1>2, <1>4 DEF WhereInv, BatchesDisjoint
<1>6. ASSUME NEW c \in Clients PROVE OnePlace(c)'
  <2>1. Queued(c)' <=> Queued(c) /\ c \notin insertQueue[i]
    BY <1>2 DEF WhereInv, AtHome, Queued
  <2>2. InBatch(c)' <=> InBatch(c) \/ c \in insertQueue[i]
    BY <1>2 DEF InBatch
  <2>3. c \in insertQueue[i] => Queued(c)
    BY DEF Queued
  <2> QED BY <1>1, <2>1, <2>2, <2>3 DEF WhereInv, OnePlace
<1> QED BY <1>3, <1>5, <1>6 DEF WhereInv

\* A batch ends: its clients, and no others, are written or lost.
LEMMA BatchEndsWhere ==
  ASSUME TypeOK, WhereInv, NEW i \in Instances, NEW b \in batches[i],
         UNCHANGED <<at, entity, insertQueue>>, batches' = [batches EXCEPT ![i] = batches[i] \ {b}],
         \/ written' = written \cup b /\ lost' = lost
         \/ lost' = lost \cup b /\ written' = written
  PROVE  WhereInv'
<1>1. \A j \in Instances : batches'[j] = IF j = i THEN batches[i] \ {b} ELSE batches[j]
  BY DEF TypeOK
<1>2. AtHome' /\ BatchesDisjoint'
  BY <1>1 DEF WhereInv, AtHome, BatchesDisjoint
<1>3. ASSUME NEW c \in Clients PROVE OnePlace(c)'
  <2>1. Queued(c)' <=> Queued(c)
    BY DEF Queued
  <2>2. CASE c \in b
    <3>1. InBatch(c) /\ ~InBatch(c)'
      BY <1>1, <2>2 DEF WhereInv, AtHome, BatchesDisjoint, InBatch
    <3> QED BY <2>1, <2>2, <3>1 DEF WhereInv, OnePlace
  <2>3. CASE c \notin b
    <3>1. InBatch(c)' <=> InBatch(c)
      BY <1>1, <2>3 DEF InBatch
    <3> QED BY <2>1, <2>3, <3>1 DEF WhereInv, OnePlace
  <2> QED BY <2>2, <2>3
<1> QED BY <1>2, <1>3 DEF WhereInv

\* A crash: the clients that waited at the instance are written or lost.
LEMMA CrashWhere ==
  ASSUME TypeOK, WhereInv, NEW i \in Instances, Crash(i)
  PROVE  WhereInv'
<1>1. /\ at' = at
      /\ insertQueue' = [insertQueue EXCEPT ![i] = {}] /\ batches' = [batches EXCEPT ![i] = {}]
      /\ entity' = [c \in Clients |-> IF c \in On(i) /\ entity[c] = "validating"
                                       THEN "none" ELSE entity[c]]
  BY DEF Crash
<1>2. PICK done \in SUBSET batches[i] :
         /\ written' = written \cup UNION done
         /\ lost' = lost \cup insertQueue[i] \cup UNION (batches[i] \ done)
  BY DEF Crash
<1>3. \A j \in Instances : /\ insertQueue'[j] = IF j = i THEN {} ELSE insertQueue[j]
                           /\ batches'[j] = IF j = i THEN {} ELSE batches[j]
  BY <1>1 DEF TypeOK
<1>4. AtHome' /\ BatchesDisjoint'
  BY <1>1, <1>3 DEF WhereInv, AtHome, BatchesDisjoint
<1>5. ASSUME NEW c \in Clients PROVE OnePlace(c)'
  <2>1. entity'[c] = "registered" <=> entity[c] = "registered"
    BY <1>1
  <2>2. CASE c \in insertQueue[i]
    <3>1. Queued(c) /\ ~InBatch(c) /\ ~Queued(c)' /\ ~InBatch(c)'
      BY <1>3, <2>2 DEF WhereInv, AtHome, OnePlace, Queued, InBatch
    <3>2. c \in lost' /\ c \notin written'
      BY <1>2, <2>2, <3>1 DEF WhereInv, OnePlace, InBatch
    <3> QED BY <2>1, <3>1, <3>2 DEF WhereInv, OnePlace
  <2>3. ASSUME NEW b \in batches[i], c \in b PROVE OnePlace(c)'
    <3>1. InBatch(c) /\ ~Queued(c) /\ ~Queued(c)' /\ ~InBatch(c)'
      BY <1>3, <2>3 DEF WhereInv, AtHome, OnePlace, Queued, InBatch
    <3>2. c \notin written /\ c \notin lost /\ c \notin insertQueue[i]
      BY <3>1 DEF WhereInv, OnePlace, Queued
    <3>3. \A d \in batches[i] : c \in d => d = b
      BY <2>3 DEF WhereInv, BatchesDisjoint
    <3>4. c \in UNION done <=> b \in done
      BY <2>3, <3>3
    <3>5. c \in UNION (batches[i] \ done) <=> b \notin done
      BY <2>3, <3>3
    <3> QED BY <1>2, <2>1, <3>1, <3>2, <3>4, <3>5 DEF WhereInv, OnePlace
  <2>4. CASE c \notin insertQueue[i] /\ \A b \in batches[i] : c \notin b
    <3>1. Queued(c)' <=> Queued(c)
      BY <1>3, <2>4 DEF Queued
    <3>2. InBatch(c)' <=> InBatch(c)
      BY <1>3, <2>4 DEF InBatch
    <3>3. (c \in written' <=> c \in written) /\ (c \in lost' <=> c \in lost)
      BY <1>2, <2>4
    <3> QED BY <2>1, <3>1, <3>2, <3>3 DEF WhereInv, OnePlace
  <2> QED BY <2>2, <2>3, <2>4
<1> QED BY <1>4, <1>5 DEF WhereInv

LEMMA WhereNext ==
  ASSUME TypeOK, WhereInv, [Next]_vars
  PROVE  WhereInv'
<1> USE DEF connections, table
<1>1. ASSUME NEW c \in Clients,
             Connect(c) \/ Submit(c) \/ destroy(c) \/ delete(c) \/ Age(c)
      PROVE  WhereInv'
  <2>1. UNCHANGED <<at, insertQueue, batches, written, lost>>
    BY <1>1 DEF Connect, Submit, destroy, delete, Age
  <2>2. \A d \in Clients : entity'[d] = "registered" <=> entity[d] = "registered"
    BY <1>1 DEF TypeOK, Connect, Submit, destroy, delete, Age
  <2> QED BY <2>1, <2>2, PlacesUndisturbed
<1>2. ASSUME NEW c \in Clients, insert(c) PROVE WhereInv'
  BY <1>2, InsertWhere
<1>3. ASSUME NEW i \in Instances, insertClients(i) PROVE WhereInv'
  BY <1>3, FlushWhere
<1>4. ASSUME NEW i \in Instances, InsertEnds(i) PROVE WhereInv'
  <2>1. PICK b \in batches[i] : Inserted(i, b) \/ InsertFails(i, b)
    BY <1>4 DEF InsertEnds
  <2> QED BY <2>1, BatchEndsWhere DEF Inserted, InsertFails
<1>5. ASSUME NEW i \in Instances, Crash(i) PROVE WhereInv'
  BY <1>5, CrashWhere
<1>6. ASSUME NEW i \in Instances, Restart(i) PROVE WhereInv'
  BY <1>6, PlacesUndisturbed DEF Restart
<1>7. CASE killDeadClients \/ deleteOldClients \/ UNCHANGED vars
  BY <1>7, PlacesUndisturbed DEF killDeadClients, deleteOldClients, vars
<1> QED BY <1>1, <1>2, <1>3, <1>4, <1>5, <1>6, <1>7 DEF Next

-----------------------------------------------------------------------------
(* The table.                                                              *)

Ages(r) == {"young"} \cup (IF r = "visible" THEN {"fiveMinutes"} ELSE {})
                     \cup (IF r = "deleted" THEN {"oneDay"} ELSE {})

TableInv ==
  /\ row \in [Clients -> {"none", "visible", "deleted"}]
  /\ age \in [Clients -> {"young", "fiveMinutes", "oneDay"}]
  /\ \A c \in Clients : age[c] \in Ages(row[c])
  /\ RowsWritten

\* A soft deletion makes no row, and the age of the deletion starts with it.
LEMMA SoftDeleteTable ==
  ASSUME TableInv, NEW cs, SoftDelete(cs), written' = written
  PROVE  TableInv'
<1>1. ASSUME NEW c \in Clients
      PROVE  \/ row'[c] = row[c] /\ age'[c] = age[c]
             \/ row'[c] = "deleted" /\ row[c] # "none" /\ age'[c] = "young"
  BY DEF SoftDelete
<1>2. /\ row' \in [Clients -> {"none", "visible", "deleted"}]
      /\ age' \in [Clients -> {"young", "fiveMinutes", "oneDay"}]
  BY DEF SoftDelete, TableInv
<1>3. \A c \in Clients : age'[c] \in Ages(row'[c])
  BY <1>1 DEF TableInv, Ages
<1>4. RowsWritten'
  BY <1>1 DEF TableInv, RowsWritten
<1> QED BY <1>2, <1>3, <1>4 DEF TableInv

\* The rows inserted are new ones.
LEMMA InsertedTable ==
  ASSUME IInv, TableInv, NEW i \in Instances, NEW b \in batches[i], Inserted(i, b)
  PROVE  TableInv'
<1>1. /\ row' = [c \in Clients |-> IF c \in b THEN "visible" ELSE row[c]]
      /\ age' = age /\ written' = written \cup b
  BY DEF Inserted
<1>2. ASSUME NEW c \in Clients, c \in b PROVE age[c] = "young"
  <2>1. InBatch(c) /\ OnePlace(c)
    BY <1>2 DEF IInv, InBatch
  <2>2. row[c] = "none"
    BY <2>1 DEF TableInv, RowsWritten, OnePlace
  <2> QED BY <2>2 DEF TableInv, Ages
<1>3. \A c \in Clients : age'[c] \in Ages(row'[c])
  BY <1>1, <1>2 DEF TableInv, Ages
<1>4. RowsWritten'
  BY <1>1 DEF TableInv, RowsWritten
<1> QED BY <1>1, <1>3, <1>4 DEF TableInv

\* A crash, whatever statements it lets through.
LEMMA CrashTable ==
  ASSUME TableInv, NEW i \in Instances, Crash(i)
  PROVE  TableInv'
<1>1. PICK done \in SUBSET batches[i], deleted \in SUBSET (deletes \cap On(i)) :
         /\ \E first \in SUBSET deleted :
              row' = [c \in Clients |->
                        IF c \in deleted \ first /\ (c \in UNION done \/ row[c] = "visible") THEN "deleted"
                        ELSE IF c \in UNION done THEN "visible"
                        ELSE IF c \in first /\ row[c] = "visible" THEN "deleted"
                        ELSE row[c]]
         /\ age' = [c \in Clients |-> IF row'[c] # row[c] \/ c \in deleted THEN "young" ELSE age[c]]
         /\ written' = written \cup UNION done
  BY DEF Crash
<1>2. PICK first \in SUBSET deleted :
         row' = [c \in Clients |->
                   IF c \in deleted \ first /\ (c \in UNION done \/ row[c] = "visible") THEN "deleted"
                   ELSE IF c \in UNION done THEN "visible"
                   ELSE IF c \in first /\ row[c] = "visible" THEN "deleted"
                   ELSE row[c]]
  BY <1>1
<1>3. /\ row' \in [Clients -> {"none", "visible", "deleted"}]
      /\ \A c \in Clients : row'[c] = row[c] \/ c \in UNION done \/ row[c] = "visible"
  BY <1>2 DEF TableInv
<1>4. /\ age' \in [Clients -> {"young", "fiveMinutes", "oneDay"}]
      /\ \A c \in Clients : age'[c] \in Ages(row'[c])
  BY <1>1 DEF TableInv, Ages
<1>5. RowsWritten'
  BY <1>1, <1>3 DEF TableInv, RowsWritten
<1> QED BY <1>3, <1>4, <1>5 DEF TableInv

LEMMA TableNext ==
  ASSUME IInv, [Next]_vars
  PROVE  TableInv'
<1> USE DEF connections, table
<1>1. TableInv
  BY DEF IInv, TypeOK, TableInv, Ages
<1>2. ASSUME UNCHANGED <<row, age, written>> PROVE TableInv'
  BY <1>1, <1>2 DEF TableInv, RowsWritten
<1>3. ASSUME NEW c \in Clients, Connect(c) \/ Submit(c) \/ destroy(c) \/ insert(c) PROVE TableInv'
  BY <1>2, <1>3 DEF Connect, Submit, destroy, insert
<1>4. ASSUME NEW c \in Clients, delete(c) PROVE TableInv'
  BY <1>1, <1>4, SoftDeleteTable DEF delete
<1>5. ASSUME NEW c \in Clients, Age(c) PROVE TableInv'
  <2>1. row' = row /\ written' = written
    BY <1>5 DEF Age
  <2>2. /\ age' \in [Clients -> {"young", "fiveMinutes", "oneDay"}]
        /\ \A d \in Clients : age'[d] \in Ages(row[d])
    BY <1>1, <1>5 DEF Age, TableInv, Ages
  <2> QED BY <1>1, <2>1, <2>2 DEF TableInv, RowsWritten
<1>6. ASSUME NEW i \in Instances, insertClients(i) PROVE TableInv'
  BY <1>2, <1>6 DEF insertClients
<1>7. ASSUME NEW i \in Instances, InsertEnds(i) PROVE TableInv'
  <2>1. PICK b \in batches[i] : Inserted(i, b) \/ InsertFails(i, b)
    BY <1>7 DEF InsertEnds
  <2>2. CASE Inserted(i, b)
    BY <1>1, <2>2, InsertedTable
  <2>3. CASE InsertFails(i, b)
    BY <1>2, <2>3 DEF InsertFails
  <2> QED BY <2>1, <2>2, <2>3
<1>8. ASSUME NEW i \in Instances, Crash(i) PROVE TableInv'
  BY <1>1, <1>8, CrashTable
<1>9. ASSUME NEW i \in Instances, Restart(i) PROVE TableInv'
  BY <1>1, <1>9, SoftDeleteTable DEF Restart
<1>10. CASE killDeadClients
  BY <1>1, <1>10, SoftDeleteTable DEF killDeadClients
<1>11. CASE deleteOldClients
  <2>1. /\ row' = [c \in Clients |-> IF c \in Old THEN "none" ELSE row[c]]
        /\ age' = [c \in Clients |-> IF c \in Old THEN "young" ELSE age[c]]
        /\ written' = written
    BY <1>11 DEF deleteOldClients
  <2>2. \A c \in Clients : age'[c] \in Ages(row'[c])
    BY <1>1, <2>1 DEF TableInv, Ages
  <2> QED BY <1>1, <2>1, <2>2 DEF TableInv, RowsWritten
<1>12. CASE UNCHANGED vars
  BY <1>2, <1>12 DEF vars
<1> QED BY <1>3, <1>4, <1>5, <1>6, <1>7, <1>8, <1>9, <1>10, <1>11, <1>12 DEF Next

-----------------------------------------------------------------------------
\* The types of everything but the table.
FieldTypes ==
  /\ up \in [Instances -> BOOLEAN] /\ crashes \in 0..MaxCrashes /\ at \in [Clients -> Instances]
  /\ phase \in [Clients -> {"new", "live", "gone"}]
  /\ entity \in [Clients -> {"none", "validating", "registered"}]
  /\ insertQueue \in [Instances -> SUBSET Clients]
  /\ batches \in [Instances -> SUBSET SUBSET Clients] /\ deletes \subseteq Clients
  /\ written \subseteq Clients /\ lost \subseteq Clients

LEMMA FieldsNext ==
  ASSUME FieldTypes, [Next]_vars
  PROVE  FieldTypes'
<1> USE DEF FieldTypes, connections
<1>1. ASSUME NEW c \in Clients, \/ Connect(c) \/ Submit(c) \/ insert(c)
                                \/ destroy(c) \/ delete(c) \/ Age(c)
      PROVE  FieldTypes'
  <2>1. CASE Connect(c) \/ Submit(c)
    BY <2>1 DEF Connect, Submit
  <2>2. CASE insert(c)
    BY <2>2 DEF insert
  <2>3. CASE destroy(c) \/ delete(c)
    BY <2>3 DEF destroy, delete
  <2>4. CASE Age(c)
    BY <2>4 DEF Age
  <2> QED BY <1>1, <2>1, <2>2, <2>3, <2>4
<1>2. ASSUME NEW i \in Instances, insertClients(i) PROVE FieldTypes'
  <2>1. batches' \in [Instances -> SUBSET SUBSET Clients]
    BY <1>2 DEF insertClients
  <2> QED BY <1>2, <2>1 DEF insertClients
<1>3. ASSUME NEW i \in Instances, InsertEnds(i) PROVE FieldTypes'
  <2>1. PICK b \in batches[i] : Inserted(i, b) \/ InsertFails(i, b)
    BY <1>3 DEF InsertEnds
  <2>2. b \subseteq Clients
    OBVIOUS
  <2>3. batches' \in [Instances -> SUBSET SUBSET Clients]
    BY <2>1 DEF Inserted, InsertFails
  <2> QED BY <2>1, <2>2, <2>3 DEF Inserted, InsertFails
<1>4. ASSUME NEW i \in Instances, Crash(i) PROVE FieldTypes'
  <2>1. crashes' \in 0..MaxCrashes /\ up' \in [Instances -> BOOLEAN] /\ at' = at
    BY <1>4, RegistryAssumption DEF Crash
  <2>2. /\ phase' \in [Clients -> {"new", "live", "gone"}]
        /\ entity' \in [Clients -> {"none", "validating", "registered"}]
    BY <1>4 DEF Crash
  <2>3. /\ insertQueue' \in [Instances -> SUBSET Clients] /\ deletes' \subseteq Clients
        /\ batches' \in [Instances -> SUBSET SUBSET Clients]
    BY <1>4 DEF Crash
  <2>4. PICK done \in SUBSET batches[i] :
           /\ written' = written \cup UNION done
           /\ lost' = lost \cup insertQueue[i] \cup UNION (batches[i] \ done)
    BY <1>4 DEF Crash
  <2>5. UNION done \subseteq Clients /\ UNION (batches[i] \ done) \subseteq Clients
    OBVIOUS
  <2> QED BY <2>1, <2>2, <2>3, <2>4, <2>5
<1>5. ASSUME NEW i \in Instances, Restart(i) PROVE FieldTypes'
  BY <1>5 DEF Restart
<1>6. CASE killDeadClients \/ deleteOldClients \/ UNCHANGED vars
  BY <1>6 DEF killDeadClients, deleteOldClients, vars
<1> QED BY <1>1, <1>2, <1>3, <1>4, <1>5, <1>6 DEF Next

LEMMA NextIInv == IInv /\ [Next]_vars => IInv'
<1> SUFFICES ASSUME IInv, [Next]_vars PROVE IInv'
  OBVIOUS
<1>1. TypeOK /\ WhereInv /\ FieldTypes
  BY DEF IInv, WhereInv, FieldTypes, TypeOK
<1>2. TableInv' /\ WhereInv' /\ FieldTypes'
  BY <1>1, TableNext, WhereNext, FieldsNext
<1> QED BY <1>2 DEF IInv, TypeOK, TableInv, WhereInv, FieldTypes, Ages

\* The variables of the registry keep their types, and a row is as old as its
\* state allows: an insertion, a deletion and a purge all start a new period.
THEOREM TypeCorrect == Spec => []TypeOK
<1>1. IInv => TypeOK
  BY DEF IInv
<1> QED BY <1>1, InitIInv, NextIInv, PTL DEF Spec

\* Between its registration and the table a client is in exactly one place:
\* waiting, being inserted, written, or lost with a failed statement or a crash,
\* for any number of clients, overlapping batches, instances and crashes.
THEOREM NobodyForgotten == Spec => []RegisteredAreKept
BY IInvImplies, InitIInv, NextIInv, PTL DEF Spec
=============================================================================
