--------------------------- MODULE ClientRegistry ---------------------------
(***************************************************************************)
(* The table of clients: ClientService, the cleaning jobs of AppService,   *)
(* and what connections do to it.  Several instances of the pool may share *)
(* the database (pm2's NODE_APP_INSTANCE); instance 0 does the cleaning.   *)
(*                                                                         *)
(* A client registers with its first share.  It waits in insertQueue for   *)
(* the flush every 5 s, and the flush is an SQL statement that takes its   *)
(* time, may fail, and may overlap with the next.  The deletion at the end *)
(* of the connection knows nothing of that.  A statement is one step.      *)
(***************************************************************************)
EXTENDS Naturals, FiniteSets

CONSTANTS
  Clients,     \* connections, by their session id
  Instances,   \* processes of the pool
  Zero,        \* the one whose NODE_APP_INSTANCE is '0'
  MaxCrashes   \* bound

ASSUME RegistryAssumption == Zero \in Instances /\ MaxCrashes \in Nat

VARIABLES
  up,           \* instance -> it runs
  crashes,
  at,           \* client -> its instance
  phase,        \* client -> "new", "live" or "gone"
  entity,       \* client -> "none", "validating" its first share, or "registered"
  insertQueue,  \* instance -> clients waiting for the flush
  batches,      \* instance -> batches being inserted
  deletes,      \* clients whose destroy() awaits delete(sessionId)
  row,          \* client -> "none", "visible", or "deleted" (deletedAt is set)
  age,          \* client -> how long ago updatedAt or deletedAt was: "young", "fiveMinutes", "oneDay"
  written,      \* clients whose row was inserted
  lost          \* clients whose insertion failed, or was cut short by a crash

connections == <<at, phase, entity, deletes>>
table == <<row, age>>
vars == <<up, crashes, connections, insertQueue, batches, table, written, lost>>

Init ==
  /\ up = [i \in Instances |-> TRUE] /\ crashes = 0
  /\ at \in [Clients -> Instances]
  /\ phase = [c \in Clients |-> "new"] /\ entity = [c \in Clients |-> "none"]
  /\ insertQueue = [i \in Instances |-> {}] /\ batches = [i \in Instances |-> {}]
  /\ deletes = {}
  /\ row = [c \in Clients |-> "none"] /\ age = [c \in Clients |-> "young"]
  /\ written = {} /\ lost = {}

\* Soft deletion of the rows of cs: deletedAt is now, also of those that were
\* deleted before.
SoftDelete(cs) ==
  LET hit == {c \in cs : row[c] # "none"}
  IN /\ row' = [c \in Clients |-> IF c \in hit THEN "deleted" ELSE row[c]]
     /\ age' = [c \in Clients |-> IF c \in hit THEN "young" ELSE age[c]]

-----------------------------------------------------------------------------
(* Connections.                                                             *)

Connect(c) ==
  /\ phase[c] = "new" /\ up[at[c]]
  /\ phase' = [phase EXCEPT ![c] = "live"]
  /\ UNCHANGED <<up, crashes, at, entity, deletes, insertQueue, batches, table, written, lost>>

\* The first share arrives, and is validated.
Submit(c) ==
  /\ phase[c] = "live" /\ entity[c] = "none"
  /\ entity' = [entity EXCEPT ![c] = "validating"]
  /\ UNCHANGED <<up, crashes, at, phase, deletes, insertQueue, batches, table, written, lost>>

\* The handler goes on, although the connection may have closed meanwhile.
insert(c) ==
  /\ entity[c] = "validating" /\ up[at[c]]
  /\ entity' = [entity EXCEPT ![c] = "registered"]
  /\ insertQueue' = [insertQueue EXCEPT ![at[c]] = @ \cup {c}]
  /\ UNCHANGED <<up, crashes, at, phase, deletes, batches, table, written, lost>>

\* The connection closes: destroy() calls delete and awaits it.
destroy(c) ==
  /\ phase[c] = "live"
  /\ phase' = [phase EXCEPT ![c] = "gone"]
  /\ deletes' = deletes \cup {c}
  /\ UNCHANGED <<up, crashes, at, entity, insertQueue, batches, table, written, lost>>

\* The statement of delete(sessionId) is executed; there may be no row yet.
delete(c) ==
  /\ c \in deletes
  /\ SoftDelete({c}) /\ deletes' = deletes \ {c}
  /\ UNCHANGED <<up, crashes, at, phase, entity, insertQueue, batches, written, lost>>

-----------------------------------------------------------------------------
(* The insert queue.                                                        *)

\* Every 5 s: the queue is copied and emptied, and the copy is inserted.
insertClients(i) ==
  /\ up[i] /\ insertQueue[i] # {}
  /\ batches' = [batches EXCEPT ![i] = @ \cup {insertQueue[i]}]
  /\ insertQueue' = [insertQueue EXCEPT ![i] = {}]
  /\ UNCHANGED <<up, crashes, connections, table, written, lost>>

\* Mutant of Inserted: the queue is emptied when the insertion is done.
InsertedEmptiesQueue(i, b) ==
  /\ batches' = [batches EXCEPT ![i] = @ \ {b}]
  /\ insertQueue' = [insertQueue EXCEPT ![i] = {}]
  /\ row' = [c \in Clients |-> IF c \in b THEN "visible" ELSE row[c]]
  /\ written' = written \cup b
  /\ UNCHANGED <<up, crashes, connections, age, lost>>

\* The rows are there; updatedAt is now.
Inserted(i, b) ==
  /\ batches' = [batches EXCEPT ![i] = @ \ {b}]
  /\ row' = [c \in Clients |-> IF c \in b THEN "visible" ELSE row[c]]
  /\ written' = written \cup b
  /\ UNCHANGED <<up, crashes, connections, insertQueue, age, lost>>

\* The statement fails, and with it the whole batch; the error is logged.
InsertFails(i, b) ==
  /\ batches' = [batches EXCEPT ![i] = @ \ {b}]
  /\ lost' = lost \cup b
  /\ UNCHANGED <<up, crashes, connections, insertQueue, table, written>>

InsertEnds(i) == \E b \in batches[i] : Inserted(i, b) \/ InsertFails(i, b)

-----------------------------------------------------------------------------
(* The cleaning jobs, run by instance 0 alone.                              *)

Dead == {c \in Clients : row[c] = "visible" /\ age[c] = "fiveMinutes"}

\* Mutant of killDeadClients: only the clients of the own instance.
killOwnDeadClients ==
  /\ up[Zero] /\ Dead # {}
  /\ SoftDelete({c \in Dead : at[c] = Zero})
  /\ UNCHANGED <<up, crashes, connections, insertQueue, batches, written, lost>>

\* Mutant of killDeadClients: deletedAt is taken from updatedAt.
killDeadClientsBackdated ==
  /\ up[Zero] /\ Dead # {}
  /\ row' = [c \in Clients |-> IF c \in Dead THEN "deleted" ELSE row[c]]
  /\ UNCHANGED <<up, crashes, connections, insertQueue, batches, age, written, lost>>

\* Every 5 min; updatedAt is the time of the insertion, since nothing calls
\* heartbeat.
killDeadClients ==
  /\ up[Zero] /\ Dead # {}
  /\ SoftDelete(Dead)
  /\ UNCHANGED <<up, crashes, connections, insertQueue, batches, written, lost>>

Old == {c \in Clients : row[c] = "deleted" /\ age[c] = "oneDay"}

\* Mutant of deleteOldClients: rows deleted after the date, not before it.
deleteNewClients ==
  /\ up[Zero]
  /\ \E c \in Clients : row[c] = "deleted" /\ age[c] # "oneDay"
  /\ row' = [c \in Clients |-> IF row[c] = "deleted" /\ age[c] # "oneDay" THEN "none" ELSE row[c]]
  /\ UNCHANGED <<up, crashes, connections, insertQueue, batches, age, written, lost>>

\* Every hour.
deleteOldClients ==
  /\ up[Zero] /\ Old # {}
  /\ row' = [c \in Clients |-> IF c \in Old THEN "none" ELSE row[c]]
  /\ age' = [c \in Clients |-> IF c \in Old THEN "young" ELSE age[c]]
  /\ UNCHANGED <<up, crashes, connections, insertQueue, batches, written, lost>>

\* Time passes.
Age(c) ==
  /\ row[c] # "none" /\ age[c] = "young"
  /\ age' = [age EXCEPT ![c] = IF row[c] = "visible" THEN "fiveMinutes" ELSE "oneDay"]
  /\ UNCHANGED <<up, crashes, connections, insertQueue, batches, row, written, lost>>

-----------------------------------------------------------------------------
(* Crash and restart of an instance.                                        *)

On(i) == {c \in Clients : at[c] = i /\ phase[c] # "new"}

\* Connections, queue and shares under way are gone.  A statement that was on
\* its way is executed or not: done says which.
Crash(i) ==
  /\ up[i] /\ crashes < MaxCrashes
  /\ crashes' = crashes + 1 /\ up' = [up EXCEPT ![i] = FALSE]
  /\ phase' = [c \in Clients |-> IF c \in On(i) THEN "gone" ELSE phase[c]]
  /\ entity' = [c \in Clients |-> IF c \in On(i) /\ entity[c] = "validating" THEN "none" ELSE entity[c]]
  /\ insertQueue' = [insertQueue EXCEPT ![i] = {}] /\ batches' = [batches EXCEPT ![i] = {}]
  /\ \E done \in SUBSET batches[i], deleted \in SUBSET (deletes \cap On(i)) :
       /\ \E first \in SUBSET deleted :  \* those deleted before they were inserted
            row' = [c \in Clients |->
                      IF c \in deleted \ first /\ (c \in UNION done \/ row[c] = "visible") THEN "deleted"
                      ELSE IF c \in UNION done THEN "visible"
                      ELSE IF c \in first /\ row[c] = "visible" THEN "deleted"
                      ELSE row[c]]
       /\ age' = [c \in Clients |-> IF row'[c] # row[c] \/ c \in deleted THEN "young" ELSE age[c]]
       /\ written' = written \cup UNION done
       /\ lost' = lost \cup insertQueue[i] \cup UNION (batches[i] \ done)
  /\ deletes' = deletes \ On(i)
  /\ UNCHANGED at

\* Instance 0 deletes all clients when it starts, those of other instances too.
Restart(i) ==
  /\ ~up[i]
  /\ up' = [up EXCEPT ![i] = TRUE]
  /\ SoftDelete(IF i = Zero THEN Clients ELSE {})
  /\ UNCHANGED <<crashes, connections, insertQueue, batches, written, lost>>

-----------------------------------------------------------------------------
Next ==
  \/ \E c \in Clients : Connect(c) \/ Submit(c) \/ insert(c) \/ destroy(c) \/ delete(c) \/ Age(c)
  \/ \E i \in Instances : insertClients(i) \/ InsertEnds(i) \/ Crash(i) \/ Restart(i)
  \/ killDeadClients \/ deleteOldClients

Spec == Init /\ [][Next]_vars

\* Timers fire, statements end, time passes, pm2 restarts what has crashed.
\* Clients owe nothing, and neither does the database owe success.
FairSpec ==
  /\ Spec
  /\ \A c \in Clients : WF_vars(insert(c)) /\ WF_vars(delete(c)) /\ WF_vars(Age(c))
  /\ \A i \in Instances : WF_vars(insertClients(i)) /\ WF_vars(InsertEnds(i)) /\ WF_vars(Restart(i))
  /\ WF_vars(killDeadClients) /\ WF_vars(deleteOldClients)

-----------------------------------------------------------------------------
(* Properties.                                                              *)

\* The variables have their types; deletedAt starts a new period.
TypeOK ==
  /\ up \in [Instances -> BOOLEAN] /\ crashes \in 0..MaxCrashes /\ at \in [Clients -> Instances]
  /\ phase \in [Clients -> {"new", "live", "gone"}]
  /\ entity \in [Clients -> {"none", "validating", "registered"}]
  /\ insertQueue \in [Instances -> SUBSET Clients]
  /\ batches \in [Instances -> SUBSET SUBSET Clients] /\ deletes \subseteq Clients
  /\ row \in [Clients -> {"none", "visible", "deleted"}]
  /\ \A c \in Clients : age[c] \in {"young"} \cup (IF row[c] = "visible" THEN {"fiveMinutes"} ELSE {})
                                            \cup (IF row[c] = "deleted" THEN {"oneDay"} ELSE {})
  /\ written \subseteq Clients /\ lost \subseteq Clients

\* Where a registered client can be.
Places(c) ==
  {p \in {"queue", "batch", "written", "lost"} :
     CASE p = "queue"   -> c \in insertQueue[at[c]]
       [] p = "batch"   -> c \in UNION batches[at[c]]
       [] p = "written" -> c \in written
       [] p = "lost"    -> c \in lost}

\* A registered client is never forgotten between the queue and the table, and
\* never inserted twice, although batches overlap: it is in exactly one place.
RegisteredAreKept ==
  \A c \in Clients : entity[c] = "registered" => Cardinality(Places(c)) = 1

\* The row of a client that has left disappears for good: also when its
\* deletion came before its insertion, its share was handled after it had left,
\* or its instance crashed.
NoGhosts == \A c \in Clients : (phase[c] = "gone") ~> [](row[c] # "visible")

\* The row of a deleted client is removed in the end.
RowsPurged == \A c \in Clients : (row[c] = "deleted") ~> (row[c] = "none")
=============================================================================
