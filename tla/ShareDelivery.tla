---------------------------- MODULE ShareDelivery ---------------------------
(***************************************************************************)
(* How cpuminer-multi gets the shares its threads find to the pool:        *)
(*                                                                         *)
(*   stratum_thread   keeps a connection, with retries, and reads from it  *)
(*   miner_thread     finds shares and puts them on a queue                *)
(*   workio_thread    takes them from the queue and sends them             *)
(*                                                                         *)
(* What a miner thread scans is MinerWork's subject: here a thread has the *)
(* previous hash of its work, and finds a share at any time.  The workio   *)
(* thread reads g_work without g_work_lock, so writing g_work takes two    *)
(* steps.  Of the pool it matters that it ends a connection on which a     *)
(* share arrives before stratum is initialized (StratumClient).            *)
(***************************************************************************)
EXTENDS Integers, Sequences, FiniteSets

CONSTANTS
  Threads,      \* miner threads
  OptRetries,   \* values of the option --retries to consider, -1 is for ever
  NULL,
  \* bounds
  MaxTroubles,  \* losses and resets of connections, and refusals on them
  MaxBlocks,    \* previous hashes the pool announces
  MaxShares     \* shares found

\* A share, and the previous hash that it was found for.
Share == [id: 1..MaxShares, prev: 1..MaxBlocks]

ASSUME DeliveryAssumption ==
  /\ OptRetries \subseteq Nat \cup {-1} /\ NULL \notin Share
  /\ MaxTroubles \in Nat /\ MaxBlocks \in Nat /\ MaxShares \in Nat

VARIABLES
  opt_retries,
  spc,         \* where stratum_thread is
  failures,    \* failed attempts to connect, counted when retries are limited
  conn,        \* stratum.curl and its socket: "none", "up", or "lost" and unnoticed
  ready,       \* the pool's stratumInitialized for this connection
  need_reset,  \* stratum_need_reset
  troubles,
  prev,        \* previous hash of the last job, 0 before any
  g_prev,      \* previous hash in g_work
  g_id,        \* g_work_time and job id of g_work: "zero", "old" or "same" as the job's
  mpc,         \* miner_thread: "mine", inside stratum_gen_work "gen", or "dead"
  mined,       \* previous hash of its work
  tq, frozen,  \* queue of the workio thread
  wpc, cmd, tries,
  spurious,    \* tq_pop has returned NULL though nothing was pushed
  found, resolved  \* shares found; shares sent, or discarded as stale

stratumVars == <<spc, failures, conn, ready, need_reset, troubles>>
workVars == <<prev, g_prev, g_id>>
minerVars == <<mpc, mined>>
queueVars == <<tq, frozen>>
workioVars == <<wpc, cmd, tries, spurious>>
shareVars == <<found, resolved>>
vars == <<opt_retries, stratumVars, workVars, minerVars, queueVars, workioVars, shareVars>>

exited == wpc = "exited"

Init ==
  /\ opt_retries \in OptRetries
  /\ spc = "top" /\ failures = 0 /\ conn = "none" /\ ready = FALSE /\ need_reset = FALSE
  /\ troubles = 0
  /\ prev = 0 /\ g_prev = 0 /\ g_id = "zero"
  /\ mpc = [t \in Threads |-> "mine"] /\ mined = [t \in Threads |-> 0]
  /\ tq = <<>> /\ frozen = FALSE
  /\ wpc = "pop" /\ cmd = NULL /\ tries = 0 /\ spurious = FALSE
  /\ found = {} /\ resolved = {}

-----------------------------------------------------------------------------
\* Mutant of GivesUp: the default, -1, is taken for a limit.
GivesUpByDefault(n) == n + 1 > opt_retries

\* opt_retries >= 0 && ++failures > opt_retries
GivesUp(n) == opt_retries >= 0 /\ n + 1 > opt_retries
CountFailure(n) == IF opt_retries >= 0 THEN n + 1 ELSE n

\* Something goes wrong on a connection that is up.
Trouble == troubles < MaxTroubles /\ troubles' = troubles + 1

\* A frozen queue takes nothing.
tq_push(x) == tq' = IF frozen THEN tq ELSE Append(tq, x)

\* Some thread holds g_work_lock and work_lock inside stratum_gen_work.
Generating == spc = "gen" \/ \E t \in Threads : mpc[t] = "gen"

-----------------------------------------------------------------------------
(* stratum_thread.                                                          *)

\* stratum.job.job_id && (!g_work_time || strcmp(stratum.job.job_id, g_work.job_id)),
\* without the lock: while a miner thread writes g_work, either outcome.
NewJobSeen ==
  IF prev = 0 THEN {FALSE}
  ELSE IF g_id = "zero" THEN {TRUE}
  ELSE IF Generating THEN {TRUE, FALSE}
  ELSE {g_id = "old"}

CheckJob == \E isNew \in NewJobSeen : spc' = IF isNew THEN "lock" ELSE "recv"

\* Mutant of StratumTop: the flag is only looked at.
StratumTopIgnoresReset ==
  /\ spc = "top"
  /\ failures' = 0
  /\ IF conn = "none" THEN spc' = "dial" ELSE CheckJob
  /\ UNCHANGED <<opt_retries, conn, ready, need_reset, troubles, workVars, minerVars, queueVars, workioVars, shareVars>>

\* Top of the loop: a reset asked for through the API closes the connection;
\* failures is a local variable of the loop's body.
StratumTop ==
  /\ spc = "top"
  /\ need_reset' = FALSE /\ failures' = 0
  /\ conn' = IF need_reset THEN "none" ELSE conn
  /\ IF conn' = "none" THEN spc' = "dial" ELSE CheckJob
  /\ UNCHANGED <<opt_retries, ready, troubles, workVars, minerVars, queueVars, workioVars, shareVars>>

\* Without a connection g_work_time is zeroed and the threads are restarted.
Dial ==
  /\ spc = "dial" /\ ~Generating
  /\ g_id' = "zero" /\ spc' = "connect"
  /\ UNCHANGED <<opt_retries, failures, conn, ready, need_reset, troubles, prev, g_prev,
                 minerVars, queueVars, workioVars, shareVars>>

stratum_connect ==
  /\ spc = "connect"
  /\ conn' = "up" /\ ready' = FALSE /\ spc' = "subscribe"
  /\ UNCHANGED <<opt_retries, failures, need_reset, troubles, workVars, minerVars, queueVars, workioVars, shareVars>>

stratum_subscribe ==
  /\ spc = "subscribe" /\ conn = "up"
  /\ spc' = "authorize"
  /\ UNCHANGED <<opt_retries, failures, conn, ready, need_reset, troubles, workVars, minerVars,
                 queueVars, workioVars, shareVars>>

\* The pool has both messages, and initializes stratum.
PoolInitializes ==
  /\ conn = "up" /\ spc # "subscribe" /\ ~ready
  /\ ready' = TRUE
  /\ UNCHANGED <<opt_retries, spc, failures, conn, need_reset, troubles, workVars, minerVars,
                 queueVars, workioVars, shareVars>>

stratum_authorize ==
  /\ spc = "authorize" /\ conn = "up"
  /\ spc' = "newjob"
  /\ UNCHANGED <<opt_retries, failures, conn, ready, need_reset, troubles, workVars, minerVars,
                 queueVars, workioVars, shareVars>>

\* Mutant of HandshakeFails: stratum_thread ends without a word.
HandshakeFailsSilently ==
  /\ spc \in {"connect", "subscribe", "authorize"}
  /\ IF conn = "up" THEN Trouble ELSE troubles' = troubles
  /\ conn' = "none" /\ tq' = tq
  /\ IF GivesUp(failures)
       THEN spc' = "gone" /\ failures' = failures
       ELSE failures' = CountFailure(failures) /\ spc' = "dial"
  /\ UNCHANGED <<opt_retries, ready, need_reset, workVars, minerVars, frozen, workioVars, shareVars>>

\* Connecting, subscribing or authorizing failed: close, then try again, or
\* tell the workio thread to end when the retries are used up.
HandshakeFails ==
  /\ spc \in {"connect", "subscribe", "authorize"}
  /\ IF conn = "up" THEN Trouble ELSE troubles' = troubles
  /\ conn' = "none"
  /\ IF GivesUp(failures)
       THEN tq_push(NULL) /\ spc' = "gone" /\ failures' = failures
       ELSE failures' = CountFailure(failures) /\ spc' = "dial" /\ tq' = tq
  /\ UNCHANGED <<opt_retries, ready, need_reset, workVars, minerVars, frozen, workioVars, shareVars>>

\* After a handshake the job is looked at without going through the top.
Connected ==
  /\ spc = "newjob" /\ CheckJob
  /\ UNCHANGED <<opt_retries, failures, conn, ready, need_reset, troubles, workVars, minerVars,
                 queueVars, workioVars, shareVars>>

BeginWork ==
  /\ spc = "lock" /\ ~Generating
  /\ spc' = "gen"
  /\ UNCHANGED <<opt_retries, failures, conn, ready, need_reset, troubles, workVars, minerVars,
                 queueVars, workioVars, shareVars>>

FinishWork ==
  /\ spc = "gen"
  /\ g_prev' = prev /\ g_id' = "same" /\ spc' = "recv"
  /\ UNCHANGED <<opt_retries, failures, conn, ready, need_reset, troubles, prev, minerVars,
                 queueVars, workioVars, shareVars>>

\* A job, on a new hash or on the same.
stratum_notify ==
  /\ spc \in {"authorize", "recv"} /\ conn = "up" /\ ready /\ ~Generating
  /\ prev' \in {prev, prev + 1} \ {0} /\ prev' <= MaxBlocks
  /\ g_id' = IF g_id = "same" THEN "old" ELSE g_id
  /\ spc' = IF spc = "recv" THEN "top" ELSE "authorize"
  /\ UNCHANGED <<opt_retries, failures, conn, ready, need_reset, troubles, g_prev, minerVars,
                 queueVars, workioVars, shareVars>>

\* A line that changes nothing here: the answer to a share, set_difficulty, an
\* unknown method, or a notify that is refused, as one with an empty hash is.
OtherLine ==
  /\ spc = "recv" /\ conn = "up"
  /\ spc' = "top"
  /\ UNCHANGED <<opt_retries, failures, conn, ready, need_reset, troubles, workVars, minerVars,
                 queueVars, workioVars, shareVars>>

\* No line within the timeout, or the connection is closed.
ReceiveFails ==
  /\ spc = "recv"
  /\ IF conn = "up" THEN Trouble ELSE troubles' = troubles
  /\ conn' = "none" /\ spc' = "top"
  /\ UNCHANGED <<opt_retries, failures, ready, need_reset, workVars, minerVars, queueVars, workioVars, shareVars>>

\* The connection breaks; the miner learns of it later.
ConnectionLost ==
  /\ conn = "up" /\ Trouble
  /\ conn' = "lost"
  /\ UNCHANGED <<opt_retries, spc, failures, ready, need_reset, workVars, minerVars, queueVars, workioVars, shareVars>>

\* The API's seturl command.
remote_seturl ==
  /\ ~need_reset /\ ~exited /\ Trouble
  /\ need_reset' = TRUE
  /\ UNCHANGED <<opt_retries, spc, failures, conn, ready, workVars, minerVars, queueVars, workioVars, shareVars>>

-----------------------------------------------------------------------------
(* miner_thread.                                                            *)

\* The thread copies g_work, perhaps after g_work_time was zeroed again.
TakeWork(t) ==
  /\ mpc[t] = "mine" /\ g_prev # 0 /\ ~Generating /\ mined[t] # g_prev
  /\ mined' = [mined EXCEPT ![t] = g_prev]
  /\ UNCHANGED <<opt_retries, mpc, stratumVars, workVars, queueVars, workioVars, shareVars>>

\* Its range is exhausted: it makes new work itself.
BeginRegenerate(t) ==
  /\ mpc[t] = "mine" /\ ~Generating /\ mined[t] # 0
  /\ mpc' = [mpc EXCEPT ![t] = "gen"]
  /\ UNCHANGED <<opt_retries, mined, stratumVars, workVars, queueVars, workioVars, shareVars>>

Regenerate(t) ==
  /\ mpc[t] = "gen"
  /\ g_prev' = prev /\ g_id' = IF g_id = "old" THEN "same" ELSE g_id
  /\ mpc' = [mpc EXCEPT ![t] = "mine"] /\ mined' = [mined EXCEPT ![t] = prev]
  /\ UNCHANGED <<opt_retries, prev, stratumVars, queueVars, workioVars, shareVars>>

\* A share is found, also for work that is outdated by now; submit_work queues
\* it.  A thread that cannot queue its share ends.
FindShare(t) ==
  /\ mpc[t] = "mine" /\ mined[t] # 0 /\ Cardinality(found) < MaxShares
  /\ LET s == [id |-> Cardinality(found) + 1, prev |-> mined[t]]
     IN found' = found \cup {s} /\ tq_push(s)
  /\ mpc' = [mpc EXCEPT ![t] = IF frozen THEN "dead" ELSE "mine"]
  /\ UNCHANGED <<opt_retries, mined, stratumVars, workVars, frozen, workioVars, resolved>>

-----------------------------------------------------------------------------
(* workio_thread.                                                           *)

\* Mutant of tq_pop: NULL is taken for a share.
tq_popUnchecked ==
  /\ wpc = "pop" /\ tq # <<>>
  /\ cmd' = Head(tq) /\ tq' = Tail(tq)
  /\ wpc' = "check"
  /\ UNCHANGED <<opt_retries, tries, spurious, frozen, stratumVars, workVars, minerVars, shareVars>>

\* Mutant of tq_pop: it waits for a signal although there is more than one entry.
tq_popWaits ==
  /\ wpc = "pop" /\ Len(tq) = 1
  /\ cmd' = Head(tq) /\ tq' = Tail(tq)
  /\ wpc' = IF cmd' = NULL THEN "end" ELSE "check"
  /\ UNCHANGED <<opt_retries, tries, spurious, frozen, stratumVars, workVars, minerVars, shareVars>>

\* An entry is there, or pushed while tq_pop waits; NULL ends the thread.
tq_pop ==
  /\ wpc = "pop" /\ tq # <<>>
  /\ cmd' = Head(tq) /\ tq' = Tail(tq)
  /\ wpc' = IF cmd' = NULL THEN "end" ELSE "check"
  /\ UNCHANGED <<opt_retries, tries, spurious, frozen, stratumVars, workVars, minerVars, shareVars>>

\* pthread_cond_wait is called once, not in a loop: when it returns although
\* nothing was pushed, tq_pop returns NULL.
SpuriousWakeup ==
  /\ wpc = "pop" /\ tq = <<>>
  /\ wpc' = "end" /\ spurious' = TRUE
  /\ UNCHANGED <<opt_retries, cmd, tries, queueVars, stratumVars, workVars, minerVars, shareVars>>

\* memcmp(&work->data[1], &g_work.data[1], 32), without g_work_lock: while
\* g_work is written its hash is the old or the new one, zeroes, or a mixture.
StaleSeen(s) == IF Generating THEN {TRUE, s.prev # g_prev, s.prev # prev} ELSE {s.prev # g_prev}

\* The share is dealt with: workio_cmd_free, and back to the queue.
Resolve == resolved' = resolved \cup {cmd} /\ cmd' = NULL /\ tries' = 0 /\ wpc' = "pop"

CheckStale ==
  /\ wpc = "check"
  /\ \E isStale \in StaleSeen(cmd) :
       IF isStale THEN Resolve
       ELSE wpc' = "send" /\ UNCHANGED <<cmd, tries, resolved>>
  /\ UNCHANGED <<opt_retries, spurious, queueVars, stratumVars, workVars, minerVars, found>>

\* stratum_send_line on whatever connection there is: one that is broken without
\* notice, or a new one, which the pool ends when it is not initialized.
SendShare ==
  /\ wpc = "send" /\ conn # "none"
  /\ Resolve
  /\ conn' = IF ready THEN conn ELSE "lost"
  /\ UNCHANGED <<opt_retries, spurious, spc, failures, ready, need_reset, troubles,
                 queueVars, workVars, minerVars, found>>

\* Mutant of SendFails: the share is dropped instead of being sent again.
SendFailsDrops ==
  /\ wpc = "send" /\ conn # "up" /\ troubles' = troubles
  /\ wpc' = "pop" /\ cmd' = NULL /\ tries' = 0
  /\ UNCHANGED <<opt_retries, spurious, queueVars, spc, failures, conn, ready, need_reset,
                 workVars, minerVars, shareVars>>

\* The socket is closed, broken, or for the moment full: try again after
\* opt_fail_pause, from the check on, or end when the retries are used up.
SendFails ==
  /\ wpc = "send"
  /\ IF conn = "up" THEN Trouble ELSE troubles' = troubles
  /\ wpc' = IF GivesUp(tries) THEN "end" ELSE "check"
  /\ tries' = CountFailure(tries)
  /\ UNCHANGED <<opt_retries, cmd, spurious, queueVars, spc, failures, conn, ready, need_reset,
                 workVars, minerVars, shareVars>>

tq_freeze ==
  /\ wpc = "end"
  /\ frozen' = TRUE /\ wpc' = "dead"
  /\ UNCHANGED <<opt_retries, cmd, tries, spurious, tq, stratumVars, workVars, minerVars, shareVars>>

\* main joins the workio thread only, and returns: the process ends, whatever
\* the other threads are doing.
Exit ==
  /\ wpc = "dead" /\ wpc' = "exited"
  /\ spc' = "gone" /\ conn' = "none" /\ mpc' = [t \in Threads |-> "dead"]
  /\ UNCHANGED <<opt_retries, cmd, tries, spurious, queueVars, failures, ready, need_reset, troubles,
                 workVars, mined, shareVars>>

-----------------------------------------------------------------------------
\* What stratum_thread does by itself, without a line from the pool.
StratumStep ==
  \/ StratumTop \/ Dial \/ stratum_connect \/ stratum_subscribe \/ stratum_authorize
  \/ HandshakeFails \/ Connected \/ BeginWork \/ FinishWork

Receive == stratum_notify \/ OtherLine \/ ReceiveFails

WorkioStep == tq_pop \/ CheckStale \/ SendShare \/ SendFails \/ tq_freeze \/ Exit

MinerStep(t) == TakeWork(t) \/ BeginRegenerate(t) \/ Regenerate(t) \/ FindShare(t)

Next ==
  \/ StratumStep \/ Receive \/ WorkioStep
  \/ PoolInitializes \/ ConnectionLost \/ remote_seturl \/ SpuriousWakeup
  \/ \E t \in Threads : MinerStep(t)

Spec == Init /\ [][Next]_vars

\* The system runs every thread, and stratum_thread gets a lock that is free again
\* and again, although the miner threads take it too; waiting for a line ends
\* (opt_timeout, and the pool sends a job a minute); the pool initializes a
\* connection that stays.  That it can be reached is not assumed: each attempt to
\* connect may fail, for ever.
FairSpec ==
  /\ Spec
  /\ SF_vars(StratumStep) /\ WF_vars(spc = "recv" /\ Receive) /\ WF_vars(WorkioStep)
  /\ WF_vars(PoolInitializes) /\ WF_vars(\E t \in Threads : Regenerate(t))

-----------------------------------------------------------------------------
(* Properties.                                                              *)

\* The variables have their types; the workio thread handles only shares.
TypeOK ==
  /\ opt_retries \in OptRetries
  /\ spc \in {"top", "dial", "connect", "subscribe", "authorize", "newjob", "lock", "gen", "recv", "gone"}
  /\ failures \in Nat /\ conn \in {"none", "up", "lost"} /\ ready \in BOOLEAN
  /\ need_reset \in BOOLEAN /\ troubles \in 0..MaxTroubles
  /\ prev \in 0..MaxBlocks /\ g_prev \in 0..prev /\ g_id \in {"zero", "old", "same"}
  /\ mpc \in [Threads -> {"mine", "gen", "dead"}] /\ mined \in [Threads -> 0..MaxBlocks]
  /\ \A i \in 1..Len(tq) : tq[i] \in Share \cup {NULL}
  /\ frozen \in BOOLEAN /\ spurious \in BOOLEAN /\ tries \in Nat
  /\ wpc \in {"pop", "check", "send", "end", "dead", "exited"}
  /\ cmd \in Share \cup {NULL} /\ (wpc \in {"check", "send"} => cmd \in Share)
  /\ found \subseteq Share /\ resolved \subseteq found

\* Where a share found can be.
Places(s) ==
  (IF s \in resolved THEN {"resolved"} ELSE {}) \cup (IF s = cmd THEN {"cmd"} ELSE {})
    \cup {i \in 1..Len(tq) : tq[i] = s}

\* No share is lost or handled twice while the workio thread runs: each is in
\* the queue once, or being sent, or resolved, whatever retries it took.
SharesConserved == ~frozen => \A s \in found : Cardinality(Places(s)) = 1

\* "number of times to retry if a network call fails (default: retry
\* indefinitely)": with the default, no failure of the network ends the process.
RetriesIndefinitely == opt_retries = -1 /\ ~spurious => wpc \in {"pop", "check", "send"}

\* Every share found is sent or discarded as stale, over lost connections, resets
\* and refused handshakes, if the miner comes to be connected again and again, and
\* unless the process ends.
SharesResolved == []<>(conn = "up") => []<>(exited \/ found \subseteq resolved)

\* When the stratum thread gives up, the process ends, also when shares are
\* queued before the NULL it pushes.
GivingUpEnds == (spc = "gone") ~> exited

\* A new URL set through the API is taken notice of, unless stratum_thread ends or
\* never leaves the loop that connects to the old pool: that loop does not look at
\* the flag, so a miner is not moved away from a pool that cannot be reached.
Reconnecting == spc \in {"dial", "connect", "subscribe", "authorize"}
ResetHonoured == need_reset ~> (~need_reset \/ spc = "gone" \/ []Reconnecting)
=============================================================================
