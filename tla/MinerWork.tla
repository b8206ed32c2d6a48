------------------------------ MODULE MinerWork ------------------------------
(***************************************************************************)
(* The miner at the other end of the pool's protocol is cpuminer-multi in  *)
(* its stratum mode.  This module is how its threads share out the work:   *)
(*                                                                         *)
(*   stratum_thread   receives jobs and makes g_work from them             *)
(*   miner_thread     one per CPU: copies g_work, scans its range of nonces *)
(*                                                                         *)
(* What becomes of the shares found is ShareDelivery's subject.  A critical *)
(* section is one step, except stratum_gen_work, which is begun and        *)
(* finished in two: stratum_thread reads g_work without g_work_lock, and   *)
(* may see it half written.                                                *)
(***************************************************************************)
EXTENDS Integers

CONSTANTS
  opt_n_threads,  \* number of miner threads
  NonceMax,       \* largest nonce, 0xffffffff in the code
  Margin,         \* what a thread leaves free at the end of its range, 0x20
  Lanes,          \* nonces hashed at once: 1, 4 or 8
  Limits,         \* bounds, of which a behaviour has one: the jobs the pool sends, in
                  \* all and of one second in one session, the connections lost or
                  \* reset, and, times the jobs sent, the extranonce2 up to which
                  \* exhausted work is regenerated; and whether a share found is
                  \* remembered (which no step depends on, only NoDuplicateShare)
  \* what stands for absent values
  NoJob, NoWork, NoShare

Threads == 0 .. opt_n_threads - 1

\* Mutant of end_nonce: nothing is left free at the end of a range.
end_nonceNoMargin(t) == (NonceMax \div opt_n_threads) * (t + 1)

\* First nonce of thread t, and the nonce at which its range is exhausted.
FirstNonce(t) == (NonceMax \div opt_n_threads) * t
end_nonce(t) == (NonceMax \div opt_n_threads) * (t + 1) - Margin

Job == [id: Nat, ntime: Nat, session: Nat]
Work == [job: Job, xnonce2: Nat]
Share == [work: Work, nonce: 0..NonceMax]

\* The margin has room for the lanes that overshoot end_nonce, once more for each
\* job of the same second: a thread that has exhausted its range may regenerate
\* from such a job, which looks to it like its own work, and scan on.
ASSUME MinerAssumption ==
  /\ opt_n_threads \in Nat \ {0} /\ NonceMax \in Nat
  /\ Lanes \in Nat \ {0} /\ Margin \in Nat
  /\ Margin < NonceMax \div opt_n_threads
  /\ Limits \subseteq [jobs: Nat, burst: Nat \ {0}, reconnects: Nat, xnonce2: Nat,
                       follow: BOOLEAN]
  /\ \A l \in Limits : Lanes * l.burst <= Margin
  /\ NoJob \notin Job /\ NoWork \notin Work /\ NoShare \notin Share

VARIABLES
  limit,        \* the bounds of this behaviour
  spc,          \* where stratum_thread is
  session,      \* the session whose extranonce1 sctx->xnonce1 holds
  job,          \* sctx->job
  xnonce2,      \* sctx->job.xnonce2
  lastId,       \* the id of the last job sent by the current run of the pool
  jobs, reconnects,  \* numbers of jobs and of lost connections so far
  burst,        \* of the jobs so far, those of the session and second of the last
  g_work, g_work_time,
  mpc,          \* where each miner_thread is
  work,         \* its copy of the work
  nonce,        \* work.data[19], while scanning the first nonce not yet tried
  restart,      \* work_restart
  seen          \* one of the shares found, any: it stands for each of them

stratumVars == <<limit, spc, session, job, xnonce2, lastId, jobs, reconnects, burst>>
minerVars == <<mpc, work, nonce, restart>>
vars == <<stratumVars, g_work, g_work_time, minerVars, seen>>

Init ==
  /\ limit \in Limits
  /\ spc = "dial" /\ session = 0 /\ job = NoJob /\ xnonce2 = 0
  /\ lastId = 0 /\ jobs = 0 /\ reconnects = 0 /\ burst = 0
  /\ g_work = NoWork /\ g_work_time = "zero"
  /\ mpc = [t \in Threads |-> "wait"] /\ work = [t \in Threads |-> NoWork]
  /\ nonce = [t \in Threads |-> 0] /\ restart = [t \in Threads |-> FALSE]
  /\ seen = NoShare

-----------------------------------------------------------------------------
(* Work.                                                                    *)

\* The bytes 43..75 of a header: the end of the merkle root, which depends on
\* both extranonces alone (the pool's coinbase parts are empty and its branch
\* is constant), ntime and nbits (constant).
Tail43(w) == IF w = NoWork THEN <<>> ELSE <<w.job.session, w.xnonce2, w.job.ntime>>

\* memcmp(0..75) || jsonrpc_2 ? memcmp(43..75) : 0 -- by C's precedence the
\* bytes 43..75 decide alone.
WorkDiffers(w, g) == Tail43(w) # Tail43(g)

\* Some thread holds g_work_lock and sctx->work_lock inside stratum_gen_work.
Generating == spc = "gen" \/ \E t \in Threads : mpc[t] = "gen"

\* The end of stratum_gen_work: g_work is written from the job, and the job's
\* extranonce2 has been incremented.
stratum_gen_work ==
  /\ g_work' = [job |-> job, xnonce2 |-> xnonce2]
  /\ xnonce2' = xnonce2 + 1

restart_threads == restart' = [t \in Threads |-> TRUE]

-----------------------------------------------------------------------------
(* stratum_thread.                                                          *)

\* Without a connection g_work_time is zeroed under g_work_lock, so that the
\* threads wait, and they are restarted.  Then stratum_connect and
\* stratum_subscribe: the answer brings a new extranonce1.  The pool may have
\* been restarted meanwhile: its job ids start again.
Dial ==
  /\ spc = "dial" /\ ~Generating
  /\ g_work_time' = "zero" /\ restart_threads
  /\ session' = session + 1 /\ lastId' \in {0, lastId}
  /\ spc' = "authorize"
  /\ UNCHANGED <<limit, job, xnonce2, jobs, reconnects, burst, g_work, mpc, work, nonce, seen>>

\* stratum_authorize waits for its answer and handles the jobs that come before
\* it; then the job is looked at.
Authorized ==
  /\ spc = "authorize" /\ spc' = "newjob"
  /\ UNCHANGED <<limit, session, job, xnonce2, lastId, jobs, reconnects, burst, g_work, g_work_time, minerVars, seen>>

\* mining.notify is accepted: the job is replaced under work_lock; extranonce2
\* starts again unless the id is the one of the job before.  A few jobs of one
\* session may be of the same second: the pool makes one a minute, and one for a
\* new hash.
stratum_notify ==
  /\ spc \in {"authorize", "recv"} /\ ~Generating
  /\ jobs < limit.jobs /\ jobs' = jobs + 1 /\ lastId' = lastId + 1
  /\ \E laterSecond \in BOOLEAN :
       /\ job = NoJob => laterSecond
       /\ IF laterSecond \/ job.session # session
            THEN burst' = 1
            ELSE burst < limit.burst /\ burst' = burst + 1
       /\ LET last == IF job = NoJob THEN 0 ELSE job.ntime
          IN job' = [id |-> lastId', session |-> session,
                     ntime |-> last + (IF laterSecond THEN 1 ELSE 0)]
  /\ xnonce2' = IF job = NoJob \/ job.id # lastId' THEN 0 ELSE xnonce2
  /\ spc' = IF spc = "recv" THEN "top" ELSE "authorize"
  /\ UNCHANGED <<limit, session, reconnects, g_work, g_work_time, minerVars, seen>>

\* Mutant of NewJobSeen: only a reconnection makes new work.
NewJobSeenOnce == {job # NoJob /\ g_work_time = "zero"}

\* stratum.job.job_id && (!g_work_time || strcmp(stratum.job.job_id, g_work.job_id)),
\* without g_work_lock: while a miner thread writes g_work, its id is the old
\* one, freed memory, or already this job's.
NewJobSeen ==
  IF job = NoJob THEN {FALSE}
  ELSE IF g_work_time = "zero" THEN {TRUE}
  ELSE IF Generating THEN {TRUE, FALSE}
  ELSE {job.id # g_work.job.id}

CheckJob ==
  /\ spc \in {"newjob", "top"}
  /\ \E isNew \in NewJobSeen : spc' = IF isNew THEN "lock" ELSE "recv"
  /\ UNCHANGED <<limit, session, job, xnonce2, lastId, jobs, reconnects, burst, g_work, g_work_time, minerVars, seen>>

BeginWork ==
  /\ spc = "lock" /\ ~Generating
  /\ spc' = "gen"
  /\ UNCHANGED <<limit, session, job, xnonce2, lastId, jobs, reconnects, burst, g_work, g_work_time, minerVars, seen>>

\* The work is made.  Of any job the pool may have said that it clears the others,
\* which is all that the choice of the next step depends on.
FinishWork ==
  /\ spc = "gen"
  /\ stratum_gen_work /\ g_work_time' = "fresh"
  /\ spc' \in {"restart", "recv"}
  /\ UNCHANGED <<limit, session, job, lastId, jobs, reconnects, burst, minerVars, seen>>

\* After the lock is released, a job that clears the others restarts the threads.
RestartThreads ==
  /\ spc = "restart"
  /\ restart_threads /\ spc' = "recv"
  /\ UNCHANGED <<limit, session, job, xnonce2, lastId, jobs, reconnects, burst, g_work, g_work_time, mpc, work, nonce, seen>>

\* The handshake fails, the connection is lost or silent for too long, or it is
\* reset through the API, at the top of the loop; the job is kept.
Disconnect ==
  /\ spc \in {"authorize", "recv", "top"} /\ reconnects < limit.reconnects
  /\ reconnects' = reconnects + 1 /\ spc' = "dial"
  /\ UNCHANGED <<limit, session, job, xnonce2, lastId, jobs, burst, g_work, g_work_time, minerVars, seen>>

-----------------------------------------------------------------------------
(* miner_thread.                                                            *)

\* Mutant of WaitForWork: a thread waits for its restart flag.
WaitForRestart(t) ==
  /\ mpc[t] = "wait" /\ g_work_time = "fresh" /\ restart[t]
  /\ mpc' = [mpc EXCEPT ![t] = "take"]
  /\ UNCHANGED <<work, nonce, restart, stratumVars, g_work, g_work_time, seen>>

\* Waits while the work is 120 s old; g_work_time is read without the lock.
WaitForWork(t) ==
  /\ mpc[t] = "wait" /\ g_work_time = "fresh"
  /\ mpc' = [mpc EXCEPT ![t] = "take"]
  /\ UNCHANGED <<work, nonce, restart, stratumVars, g_work, g_work_time, seen>>

\* 120 s pass without new work.
WorkAges ==
  /\ g_work_time = "fresh" /\ g_work_time' = "old"
  /\ UNCHANGED <<g_work, stratumVars, minerVars, seen>>

\* The bound on regenerations, which the code does not have.  It grows with each
\* job, so that the work of a later job can get past the extranonces of an earlier.
MayRegenerate == xnonce2 < limit.xnonce2 * jobs

Exhausted(t) == nonce[t] >= end_nonce(t) /\ ~WorkDiffers(work[t], g_work)

\* Mutant of CopyWork: the same work is scanned on from the nonce found.
CopyWorkAgain(t, g) ==
  IF WorkDiffers(work[t], g)
    THEN work' = [work EXCEPT ![t] = g] /\ nonce' = [nonce EXCEPT ![t] = FirstNonce(t)]
    ELSE work' = work /\ nonce' = nonce

\* Copy g and start the thread's range, or go on with the next nonce.
CopyWork(t, g) ==
  IF WorkDiffers(work[t], g)
    THEN work' = [work EXCEPT ![t] = g] /\ nonce' = [nonce EXCEPT ![t] = FirstNonce(t)]
    ELSE work' = work /\ nonce' = [nonce EXCEPT ![t] = @ + 1]

TakeWork(t) ==
  /\ mpc[t] = "take" /\ ~Generating /\ ~Exhausted(t)
  /\ CopyWork(t, g_work)
  /\ mpc' = [mpc EXCEPT ![t] = "clear"]
  /\ UNCHANGED <<restart, stratumVars, g_work, g_work_time, seen>>

BeginRegenerate(t) ==
  /\ mpc[t] = "take" /\ ~Generating /\ Exhausted(t)
  /\ MayRegenerate
  /\ mpc' = [mpc EXCEPT ![t] = "gen"]
  /\ UNCHANGED <<work, nonce, restart, stratumVars, g_work, g_work_time, seen>>

Regenerate(t) ==
  /\ mpc[t] = "gen"
  /\ stratum_gen_work /\ CopyWork(t, g_work')
  /\ mpc' = [mpc EXCEPT ![t] = "clear"]
  /\ UNCHANGED <<limit, restart, g_work_time, spc, session, job, lastId, jobs, reconnects, burst, seen>>

\* The restart flag is cleared after the lock was released; without a job
\* (version 0) nothing is scanned.
ClearRestart(t) ==
  /\ mpc[t] = "clear"
  /\ restart' = [restart EXCEPT ![t] = FALSE]
  /\ mpc' = [mpc EXCEPT ![t] = IF work[t] = NoWork THEN "wait" ELSE "scan"]
  /\ UNCHANGED <<work, nonce, stratumVars, g_work, g_work_time, seen>>

\* Nonces tried by one round of scanhash_sha256d; nonce[t] is the first of them.
Round(t) == nonce[t] .. nonce[t] + Lanes - 1

\* One of the nonces solves the work; submit_work queues a copy of it.
ScanFinds(t) ==
  /\ mpc[t] = "scan"
  /\ \E n \in Round(t) :
       /\ nonce' = [nonce EXCEPT ![t] = n]
       /\ \/ seen' = seen
          \/ /\ limit.follow /\ seen = NoShare
             /\ seen' = [work |-> work[t], nonce |-> n]
  /\ mpc' = [mpc EXCEPT ![t] = "wait"]
  /\ UNCHANGED <<work, restart, stratumVars, g_work, g_work_time>>

\* None does, and max_nonce, which the hash rate puts anywhere up to end_nonce,
\* is not reached yet.
ScanGoesOn(t) ==
  /\ mpc[t] = "scan" /\ ~restart[t]
  /\ nonce[t] + Lanes - 1 < end_nonce(t)
  /\ nonce' = [nonce EXCEPT ![t] = @ + Lanes]
  /\ UNCHANGED <<mpc, work, restart, stratumVars, g_work, g_work_time, seen>>

\* None does, and max_nonce is reached or the thread is restarted.
ScanEnds(t) ==
  /\ mpc[t] = "scan"
  /\ nonce' = [nonce EXCEPT ![t] = @ + Lanes - 1]
  /\ mpc' = [mpc EXCEPT ![t] = "wait"]
  /\ UNCHANGED <<work, restart, stratumVars, g_work, g_work_time, seen>>

-----------------------------------------------------------------------------
\* What stratum_thread does by itself, without an answer or a line from the pool.
StratumStep == CheckJob \/ BeginWork \/ FinishWork \/ RestartThreads

MinerStep(t) ==
  \/ WaitForWork(t) \/ TakeWork(t) \/ BeginRegenerate(t) \/ Regenerate(t) \/ ClearRestart(t)
  \/ ScanFinds(t) \/ ScanGoesOn(t) \/ ScanEnds(t)

Next ==
  \/ Dial \/ Authorized \/ StratumStep \/ stratum_notify \/ Disconnect \/ WorkAges
  \/ \E t \in Threads : MinerStep(t)

Spec == Init /\ [][Next]_vars

\* The operating system runs every thread; the pool owes nothing.
FairSpec == Spec /\ WF_vars(StratumStep) /\ \A t \in Threads : WF_vars(MinerStep(t))

-----------------------------------------------------------------------------
(* Properties.                                                              *)

\* The variables have their types, and a thread's nonces stay in its own range,
\* the lanes that overshoot end_nonce included.
TypeOK ==
  /\ spc \in {"dial", "authorize", "newjob", "top", "lock", "gen", "restart", "recv"}
  /\ session \in Nat /\ job \in Job \cup {NoJob} /\ xnonce2 \in Nat
  /\ limit \in Limits /\ lastId \in 0..jobs /\ jobs \in 0..limit.jobs /\ burst \in 0..limit.burst
  /\ reconnects \in 0..limit.reconnects
  /\ g_work \in Work \cup {NoWork} /\ g_work_time \in {"zero", "fresh", "old"}
  /\ mpc \in [Threads -> {"wait", "take", "gen", "clear", "scan"}]
  /\ work \in [Threads -> Work \cup {NoWork}]
  /\ \A t \in Threads : work[t] # NoWork => nonce[t] \in FirstNonce(t) .. FirstNonce(t + 1) - 1
  /\ restart \in [Threads -> BOOLEAN]
  /\ seen \in Share \cup {NoShare}

\* A nonce that has solved a work is never tried for it again, so no share is
\* submitted twice: not by another thread (the ranges and the lanes that
\* overshoot them are apart), not by the same thread after a restart or a
\* regeneration, and not after a reconnection.
NoDuplicateShare ==
  \A t \in Threads : mpc[t] = "scan" =>
    \A n \in Round(t) : [work |-> work[t], nonce |-> n] # seen

\* When the stratum thread waits for the pool, g_work was made from the last job
\* sent, whichever thread made it.  The exception: a restarted pool that repeats
\* the id of the job kept from the session before is not noticed, since ids alone
\* are compared, and the work of that session stays until it is exhausted.
WorkFollowsJob ==
  spc = "recv" /\ job # NoJob /\ ~Generating =>
    /\ g_work # NoWork
    /\ \/ g_work.job = job
       \/ g_work.job.id = job.id /\ g_work.job.session < job.session

\* While there is fresh work, each thread comes to work on the job of g_work,
\* although it may have missed the restart, or its copy may look the same until
\* its range is exhausted and it makes the next work itself.
ThreadsFollow ==
  \A t \in Threads :
    []<>(g_work_time # "fresh" \/ (work[t] # NoWork /\ work[t].job = g_work.job))
=============================================================================
