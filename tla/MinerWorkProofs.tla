--------------------------- MODULE MinerWorkProofs --------------------------
(***************************************************************************)
(* The work of cpuminer's threads, for any number of threads, lanes, jobs, *)
(* reconnections and regenerations, and any range of nonces.               *)
(*                                                                         *)
(* Work is generated in an order: of two works the one with the later      *)
(* session, then the later job, then the larger extranonce2 came later, so *)
(* a thread never comes back to work that it has left.  A thread scans on  *)
(* past the end of its range only if a job of the same second came that    *)
(* nobody has generated work from; the number of jobs of that second from  *)
(* which work was generated, Spent, therefore bounds how far it gets, and  *)
(* Margin has room for that.                                               *)
(***************************************************************************)
EXTENDS MinerWork, TLAPS

\* What a thread's nonces are taken from.
Range(t) == FirstNonce(t) .. FirstNonce(t + 1) - 1

\* Jobs whose work with the same extranonce2 looks alike.
SameTime(i, j) == i.session = j.session /\ i.ntime = j.ntime

\* The orders in which jobs are sent, and work is generated.
Before(i, j) ==
  /\ i.ntime <= j.ntime
  /\ i.session < j.session \/ (i.session = j.session /\ i.id < j.id)
Older(w, v) == Before(w.job, v.job) \/ (w.job = v.job /\ w.xnonce2 < v.xnonce2)

\* The last job has come after g_work was generated.
Pending == g_work # NoWork /\ xnonce2 # g_work.xnonce2 + 1

\* Of the jobs of g_work's second, those with work, or all there can be if that
\* second is over; and the same for a thread's work.
Spent ==
  IF g_work # NoWork /\ ~SameTime(g_work.job, job)
    THEN limit.burst
    ELSE burst - (IF Pending THEN 1 ELSE 0)
Bound(t) == IF SameTime(work[t].job, g_work.job) THEN Spent ELSE limit.burst

\* The job, and g_work, which was generated from it or from an earlier one.
JobInv ==
  /\ job = NoJob => g_work = NoWork
  /\ job # NoJob => burst >= 1 /\ job.session <= session /\ (job.session = session => job.id <= lastId)
  /\ g_work # NoWork => /\ Spent >= 1
                        /\ \/ g_work.job = job /\ g_work.xnonce2 < xnonce2
                           \/ Before(g_work.job, job)

\* Who may be where: one thread at most generates, and there is work for those
\* who take or scan it.
LockInv ==
  /\ spc \in {"lock", "gen"} => job # NoJob
  /\ \A t \in Threads : mpc[t] = "gen" => spc # "gen"
  /\ \A t, u \in Threads : mpc[t] = "gen" /\ mpc[u] = "gen" => t = u
  /\ \A t \in Threads : mpc[t] = "gen" => work[t] # NoWork /\ Tail43(work[t]) = Tail43(g_work)
  /\ \A t \in Threads : mpc[t] \in {"take", "gen"} => g_work # NoWork
  /\ \A t \in Threads : mpc[t] \in {"clear", "scan"} => work[t] # NoWork
  /\ g_work_time # "zero" => g_work # NoWork

\* The id of WorkFollowsJob, also while the threads are about to be restarted;
\* with JobInv, equal ids mean the same job or one of an earlier session.
FollowInv ==
  spc \in {"recv", "restart"} /\ job # NoJob /\ ~Generating
    => g_work # NoWork /\ g_work.job.id = job.id

\* A thread's work is g_work, or was.
OrderInv ==
  \A t \in Threads : work[t] # NoWork => g_work # NoWork /\ (work[t] = g_work \/ Older(work[t], g_work))

\* How far a thread gets.
NonceInv(t) ==
  work[t] # NoWork =>
    /\ nonce[t] >= FirstNonce(t)
    /\ mpc[t] \in {"wait", "take", "gen"} => nonce[t] <= end_nonce(t) + Lanes * Bound(t) - 1
    /\ mpc[t] \in {"clear", "scan"} => nonce[t] <= end_nonce(t) + Lanes * Bound(t) - Lanes

\* The thread that found the share has gone on from its nonce, or to later work.
SeenInv ==
  seen # NoShare =>
    \E t \in Threads :
      /\ seen.nonce \in Range(t) /\ work[t] # NoWork
      /\ \/ Older(seen.work, work[t])
         \/ /\ work[t] = seen.work /\ seen.nonce <= nonce[t]
            /\ mpc[t] \in {"clear", "scan"} => seen.nonce < nonce[t]

\* TypeOK, but for the range of the nonces, which follows from NonceInv.
Types ==
  /\ spc \in {"dial", "authorize", "newjob", "top", "lock", "gen", "restart", "recv"}
  /\ session \in Nat /\ job \in Job \cup {NoJob} /\ xnonce2 \in Nat
  /\ limit \in Limits /\ lastId \in 0..jobs /\ jobs \in 0..limit.jobs /\ burst \in 0..limit.burst
  /\ reconnects \in 0..limit.reconnects
  /\ g_work \in Work \cup {NoWork} /\ g_work_time \in {"zero", "fresh", "old"}
  /\ mpc \in [Threads -> {"wait", "take", "gen", "clear", "scan"}]
  /\ work \in [Threads -> Work \cup {NoWork}] /\ nonce \in [Threads -> Nat]
  /\ restart \in [Threads -> BOOLEAN]
  /\ seen \in Share \cup {NoShare}

IInv ==
  /\ Types /\ JobInv /\ LockInv /\ FollowInv /\ OrderInv
  /\ \A t \in Threads : NonceInv(t)
  /\ SeenInv

-----------------------------------------------------------------------------
(* Arithmetic of the ranges.                                               *)

Quota == NonceMax \div opt_n_threads

\* The ranges of all threads together are no more than the nonces there are.
LEMMA QuotaFits == Quota \in Nat /\ Quota > Margin /\ Quota * opt_n_threads <= NonceMax
<1>1. opt_n_threads \in Nat /\ opt_n_threads > 0 /\ NonceMax \in Nat
  BY MinerAssumption
<1>2. Quota \in Int /\ Quota > Margin /\ Margin \in Nat
  BY <1>1, MinerAssumption DEF Quota
<1>3. Quota * opt_n_threads <= NonceMax
  BY <1>1 DEF Quota
<1> QED BY <1>2, <1>3

\* A product grows with its factor.
LEMMA ProductGrows ==
  ASSUME NEW q \in Nat, NEW a \in Nat, NEW b \in Nat, a <= b
  PROVE  q * a \in Nat /\ q * b \in Nat /\ q * a <= q * b
<1> DEFINE d == b - a
<1>1. d \in Nat /\ b = a + d
  OBVIOUS
<1>2. q * a \in Nat /\ q * d \in Nat
  BY <1>1
<1>3. q * (a + d) = q * a + q * d
  BY <1>1
<1> QED BY <1>1, <1>2, <1>3

LEMMA ProductSucc ==
  ASSUME NEW q \in Nat, NEW a \in Int
  PROVE  q * a \in Int /\ q * (a + 1) = q * a + q
OBVIOUS

\* The bounds of the range of one thread.
LEMMA RangeBounds ==
  ASSUME NEW t \in Threads
  PROVE  /\ t \in Nat /\ FirstNonce(t) \in Nat /\ FirstNonce(t + 1) \in Nat /\ end_nonce(t) \in Nat
         /\ end_nonce(t) = FirstNonce(t + 1) - Margin /\ FirstNonce(t) < end_nonce(t)
         /\ FirstNonce(t + 1) - 1 <= NonceMax
<1>1. t \in Nat /\ t + 1 \in Nat /\ t + 1 <= opt_n_threads /\ opt_n_threads \in Nat
  BY MinerAssumption DEF Threads
<1>2. FirstNonce(t) = Quota * t /\ FirstNonce(t + 1) = Quota * (t + 1)
      /\ end_nonce(t) = Quota * (t + 1) - Margin
  BY DEF FirstNonce, end_nonce, Quota
<1>3. Quota * (t + 1) = Quota * t + Quota /\ Quota * t \in Nat
  BY <1>1, QuotaFits, ProductSucc, ProductGrows
<1>4. Quota * (t + 1) <= Quota * opt_n_threads
  BY <1>1, QuotaFits, ProductGrows
<1>5. NonceMax \in Nat /\ Margin \in Nat /\ Quota * opt_n_threads \in Nat
  BY <1>1, QuotaFits, ProductGrows, MinerAssumption
<1> QED BY <1>1, <1>2, <1>3, <1>4, <1>5, QuotaFits

\* No nonce belongs to two threads.
LEMMA RangesApart ==
  ASSUME NEW t \in Threads, NEW u \in Threads, NEW n, n \in Range(t), n \in Range(u)
  PROVE  t = u
<1>1. ASSUME NEW a \in Threads, NEW b \in Threads, a < b
      PROVE  FirstNonce(a + 1) <= FirstNonce(b)
  <2>1. a + 1 \in Nat /\ b \in Nat /\ a + 1 <= b
    BY <1>1, RangeBounds
  <2> QED BY <2>1, QuotaFits, ProductGrows DEF FirstNonce, Quota
<1>2. /\ t \in Nat /\ u \in Nat /\ n \in Int
      /\ FirstNonce(t) \in Nat /\ FirstNonce(t + 1) \in Nat
      /\ FirstNonce(u) \in Nat /\ FirstNonce(u + 1) \in Nat
      /\ FirstNonce(t) <= n /\ n < FirstNonce(t + 1) /\ FirstNonce(u) <= n /\ n < FirstNonce(u + 1)
  BY RangeBounds DEF Range
<1>3. ~(t < u) /\ ~(u < t)
  BY <1>1, <1>2
<1> QED BY <1>2, <1>3

\* Work that is older than older work is older.
LEMMA OlderTransitive ==
  ASSUME NEW w \in Work, NEW v \in Work, NEW x \in Work, Older(w, v), Older(v, x)
  PROVE  Older(w, x)
BY DEF Older, Before, Work, Job

LEMMA OlderDiffers ==
  ASSUME NEW w \in Work, NEW v \in Work, Older(w, v)
  PROVE  w # v
BY DEF Older, Before, Work, Job

-----------------------------------------------------------------------------
(* What the invariant implies.                                             *)

LEMMA SpentFacts ==
  ASSUME Types, JobInv
  PROVE  /\ burst \in Nat /\ Spent \in Int /\ Spent <= limit.burst /\ burst <= limit.burst
         /\ limit.burst \in Nat /\ limit.burst >= 1 /\ Lanes * limit.burst <= Margin
         /\ limit.jobs \in Nat /\ jobs \in Nat
         /\ g_work # NoWork => Spent \in Nat /\ Spent >= 1
<1>1. /\ limit \in Limits /\ limit.burst \in Nat /\ limit.burst >= 1 /\ limit.jobs \in Nat
      /\ Lanes * limit.burst <= Margin
  BY MinerAssumption DEF Types
<1>2. burst \in Nat /\ burst <= limit.burst /\ jobs \in Nat
  BY <1>1 DEF Types
<1>3. Spent \in Int /\ Spent <= limit.burst
  BY <1>1, <1>2 DEF Spent
<1> QED BY <1>1, <1>2, <1>3 DEF JobInv

LEMMA BoundFacts ==
  ASSUME Types, JobInv, g_work # NoWork, NEW t \in Threads
  PROVE  Bound(t) \in Nat /\ Bound(t) >= 1 /\ Bound(t) <= limit.burst
BY SpentFacts DEF Bound

\* A thread with work stays in its range, the round under way included.
LEMMA InRange ==
  ASSUME IInv, NEW t \in Threads, work[t] # NoWork
  PROVE  /\ nonce[t] \in Range(t)
         /\ mpc[t] = "scan" => Round(t) \subseteq Range(t)
<1>1. Types /\ JobInv /\ NonceInv(t) /\ g_work # NoWork
  BY DEF IInv, OrderInv
<1>2. nonce[t] \in Nat /\ Lanes \in Nat /\ Lanes >= 1 /\ Margin \in Nat
  BY <1>1, MinerAssumption DEF Types
<1>3. Lanes * Bound(t) \in Nat /\ Lanes * Bound(t) <= Margin
  <2>1. /\ Lanes * Bound(t) \in Nat /\ Lanes * limit.burst \in Nat
        /\ Lanes * Bound(t) <= Lanes * limit.burst
    BY <1>1, <1>2, SpentFacts, BoundFacts, ProductGrows
  <2> QED BY <1>1, <1>2, <2>1, SpentFacts
<1>4. /\ nonce[t] >= FirstNonce(t)
      /\ mpc[t] \in {"wait", "take", "gen"} => nonce[t] <= end_nonce(t) + Lanes * Bound(t) - 1
      /\ mpc[t] \in {"clear", "scan"} => nonce[t] <= end_nonce(t) + Lanes * Bound(t) - Lanes
  BY <1>1 DEF NonceInv
<1>5. mpc[t] \in {"wait", "take", "gen"} \/ mpc[t] \in {"clear", "scan"}
  BY <1>1 DEF Types
<1>6. nonce[t] <= end_nonce(t) + Margin - 1
  BY <1>2, <1>3, <1>4, <1>5, RangeBounds
<1>7. mpc[t] = "scan" => nonce[t] + Lanes - 1 <= end_nonce(t) + Margin - 1
  BY <1>2, <1>3, <1>4, RangeBounds
<1> QED BY <1>2, <1>4, <1>6, <1>7, RangeBounds DEF Range, Round

LEMMA IInvImplies == IInv => TypeOK /\ WorkFollowsJob /\ NoDuplicateShare
<1> SUFFICES ASSUME IInv PROVE TypeOK /\ WorkFollowsJob /\ NoDuplicateShare
  OBVIOUS
<1>1. TypeOK
  BY InRange DEF IInv, Types, TypeOK, Range
<1>2. WorkFollowsJob
  <2> SUFFICES ASSUME spc = "recv", job # NoJob, ~Generating
               PROVE  /\ g_work # NoWork
                      /\ \/ g_work.job = job
                         \/ g_work.job.id = job.id /\ g_work.job.session < job.session
    BY DEF WorkFollowsJob
  <2>1. g_work # NoWork /\ g_work.job.id = job.id
    BY DEF IInv, FollowInv
  <2>2. g_work.job = job \/ Before(g_work.job, job)
    BY <2>1 DEF IInv, JobInv
  <2>3. job.id \in Nat
    BY DEF IInv, Types, Job
  <2> QED BY <2>1, <2>2, <2>3 DEF Before
<1>3. NoDuplicateShare
  <2> SUFFICES ASSUME NEW t \in Threads, mpc[t] = "scan", NEW n \in Round(t),
                      [work |-> work[t], nonce |-> n] = seen
               PROVE  FALSE
    BY DEF NoDuplicateShare
  <2>1. work[t] # NoWork /\ n \in Range(t)
    BY InRange DEF IInv, LockInv
  <2>2. seen.work = work[t] /\ seen.nonce = n /\ work[t] \in Work
    BY <2>1 DEF IInv, Types
  <2>3. seen # NoShare
    <3>1. n \in 0..NonceMax
      BY <2>1, RangeBounds, MinerAssumption DEF Range
    <3>2. [work |-> work[t], nonce |-> n] \in Share
      BY <2>2, <3>1 DEF Share
    <3> QED BY <3>2, MinerAssumption
  <2>4. PICK u \in Threads :
          /\ seen.nonce \in Range(u) /\ work[u] # NoWork
          /\ \/ Older(seen.work, work[u])
             \/ /\ work[u] = seen.work /\ seen.nonce <= nonce[u]
                /\ mpc[u] \in {"clear", "scan"} => seen.nonce < nonce[u]
    BY <2>3 DEF IInv, SeenInv
  <2>5. u = t
    BY <2>1, <2>2, <2>4, RangesApart
  <2>6. n < nonce[t]
    BY <2>2, <2>4, <2>5, OlderDiffers
  <2>7. nonce[t] \in Nat /\ n \in Int /\ n >= nonce[t]
    BY DEF IInv, Types, Round
  <2> QED BY <2>6, <2>7
<1> QED BY <1>1, <1>2, <1>3

LEMMA InitIInv == Init => IInv
<1> SUFFICES ASSUME Init PROVE IInv
  OBVIOUS
<1>1. limit \in Limits /\ limit.jobs \in Nat /\ limit.reconnects \in Nat
      /\ limit.burst \in Nat
  BY MinerAssumption DEF Init
<1>2. Types
  BY <1>1 DEF Init, Types
<1>3. JobInv /\ LockInv /\ FollowInv /\ OrderInv /\ SeenInv
  BY DEF Init, JobInv, LockInv, FollowInv, OrderInv, SeenInv
<1>4. \A t \in Threads : NonceInv(t)
  BY DEF Init, NonceInv
<1> QED BY <1>2, <1>3, <1>4 DEF IInv

-----------------------------------------------------------------------------
(* What steps have in common.                                              *)

\* A thread that stays where it is keeps its bound, if that does not shrink ...
LEMMA NonceStays ==
  ASSUME Types, JobInv, OrderInv, NEW t \in Threads, NonceInv(t),
         work[t] # NoWork => Bound(t)' \in Int /\ Bound(t)' >= Bound(t),
         work'[t] = work[t], nonce'[t] = nonce[t],
         mpc'[t] \in {"wait", "take", "gen"} => mpc[t] \in {"wait", "take", "gen"},
         mpc'[t] \in {"clear", "scan"} => mpc[t] \in {"clear", "scan"}
  PROVE  NonceInv(t)'
<1> SUFFICES ASSUME work[t] # NoWork PROVE NonceInv(t)'
  BY DEF NonceInv
<1>1. Bound(t) \in Nat /\ Bound(t)' \in Nat /\ Bound(t) <= Bound(t)'
  BY BoundFacts DEF OrderInv
<1>2. /\ Lanes * Bound(t) \in Nat /\ Lanes * Bound(t)' \in Nat
      /\ Lanes * Bound(t) <= Lanes * Bound(t)'
  <2>1. Lanes \in Nat
    BY MinerAssumption
  <2>2. ASSUME NEW a \in Nat, NEW b \in Nat, a <= b
        PROVE  Lanes * a \in Nat /\ Lanes * b \in Nat /\ Lanes * a <= Lanes * b
    BY <2>1, <2>2, ProductGrows
  <2> QED BY <1>1, <2>2
<1>3. nonce[t] \in Nat /\ end_nonce(t) \in Nat /\ Lanes \in Nat
  BY RangeBounds, MinerAssumption DEF Types
<1> QED BY <1>2, <1>3 DEF NonceInv

\* ... and it does not, since jobs that are spent are not unspent.
LEMMA NonceKept ==
  ASSUME Types, JobInv, OrderInv, NEW t \in Threads, NonceInv(t),
         g_work' = g_work, limit' = limit,
         Spent' \in Int, g_work # NoWork => Spent' >= Spent,
         work'[t] = work[t], nonce'[t] = nonce[t],
         mpc'[t] \in {"wait", "take", "gen"} => mpc[t] \in {"wait", "take", "gen"},
         mpc'[t] \in {"clear", "scan"} => mpc[t] \in {"clear", "scan"}
  PROVE  NonceInv(t)'
<1>1. limit.burst \in Nat /\ Spent \in Int
  BY SpentFacts
<1>2. work[t] # NoWork => Bound(t)' \in Int /\ Bound(t)' >= Bound(t)
  BY <1>1 DEF Bound, OrderInv
<1> QED BY <1>2, NonceStays

\* The share seen stays behind: threads only go on, or to later work.
LEMMA SeenKept ==
  ASSUME Types, Types', SeenInv, seen' = seen,
         \A t \in Threads : work[t] # NoWork =>
           /\ work'[t] # NoWork
           /\ \/ Older(work[t], work'[t])
              \/ /\ work'[t] = work[t] /\ nonce'[t] >= nonce[t]
                 /\ mpc'[t] \in {"clear", "scan"} =>
                      mpc[t] \in {"clear", "scan"} \/ nonce'[t] > nonce[t]
  PROVE  SeenInv'
<1> SUFFICES ASSUME seen # NoShare PROVE SeenInv'
  BY DEF SeenInv
<1>1. PICK t \in Threads :
        /\ seen.nonce \in Range(t) /\ work[t] # NoWork
        /\ \/ Older(seen.work, work[t])
           \/ /\ work[t] = seen.work /\ seen.nonce <= nonce[t]
              /\ mpc[t] \in {"clear", "scan"} => seen.nonce < nonce[t]
  BY DEF SeenInv
<1>2. /\ work[t] \in Work /\ work'[t] \in Work /\ seen.work \in Work
      /\ seen.nonce \in Nat /\ nonce[t] \in Nat /\ nonce'[t] \in Nat
  BY <1>1 DEF Types, Share
<1>3. CASE Older(work[t], work'[t])
  <2>1. Older(seen.work, work'[t])
    BY <1>1, <1>2, <1>3, OlderTransitive
  <2> QED BY <1>1, <2>1 DEF SeenInv
<1>4. CASE ~Older(work[t], work'[t])
  <2>1. /\ work'[t] = work[t] /\ nonce'[t] >= nonce[t]
        /\ mpc'[t] \in {"clear", "scan"} => mpc[t] \in {"clear", "scan"} \/ nonce'[t] > nonce[t]
    BY <1>1, <1>4
  <2>2. CASE Older(seen.work, work[t])
    BY <1>1, <2>1, <2>2 DEF SeenInv
  <2>3. CASE ~Older(seen.work, work[t])
    <3>1. /\ work'[t] = seen.work /\ seen.nonce <= nonce'[t]
          /\ mpc'[t] \in {"clear", "scan"} => seen.nonce < nonce'[t]
      BY <1>1, <1>2, <2>1, <2>3
    <3> QED BY <1>1, <2>1, <3>1 DEF SeenInv
  <2> QED BY <2>2, <2>3
<1> QED BY <1>3, <1>4

\* stratum_gen_work: the new work is younger than all, and the job is spent.
LEMMA GenEffect ==
  ASSUME Types, JobInv, job # NoJob, stratum_gen_work,
         UNCHANGED <<job, jobs, burst, limit, session, lastId>>
  PROVE  /\ g_work' \in Work /\ g_work' # NoWork /\ g_work'.job = job /\ g_work'.xnonce2 = xnonce2
         /\ xnonce2' = xnonce2 + 1 /\ xnonce2' \in Nat
         /\ JobInv' /\ Spent' = burst /\ Spent' \in Nat /\ Spent' >= 1
         /\ Pending /\ SameTime(g_work.job, job) => Spent' = Spent + 1
         /\ g_work # NoWork => Older(g_work, g_work')
<1>1. /\ g_work' = [job |-> job, xnonce2 |-> xnonce2] /\ xnonce2' = xnonce2 + 1
      /\ job \in Job /\ xnonce2 \in Nat
  BY DEF stratum_gen_work, Types
<1>2. g_work' \in Work /\ g_work'.job = job /\ g_work'.xnonce2 = xnonce2
  BY <1>1 DEF Work
<1>3. g_work' # NoWork
  BY <1>2, MinerAssumption
<1>4. ~Pending'
  BY <1>1, <1>2 DEF Pending
<1>5. burst \in Nat /\ burst >= 1 /\ Spent' = burst
  BY <1>2, <1>4, SpentFacts DEF Spent, SameTime, JobInv
<1>6. JobInv'
  BY <1>1, <1>2, <1>3, <1>5 DEF JobInv
<1>7. Pending /\ SameTime(g_work.job, job) => Spent' = Spent + 1
  BY <1>5 DEF Spent
<1>8. g_work # NoWork => Older(g_work, g_work')
  BY <1>1, <1>2 DEF JobInv, Older
<1> QED BY <1>1, <1>2, <1>3, <1>5, <1>6, <1>7, <1>8

\* A thread whose work is of the job's second has work of g_work's second.
LEMMA NonceKeptByGen ==
  ASSUME Types, JobInv, OrderInv, job # NoJob, stratum_gen_work,
         UNCHANGED <<job, jobs, burst, limit, session, lastId>>,
         NEW t \in Threads, NonceInv(t),
         work'[t] = work[t], nonce'[t] = nonce[t], mpc'[t] = mpc[t]
  PROVE  NonceInv(t)'
<1>1. ASSUME work[t] # NoWork PROVE Bound(t)' \in Int /\ Bound(t)' >= Bound(t)
  <2>1. /\ g_work # NoWork /\ work[t] \in Work /\ g_work \in Work /\ job \in Job
        /\ work[t].job \in Job /\ g_work.job \in Job
    BY <1>1 DEF OrderInv, Types, Work
  <2>2. /\ burst \in Nat /\ limit.burst \in Nat /\ burst <= limit.burst
        /\ Bound(t) \in Nat /\ Bound(t) <= limit.burst /\ Spent \in Int
    BY <2>1, SpentFacts, BoundFacts
  <2>3. g_work'.job = job /\ Spent' = burst
    BY GenEffect
  <2>4. CASE SameTime(work[t].job, job)
    <3>1. Bound(t)' = burst
      BY <2>3, <2>4 DEF Bound, SameTime
    <3>2. work[t].job = g_work.job \/ Before(work[t].job, g_work.job)
      BY <1>1 DEF OrderInv, Older
    <3>3. g_work.job = job \/ Before(g_work.job, job)
      BY <2>1 DEF JobInv
    <3>4. SameTime(work[t].job, g_work.job) /\ SameTime(g_work.job, job)
      BY <2>1, <2>4, <3>2, <3>3 DEF SameTime, Before, Job
    <3>5. Bound(t) <= burst
      BY <2>2, <3>4 DEF Bound, Spent
    <3> QED BY <2>2, <3>1, <3>5
  <2>5. CASE ~SameTime(work[t].job, job)
    <3>1. Bound(t)' = limit.burst
      BY <2>3, <2>5 DEF Bound, SameTime
    <3> QED BY <2>2, <3>1
  <2> QED BY <2>4, <2>5
<1> QED BY <1>1, NonceStays

\* A copy of g, which is not older than the thread's work: the thread starts on
\* it, or goes on with work that looks the same.
LEMMA CopyEffect ==
  ASSUME Types, NEW t \in Threads, NEW g \in Work, CopyWork(t, g),
         work[t] # NoWork => work[t] = g \/ Older(work[t], g)
  PROVE  /\ work' \in [Threads -> Work \cup {NoWork}] /\ nonce' \in [Threads -> Nat]
         /\ \A u \in Threads : u # t => work'[u] = work[u] /\ nonce'[u] = nonce[u]
         /\ work'[t] # NoWork
         /\ \/ /\ work'[t] = g /\ nonce'[t] = FirstNonce(t)
               /\ work[t] # NoWork => Older(work[t], g)
            \/ /\ work'[t] = work[t] /\ work[t] # NoWork /\ nonce'[t] = nonce[t] + 1
               /\ Tail43(work[t]) = Tail43(g)
<1>1. g # NoWork /\ FirstNonce(t) \in Nat /\ nonce[t] \in Nat
  BY MinerAssumption, RangeBounds DEF Types
<1>2. CASE WorkDiffers(work[t], g)
  <2>1. work' = [work EXCEPT ![t] = g] /\ nonce' = [nonce EXCEPT ![t] = FirstNonce(t)]
    BY <1>2 DEF CopyWork
  <2>2. work[t] # g
    BY <1>2 DEF WorkDiffers
  <2> QED BY <1>1, <2>1, <2>2 DEF Types
<1>3. CASE ~WorkDiffers(work[t], g)
  <2>1. work' = work /\ nonce' = [nonce EXCEPT ![t] = nonce[t] + 1]
    BY <1>3 DEF CopyWork
  <2>2. Tail43(work[t]) = Tail43(g)
    BY <1>3 DEF WorkDiffers
  <2>3. work[t] # NoWork
    BY <1>1, <2>2 DEF Tail43
  <2> QED BY <1>1, <2>1, <2>2, <2>3 DEF Types
<1> QED BY <1>2, <1>3

-----------------------------------------------------------------------------
(* The steps of stratum_thread.                                            *)

\* Steps that leave the job, the work and the miner threads alone.
LEMMA QuietStratum ==
  ASSUME IInv, Types', JobInv', FollowInv',
         UNCHANGED <<limit, burst, job, xnonce2, jobs, g_work, mpc, work, nonce, seen>>,
         spc' \in {"lock", "gen"} => job # NoJob,
         spc' = "gen" => \A t \in Threads : mpc[t] # "gen",
         g_work_time' # "zero" => g_work_time # "zero"
  PROVE  IInv'
<1>1. Types /\ JobInv /\ LockInv /\ OrderInv /\ SeenInv
  BY DEF IInv
<1>2. LockInv'
  BY <1>1 DEF LockInv, Tail43
<1>3. OrderInv'
  BY <1>1 DEF OrderInv
<1>4. Spent' = Spent
  BY DEF Spent, Pending, SameTime
<1>5. \A t \in Threads : NonceInv(t)'
  BY <1>1, <1>4, SpentFacts, NonceKept DEF IInv
<1>6. SeenInv'
  BY <1>1 DEF SeenInv
<1> QED BY <1>2, <1>3, <1>5, <1>6 DEF IInv

LEMMA StratumQuietSteps ==
  ASSUME IInv,
         Dial \/ Authorized \/ CheckJob \/ BeginWork \/ RestartThreads \/ Disconnect \/ WorkAges
  PROVE  IInv'
<1> USE DEF minerVars, stratumVars
<1>1. Types /\ JobInv /\ LockInv /\ FollowInv
  BY DEF IInv
<1>2. /\ UNCHANGED <<job, xnonce2, jobs, burst, g_work, mpc, work, nonce, seen, limit>>
      /\ UNCHANGED <<session, lastId>> \/ Dial
  BY DEF Dial, Authorized, CheckJob, BeginWork, RestartThreads, Disconnect, WorkAges
<1>3. Types'
  <2>1. restart' \in [Threads -> BOOLEAN]
    BY <1>1 DEF Types, Dial, Authorized, CheckJob, BeginWork, RestartThreads, Disconnect, WorkAges,
                restart_threads
  <2>2. reconnects' \in 0..limit.reconnects
    <3>1. limit.reconnects \in Nat
      BY <1>1, MinerAssumption DEF Types
    <3> QED BY <1>1, <3>1
            DEF Types, Dial, Authorized, CheckJob, BeginWork, RestartThreads, Disconnect, WorkAges
  <2>3. session' \in Nat /\ lastId' \in 0..jobs
    BY <1>1, <1>2, SpentFacts DEF Types, Dial
  <2>4. /\ spc' \in {"dial", "authorize", "newjob", "top", "lock", "gen", "restart", "recv"}
        /\ g_work_time' \in {"zero", "fresh", "old"}
    BY <1>1 DEF Types, Dial, Authorized, CheckJob, BeginWork, RestartThreads, Disconnect, WorkAges
  <2> QED BY <1>1, <1>2, <2>1, <2>2, <2>3, <2>4 DEF Types
<1>4. JobInv'
  <2>1. Spent' = Spent
    BY <1>2 DEF Spent, Pending, SameTime
  <2>2. CASE UNCHANGED <<session, lastId>>
    BY <1>1, <1>2, <2>1, <2>2 DEF JobInv
  <2>3. CASE Dial
    <3>1. session' = session + 1 /\ session \in Nat
      BY <1>1, <2>3 DEF Dial, Types
    <3>2. job # NoJob => job.session \in Nat
      BY <1>1 DEF Types, Job
    <3> QED BY <1>1, <1>2, <2>1, <3>1, <3>2 DEF JobInv
  <2> QED BY <1>2, <2>2, <2>3
<1>5. CASE Dial \/ Authorized \/ Disconnect
  BY <1>2, <1>3, <1>4, <1>5, QuietStratum DEF Dial, Authorized, Disconnect, FollowInv
<1>6. CASE CheckJob
  <2>1. PICK isNew \in NewJobSeen : spc' = IF isNew THEN "lock" ELSE "recv"
    BY <1>6 DEF CheckJob
  <2>2. isNew \in BOOLEAN /\ (isNew => job # NoJob)
    BY DEF NewJobSeen
  <2>3. ~isNew /\ job # NoJob /\ ~Generating => g_work # NoWork /\ g_work.job.id = job.id
    BY <1>1 DEF NewJobSeen, LockInv
  <2>4. FollowInv'
    <3>1. spc' # "gen" /\ spc # "gen"
      BY <1>6, <2>1 DEF CheckJob
    <3>2. Generating' <=> Generating
      BY <1>2, <3>1 DEF Generating
    <3> QED BY <1>2, <2>1, <2>2, <2>3, <3>2 DEF FollowInv
  <2> QED BY <1>2, <1>3, <1>4, <1>6, <2>1, <2>2, <2>4, QuietStratum DEF CheckJob
<1>7. CASE BeginWork
  <2>1. FollowInv' /\ job # NoJob
    BY <1>1, <1>7 DEF BeginWork, FollowInv, LockInv
  <2> QED BY <1>2, <1>3, <1>4, <1>7, <2>1, QuietStratum DEF BeginWork, Generating
<1>8. CASE RestartThreads
  <2>1. FollowInv'
    BY <1>1, <1>2, <1>8 DEF RestartThreads, FollowInv, Generating
  <2> QED BY <1>2, <1>3, <1>4, <1>8, <2>1, QuietStratum DEF RestartThreads
<1>9. CASE WorkAges
  <2>1. spc' = spc /\ g_work_time = "fresh"
    BY <1>9 DEF WorkAges
  <2>2. FollowInv'
    BY <1>1, <1>2, <2>1 DEF FollowInv, Generating
  <2>3. /\ spc' \in {"lock", "gen"} => job # NoJob
        /\ spc' = "gen" => \A t \in Threads : mpc[t] # "gen"
    BY <1>1, <2>1 DEF LockInv
  <2> QED BY <1>2, <1>3, <1>4, <2>1, <2>2, <2>3, QuietStratum
<1> QED BY <1>5, <1>6, <1>7, <1>8, <1>9

\* A new job: later than the one of g_work, and no work generated from it yet.
LEMMA NotifyStep ==
  ASSUME IInv, stratum_notify
  PROVE  IInv'
<1> USE DEF minerVars
<1>1. Types /\ JobInv /\ LockInv /\ OrderInv /\ SeenInv
  BY DEF IInv
<1>2. /\ jobs < limit.jobs /\ jobs' = jobs + 1 /\ lastId' = lastId + 1 /\ ~Generating
      /\ UNCHANGED <<limit, session, reconnects, g_work, g_work_time, mpc, work, nonce, restart, seen>>
      /\ spc' \in {"top", "authorize"}
  BY DEF stratum_notify
<1>3. jobs \in Nat /\ lastId \in Nat /\ session \in Nat /\ limit.jobs \in Nat /\ lastId <= jobs
  BY <1>1, SpentFacts DEF Types
<1>4. /\ job' \in Job /\ job'.id = lastId + 1 /\ job'.session = session
      /\ burst' \in 1..limit.burst
      /\ job # NoJob => job.ntime <= job'.ntime /\ (SameTime(job, job') => burst' = burst + 1)
  <2>1. PICK laterSecond \in BOOLEAN :
          /\ job = NoJob => laterSecond
          /\ IF laterSecond \/ job.session # session
               THEN burst' = 1
               ELSE burst < limit.burst /\ burst' = burst + 1
          /\ LET last == IF job = NoJob THEN 0 ELSE job.ntime
             IN job' = [id |-> lastId', session |-> session,
                        ntime |-> last + (IF laterSecond THEN 1 ELSE 0)]
    BY DEF stratum_notify
  <2> DEFINE last == IF job = NoJob THEN 0 ELSE job.ntime
  <2>2. last \in Nat
    BY <1>1 DEF Types, Job
  <2>3. last + (IF laterSecond THEN 1 ELSE 0) \in Nat
    BY <2>2
  <2> HIDE DEF last
  <2>4. job' = [id |-> lastId', session |-> session,
                ntime |-> last + (IF laterSecond THEN 1 ELSE 0)]
    BY <2>1 DEF last
  <2>5. job' \in Job /\ job'.id = lastId + 1 /\ job'.session = session
    BY <1>2, <1>3, <2>3, <2>4 DEF Job
  <2>6. burst' \in 1..limit.burst
    BY <1>1, <2>1, SpentFacts
  <2>7. ASSUME job # NoJob
        PROVE  job.ntime <= job'.ntime /\ (SameTime(job, job') => burst' = burst + 1)
    <3>1. last = job.ntime /\ job.ntime \in Nat
      BY <2>2, <2>7 DEF last
    <3>2. job'.ntime = job.ntime + (IF laterSecond THEN 1 ELSE 0)
      BY <2>4, <3>1
    <3>3. SameTime(job, job') => ~laterSecond /\ job.session = session
      BY <2>5, <3>1, <3>2 DEF SameTime
    <3> QED BY <2>1, <3>1, <3>2, <3>3
  <2> QED BY <2>5, <2>6, <2>7
<1>5. job' # NoJob
  BY <1>4, MinerAssumption
<1>6. xnonce2' \in Nat
  BY <1>1 DEF Types, stratum_notify
<1>7. Types'
  BY <1>1, <1>2, <1>3, <1>4, <1>6, SpentFacts DEF Types
<1>8. Spent' \in Int /\ (g_work # NoWork => Spent' >= Spent /\ Spent' >= 1)
  <2>1. Spent' \in Int
    BY <1>1, <1>2, <1>4, SpentFacts DEF Spent
  <2>2. ASSUME g_work # NoWork PROVE Spent' >= Spent /\ Spent' >= 1
    <3>1. /\ Spent \in Nat /\ Spent >= 1 /\ Spent <= limit.burst /\ limit.burst \in Nat
          /\ burst \in Nat /\ job # NoJob /\ job \in Job /\ g_work.job \in Job
      BY <1>1, <2>2, SpentFacts DEF JobInv, Types, Work
    <3>2. CASE SameTime(g_work.job, job')
      <4>1. g_work.job = job \/ Before(g_work.job, job)
        BY <1>1, <2>2 DEF JobInv
      <4>2. SameTime(g_work.job, job) /\ SameTime(job, job')
        BY <1>1, <1>4, <3>1, <3>2, <4>1 DEF SameTime, Before, Job, JobInv
      <4>3. burst' = burst + 1
        BY <1>4, <3>1, <4>2
      <4>4. Spent <= burst
        BY <3>1, <4>2 DEF Spent
      <4>5. Spent' >= burst
        BY <1>2, <3>1, <3>2, <4>3 DEF Spent
      <4> QED BY <2>1, <3>1, <4>4, <4>5
    <3>3. CASE ~SameTime(g_work.job, job')
      <4>1. Spent' = limit.burst
        BY <1>2, <2>2, <3>3 DEF Spent
      <4> QED BY <3>1, <4>1
    <3> QED BY <3>2, <3>3
  <2> QED BY <2>1, <2>2
<1>9. JobInv'
  <2>1. ASSUME g_work # NoWork PROVE Before(g_work.job, job')
    <3>1. job # NoJob /\ job \in Job /\ g_work.job \in Job
      BY <1>1, <2>1 DEF JobInv, Types, Work
    <3>2. Before(job, job')
      BY <1>1, <1>3, <1>4, <3>1 DEF JobInv, Before, Job
    <3>3. g_work.job = job \/ Before(g_work.job, job)
      BY <1>1, <2>1 DEF JobInv
    <3> QED BY <1>4, <3>1, <3>2, <3>3 DEF Before, Job
  <2> QED BY <1>2, <1>3, <1>4, <1>5, <1>8, <2>1 DEF JobInv
<1>10. LockInv' /\ FollowInv' /\ OrderInv'
  BY <1>1, <1>2, <1>5 DEF LockInv, FollowInv, OrderInv, Generating
<1>11. \A t \in Threads : NonceInv(t)'
  BY <1>1, <1>2, <1>8, NonceKept DEF IInv
<1>12. SeenInv'
  BY <1>1, <1>2 DEF SeenInv
<1> QED BY <1>7, <1>9, <1>10, <1>11, <1>12 DEF IInv

LEMMA FinishWorkStep ==
  ASSUME IInv, FinishWork
  PROVE  IInv'
<1> USE DEF minerVars
<1>1. Types /\ JobInv /\ LockInv /\ OrderInv /\ SeenInv
  BY DEF IInv
<1>2. /\ spc = "gen" /\ job # NoJob /\ stratum_gen_work /\ g_work_time' = "fresh"
      /\ UNCHANGED <<limit, session, job, lastId, jobs, reconnects, burst, mpc, work, nonce, restart, seen>>
      /\ spc' \in {"restart", "recv"}
      /\ \A t \in Threads : mpc[t] # "gen"
  BY <1>1 DEF FinishWork, LockInv
<1>3. /\ g_work' \in Work /\ g_work' # NoWork /\ g_work'.job = job /\ xnonce2' \in Nat
      /\ JobInv'
      /\ g_work # NoWork => Older(g_work, g_work')
  BY <1>1, <1>2, GenEffect
<1>4. Types'
  BY <1>1, <1>2, <1>3 DEF Types
<1>5. LockInv' /\ FollowInv'
  BY <1>1, <1>2, <1>3 DEF LockInv, FollowInv
<1>6. OrderInv'
  <2>1. ASSUME NEW t \in Threads, work[t] # NoWork PROVE Older(work[t], g_work')
    <3>1. work[t] \in Work /\ g_work \in Work /\ g_work # NoWork
      BY <1>1, <2>1 DEF Types, OrderInv
    <3> QED BY <1>1, <1>3, <2>1, <3>1, OlderTransitive DEF OrderInv
  <2> QED BY <1>2, <1>3, <2>1 DEF OrderInv
<1>7. \A t \in Threads : NonceInv(t)'
  BY <1>1, <1>2, NonceKeptByGen DEF IInv
<1>8. SeenInv'
  BY <1>1, <1>2 DEF SeenInv
<1> QED BY <1>3, <1>4, <1>5, <1>6, <1>7, <1>8 DEF IInv

-----------------------------------------------------------------------------
(* The steps of a miner_thread.                                            *)

\* Steps of a thread that leave the work and the nonces alone.
LEMMA QuietMiner ==
  ASSUME IInv, Types', LockInv', FollowInv', NEW t \in Threads,
         UNCHANGED <<limit, burst, job, xnonce2, jobs, lastId, session, g_work, work, nonce, seen>>,
         \A u \in Threads : work[u] # NoWork =>
           /\ mpc'[u] \in {"wait", "take", "gen"} => mpc[u] \in {"wait", "take", "gen"}
           /\ mpc'[u] \in {"clear", "scan"} => mpc[u] \in {"clear", "scan"}
  PROVE  IInv'
<1>1. Types /\ JobInv /\ OrderInv /\ SeenInv
  BY DEF IInv
<1>2. Spent' = Spent
  BY DEF Spent, Pending, SameTime
<1>3. JobInv' /\ OrderInv'
  BY <1>1, <1>2 DEF JobInv, OrderInv
<1>4. ASSUME NEW u \in Threads PROVE NonceInv(u)'
  <2>1. CASE work[u] = NoWork
    BY <2>1 DEF NonceInv
  <2>2. CASE work[u] # NoWork
    BY <1>1, <1>2, <2>2, SpentFacts, NonceKept DEF IInv
  <2> QED BY <2>1, <2>2
<1>5. SeenInv'
  <2>1. \A u \in Threads : nonce[u] \in Nat
    BY <1>1 DEF Types
  <2> QED BY <1>1, <2>1, SeenKept
<1> QED BY <1>3, <1>4, <1>5 DEF IInv

LEMMA MinerQuietSteps ==
  ASSUME IInv, NEW t \in Threads, WaitForWork(t) \/ BeginRegenerate(t) \/ ClearRestart(t)
  PROVE  IInv'
<1> USE DEF stratumVars
<1>1. Types /\ JobInv /\ LockInv /\ FollowInv /\ OrderInv
  BY DEF IInv
<1>2. UNCHANGED <<limit, spc, session, job, xnonce2, lastId, jobs, reconnects, burst, g_work, g_work_time,
                  work, nonce, seen>>
  BY DEF WaitForWork, BeginRegenerate, ClearRestart
<1>3. ASSUME NEW p \in {"wait", "take", "gen", "clear", "scan"}, mpc' = [mpc EXCEPT ![t] = p]
      PROVE  /\ mpc' \in [Threads -> {"wait", "take", "gen", "clear", "scan"}]
             /\ mpc'[t] = p /\ \A u \in Threads : u # t => mpc'[u] = mpc[u]
  BY <1>1, <1>3 DEF Types
<1>4. CASE WaitForWork(t)
  <2>1. /\ mpc[t] = "wait" /\ g_work # NoWork /\ restart' = restart
        /\ mpc' \in [Threads -> {"wait", "take", "gen", "clear", "scan"}]
        /\ mpc'[t] = "take" /\ \A u \in Threads : u # t => mpc'[u] = mpc[u]
    BY <1>1, <1>3, <1>4 DEF WaitForWork, LockInv
  <2>2. Types'
    BY <1>1, <1>2, <2>1 DEF Types
  <2>3. LockInv'
    BY <1>1, <1>2, <2>1 DEF LockInv, Tail43
  <2>4. FollowInv'
    BY <1>1, <1>2, <2>1 DEF FollowInv, Generating
  <2> QED BY <1>2, <2>1, <2>2, <2>3, <2>4, QuietMiner
<1>5. CASE BeginRegenerate(t)
  <2>1. /\ mpc[t] = "take" /\ g_work # NoWork /\ restart' = restart /\ ~Generating
        /\ mpc' \in [Threads -> {"wait", "take", "gen", "clear", "scan"}]
        /\ mpc'[t] = "gen" /\ \A u \in Threads : u # t => mpc'[u] = mpc[u]
        /\ Tail43(work[t]) = Tail43(g_work)
    BY <1>1, <1>3, <1>5 DEF BeginRegenerate, LockInv, Exhausted, WorkDiffers
  <2>2. work[t] # NoWork
    BY <2>1 DEF Tail43
  <2>3. Types'
    BY <1>1, <1>2, <2>1 DEF Types
  <2>4. Tail43(work'[t]) = Tail43(g_work')
    BY <1>2, <2>1
  <2>5. LockInv'
    BY <1>1, <1>2, <2>1, <2>2, <2>4 DEF LockInv, Generating
  <2>6. FollowInv'
    BY <2>1 DEF FollowInv, Generating
  <2> QED BY <1>2, <2>1, <2>3, <2>5, <2>6, QuietMiner
<1>6. CASE ClearRestart(t)
  <2>1. /\ mpc[t] = "clear" /\ work[t] # NoWork /\ restart' \in [Threads -> BOOLEAN]
        /\ mpc' \in [Threads -> {"wait", "take", "gen", "clear", "scan"}]
        /\ mpc'[t] = "scan" /\ \A u \in Threads : u # t => mpc'[u] = mpc[u]
    BY <1>1, <1>3, <1>6 DEF ClearRestart, LockInv, Types
  <2>2. Types'
    BY <1>1, <1>2, <2>1 DEF Types
  <2>3. LockInv'
    BY <1>1, <1>2, <2>1 DEF LockInv, Tail43
  <2>4. FollowInv'
    BY <1>1, <1>2, <2>1 DEF FollowInv, Generating
  <2> QED BY <1>2, <2>1, <2>2, <2>3, <2>4, QuietMiner
<1> QED BY <1>4, <1>5, <1>6

\* A thread that is not at the end of its range goes on, or starts on g_work.
LEMMA TakeWorkStep ==
  ASSUME IInv, NEW t \in Threads, TakeWork(t)
  PROVE  IInv'
<1> USE DEF stratumVars
<1>1. Types /\ JobInv /\ LockInv /\ FollowInv /\ OrderInv /\ SeenInv
  BY DEF IInv
<1>2. /\ mpc[t] = "take" /\ ~Generating /\ ~Exhausted(t) /\ CopyWork(t, g_work)
      /\ mpc' = [mpc EXCEPT ![t] = "clear"]
      /\ UNCHANGED <<limit, spc, session, job, xnonce2, lastId, jobs, reconnects, burst, g_work, g_work_time,
                     restart, seen>>
  BY DEF TakeWork
<1>3. /\ mpc' \in [Threads -> {"wait", "take", "gen", "clear", "scan"}]
      /\ mpc'[t] = "clear" /\ \A u \in Threads : u # t => mpc'[u] = mpc[u]
  BY <1>1, <1>2 DEF Types
<1>4. g_work \in Work /\ g_work # NoWork
  BY <1>1, <1>2 DEF LockInv, Types
<1>5. work[t] # NoWork => work[t] = g_work \/ Older(work[t], g_work)
  BY <1>1 DEF OrderInv
<1>6. /\ work' \in [Threads -> Work \cup {NoWork}] /\ nonce' \in [Threads -> Nat]
      /\ \A u \in Threads : u # t => work'[u] = work[u] /\ nonce'[u] = nonce[u]
      /\ work'[t] # NoWork
      /\ \/ /\ work'[t] = g_work /\ nonce'[t] = FirstNonce(t)
            /\ work[t] # NoWork => Older(work[t], g_work)
         \/ /\ work'[t] = work[t] /\ work[t] # NoWork /\ nonce'[t] = nonce[t] + 1
            /\ Tail43(work[t]) = Tail43(g_work)
  BY <1>1, <1>2, <1>4, <1>5, CopyEffect
<1>7. Types'
  BY <1>1, <1>2, <1>3, <1>6 DEF Types
<1>8. Spent' = Spent /\ Spent \in Nat /\ Spent >= 1
  BY <1>1, <1>2, <1>4, SpentFacts DEF Spent, Pending, SameTime
<1>9. JobInv' /\ OrderInv'
  BY <1>1, <1>2, <1>4, <1>6, <1>8 DEF JobInv, OrderInv
<1>10. LockInv'
  BY <1>1, <1>2, <1>3, <1>6 DEF LockInv, Generating
<1>11. FollowInv'
  BY <1>1, <1>2, <1>3 DEF FollowInv, Generating
<1>12. NonceInv(t)'
  <2>1. Lanes * 1 = Lanes /\ Lanes * Bound(t)' \in Nat /\ Lanes * 1 <= Lanes * Bound(t)'
    <3>1. Lanes \in Nat /\ Bound(t)' \in Nat /\ 1 <= Bound(t)'
      BY <1>1, <1>2, <1>8, SpentFacts, MinerAssumption DEF Bound
    <3>2. ASSUME NEW b \in Nat, 1 <= b
          PROVE  Lanes * 1 = Lanes /\ Lanes * b \in Nat /\ Lanes * 1 <= Lanes * b
      BY <3>1, <3>2, ProductGrows
    <3> QED BY <3>1, <3>2
  <2>2. nonce[t] \in Nat /\ Lanes \in Nat /\ end_nonce(t) \in Nat /\ FirstNonce(t) \in Nat
        /\ FirstNonce(t) < end_nonce(t)
    BY <1>1, RangeBounds, MinerAssumption DEF Types
  <2>3. CASE work'[t] = g_work /\ nonce'[t] = FirstNonce(t)
    BY <1>3, <1>8, <2>1, <2>2, <2>3 DEF NonceInv
  <2>4. CASE /\ work'[t] = work[t] /\ work[t] # NoWork /\ nonce'[t] = nonce[t] + 1
             /\ Tail43(work[t]) = Tail43(g_work)
    <3>1. nonce[t] < end_nonce(t)
      BY <1>2, <2>2, <2>4 DEF Exhausted, WorkDiffers
    <3>2. nonce[t] >= FirstNonce(t)
      BY <2>4 DEF IInv, NonceInv
    <3> QED BY <1>3, <1>8, <2>1, <2>2, <2>4, <3>1, <3>2 DEF NonceInv
  <2> QED BY <1>6, <2>3, <2>4
<1>13. \A u \in Threads : u # t => NonceInv(u)'
  BY <1>1, <1>2, <1>3, <1>6, <1>8, NonceKept DEF IInv
<1>14. SeenInv'
  <2>1. \A u \in Threads : nonce[u] \in Nat
    BY <1>1 DEF Types
  <2> QED BY <1>1, <1>2, <1>3, <1>6, <1>7, <2>1, SeenKept
<1> QED BY <1>7, <1>9, <1>10, <1>11, <1>12, <1>13, <1>14 DEF IInv

\* A thread at the end of its range generates new work.  It scans on, past the
\* end, only if the new work looks the same, that is if a job has come meanwhile.
LEMMA RegenerateStep ==
  ASSUME IInv, NEW t \in Threads, Regenerate(t)
  PROVE  IInv'
<1>1. Types /\ JobInv /\ LockInv /\ OrderInv /\ SeenInv
  BY DEF IInv
<1>2. /\ mpc[t] = "gen" /\ stratum_gen_work /\ CopyWork(t, g_work')
      /\ mpc' = [mpc EXCEPT ![t] = "clear"]
      /\ UNCHANGED <<limit, spc, session, job, lastId, jobs, reconnects, burst, g_work_time, restart, seen>>
  BY DEF Regenerate
<1>3. /\ mpc' \in [Threads -> {"wait", "take", "gen", "clear", "scan"}]
      /\ mpc'[t] = "clear" /\ \A u \in Threads : u # t => mpc'[u] = mpc[u]
  BY <1>1, <1>2 DEF Types
<1>4. /\ g_work \in Work /\ g_work # NoWork /\ work[t] \in Work /\ work[t] # NoWork
      /\ job # NoJob /\ Tail43(work[t]) = Tail43(g_work)
  BY <1>1, <1>2 DEF LockInv, JobInv, Types
<1>5. /\ g_work' \in Work /\ g_work' # NoWork /\ g_work'.job = job /\ g_work'.xnonce2 = xnonce2
      /\ xnonce2' \in Nat /\ JobInv' /\ Spent' \in Nat /\ Spent' >= 1
      /\ Pending /\ SameTime(g_work.job, job) => Spent' = Spent + 1
      /\ Older(g_work, g_work')
  BY <1>1, <1>2, <1>4, GenEffect
<1>6. ASSUME NEW u \in Threads, work[u] # NoWork PROVE Older(work[u], g_work')
  <2>1. work[u] \in Work
    BY <1>1, <1>6 DEF Types
  <2> QED BY <1>1, <1>4, <1>5, <1>6, <2>1, OlderTransitive DEF OrderInv
<1>7. /\ work' \in [Threads -> Work \cup {NoWork}] /\ nonce' \in [Threads -> Nat]
      /\ \A u \in Threads : u # t => work'[u] = work[u] /\ nonce'[u] = nonce[u]
      /\ work'[t] # NoWork
      /\ \/ /\ work'[t] = g_work' /\ nonce'[t] = FirstNonce(t)
            /\ work[t] # NoWork => Older(work[t], g_work')
         \/ /\ work'[t] = work[t] /\ work[t] # NoWork /\ nonce'[t] = nonce[t] + 1
            /\ Tail43(work[t]) = Tail43(g_work')
  BY <1>1, <1>2, <1>5, <1>6, CopyEffect
<1>8. Types'
  BY <1>1, <1>2, <1>3, <1>5, <1>7 DEF Types
<1>9. LockInv'
  <2>1. \A u \in Threads : mpc'[u] # "gen"
    BY <1>1, <1>2, <1>3 DEF LockInv
  <2> QED BY <1>1, <1>2, <1>3, <1>5, <1>7, <2>1 DEF LockInv
<1>10. FollowInv'
  BY <1>2, <1>5 DEF FollowInv
<1>11. OrderInv'
  BY <1>5, <1>6, <1>7 DEF OrderInv
<1>12. NonceInv(t)'
  <2>1. Lanes * 1 = Lanes /\ Lanes * Bound(t)' \in Nat /\ Lanes * 1 <= Lanes * Bound(t)'
    <3>1. Lanes \in Nat /\ Bound(t)' \in Nat /\ 1 <= Bound(t)'
      BY <1>1, <1>2, <1>5, SpentFacts, MinerAssumption DEF Bound
    <3>2. ASSUME NEW b \in Nat, 1 <= b
          PROVE  Lanes * 1 = Lanes /\ Lanes * b \in Nat /\ Lanes * 1 <= Lanes * b
      BY <3>1, <3>2, ProductGrows
    <3> QED BY <3>1, <3>2
  <2>2. nonce[t] \in Nat /\ Lanes \in Nat /\ end_nonce(t) \in Nat /\ FirstNonce(t) \in Nat
        /\ FirstNonce(t) < end_nonce(t)
    BY <1>1, RangeBounds, MinerAssumption DEF Types
  <2>3. CASE work'[t] = g_work' /\ nonce'[t] = FirstNonce(t)
    BY <1>3, <2>1, <2>2, <2>3 DEF NonceInv
  <2>4. CASE /\ work'[t] = work[t] /\ nonce'[t] = nonce[t] + 1
             /\ Tail43(work[t]) = Tail43(g_work')
    <3>1. /\ xnonce2 = g_work.xnonce2 /\ SameTime(g_work.job, job)
          /\ SameTime(work[t].job, g_work.job) /\ SameTime(work'[t].job, g_work'.job)
      <4>1. /\ <<work[t].job.session, work[t].xnonce2, work[t].job.ntime>>
               = <<g_work.job.session, g_work.xnonce2, g_work.job.ntime>>
            /\ <<work[t].job.session, work[t].xnonce2, work[t].job.ntime>>
               = <<g_work'.job.session, g_work'.xnonce2, g_work'.job.ntime>>
        BY <1>4, <1>5, <2>4 DEF Tail43
      <4> QED BY <1>5, <2>4, <4>1 DEF SameTime
    <3>2. g_work.xnonce2 \in Nat
      BY <1>4 DEF Work
    <3>3. Pending
      BY <1>4, <3>1, <3>2 DEF Pending
    <3>4. Bound(t) = Spent /\ Bound(t)' = Spent + 1 /\ Spent \in Int
      BY <1>1, <1>5, <3>1, <3>3, SpentFacts DEF Bound
    <3>5. Lanes * Bound(t)' = Lanes * Bound(t) + Lanes /\ Lanes * Bound(t) \in Int
      BY <3>4, ProductSucc, MinerAssumption
    <3>6. nonce[t] >= FirstNonce(t) /\ nonce[t] <= end_nonce(t) + Lanes * Bound(t) - 1
      BY <1>2, <1>4 DEF IInv, NonceInv
    <3> QED BY <1>3, <2>2, <2>4, <3>5, <3>6 DEF NonceInv
  <2> QED BY <1>7, <2>3, <2>4
<1>13. \A u \in Threads : u # t => NonceInv(u)'
  BY <1>1, <1>2, <1>3, <1>4, <1>7, NonceKeptByGen DEF IInv
<1>14. SeenInv'
  <2>1. \A u \in Threads : nonce[u] \in Nat
    BY <1>1 DEF Types
  <2> QED BY <1>1, <1>2, <1>3, <1>7, <1>8, <2>1, SeenKept
<1> QED BY <1>5, <1>8, <1>9, <1>10, <1>11, <1>12, <1>13, <1>14 DEF IInv

\* A round is scanned: the thread goes forward in its range.
LEMMA ScanStep ==
  ASSUME IInv, NEW t \in Threads, ScanFinds(t) \/ ScanGoesOn(t) \/ ScanEnds(t)
  PROVE  IInv'
<1> USE DEF stratumVars
<1>1. Types /\ JobInv /\ LockInv /\ FollowInv /\ OrderInv /\ SeenInv /\ NonceInv(t)
  BY DEF IInv
<1>2. /\ mpc[t] = "scan"
      /\ UNCHANGED <<limit, spc, session, job, xnonce2, lastId, jobs, reconnects, burst, g_work, g_work_time,
                     restart, work>>
  BY DEF ScanFinds, ScanGoesOn, ScanEnds
<1>3. work[t] # NoWork /\ work[t] \in Work /\ g_work # NoWork /\ Round(t) \subseteq Range(t)
  BY <1>1, <1>2, InRange DEF LockInv, Types, OrderInv
<1>4. /\ Spent' = Spent /\ Spent \in Nat /\ Spent >= 1
      /\ Bound(t)' = Bound(t) /\ Bound(t) \in Nat /\ Bound(t) >= 1
  <2>1. Spent' = Spent
    BY <1>2 DEF Spent, Pending, SameTime
  <2>2. Bound(t)' = Bound(t)
    BY <1>2, <2>1 DEF Bound, SameTime
  <2> QED BY <1>1, <1>3, <2>1, <2>2, SpentFacts, BoundFacts
<1>5. Lanes * 1 = Lanes /\ Lanes * Bound(t) \in Nat /\ Lanes * 1 <= Lanes * Bound(t)
  BY <1>4, ProductGrows, MinerAssumption
<1>6. /\ nonce[t] \in Nat /\ Lanes \in Nat /\ Lanes >= 1 /\ end_nonce(t) \in Nat
      /\ FirstNonce(t) \in Nat /\ nonce[t] >= FirstNonce(t)
      /\ nonce[t] <= end_nonce(t) + Lanes * Bound(t) - Lanes
  BY <1>1, <1>2, <1>3, RangeBounds, MinerAssumption DEF Types, NonceInv
<1>7. ASSUME NEW n \in Int, NEW p \in {"wait", "scan"},
             nonce' = [nonce EXCEPT ![t] = n], mpc' = [mpc EXCEPT ![t] = p],
             n >= nonce[t],
             p = "wait" => n <= nonce[t] + Lanes - 1,
             p = "scan" => n <= end_nonce(t),
             seen' = seen \/ (p = "wait" /\ seen = NoShare /\ n \in Round(t)
                               /\ seen' = [work |-> work[t], nonce |-> n])
      PROVE  IInv'
  <2>1. /\ mpc' \in [Threads -> {"wait", "take", "gen", "clear", "scan"}]
        /\ mpc'[t] = p /\ nonce'[t] = n /\ nonce' \in [Threads -> Nat]
        /\ \A u \in Threads : u # t => mpc'[u] = mpc[u] /\ nonce'[u] = nonce[u]
    <3>1. n \in Nat
      BY <1>6, <1>7
    <3> QED BY <1>1, <1>7, <3>1 DEF Types
  <2>2. seen' \in Share \cup {NoShare}
    <3>1. CASE seen' = seen
      BY <1>1, <3>1 DEF Types
    <3>2. CASE n \in Round(t) /\ seen' = [work |-> work[t], nonce |-> n]
      <4>1. n \in 0..NonceMax
        BY <1>3, <3>2, RangeBounds, MinerAssumption DEF Range
      <4> QED BY <1>3, <3>2, <4>1 DEF Share
    <3> QED BY <1>7, <3>1, <3>2
  <2>3. Types'
    BY <1>1, <1>2, <2>1, <2>2 DEF Types
  <2>4. JobInv' /\ OrderInv'
    BY <1>1, <1>2, <1>4 DEF JobInv, OrderInv
  <2>5. LockInv'
    <3>1. \A u \in Threads : mpc'[u] \in {"take", "gen"} => u # t /\ mpc'[u] = mpc[u]
      BY <2>1
    <3>2. \A u \in Threads : Tail43(work'[u]) = Tail43(work[u]) /\ Tail43(g_work') = Tail43(g_work)
      BY <1>2
    <3> QED BY <1>1, <1>2, <1>3, <2>1, <3>1, <3>2 DEF LockInv
  <2>6. FollowInv'
    BY <1>1, <1>2, <2>1 DEF FollowInv, Generating
  <2>7. NonceInv(t)'
    BY <1>4, <1>5, <1>6, <1>7, <2>1 DEF NonceInv
  <2>8. \A u \in Threads : u # t => NonceInv(u)'
    BY <1>1, <1>2, <1>4, <2>1, NonceKept DEF IInv
  <2>9. SeenInv'
    <3>1. CASE seen' = seen
      <4>1. \A u \in Threads : nonce[u] \in Nat
        BY <1>1 DEF Types
      <4> QED BY <1>1, <1>2, <1>7, <2>1, <2>3, <3>1, <4>1, SeenKept
    <3>2. CASE p = "wait" /\ n \in Round(t) /\ seen' = [work |-> work[t], nonce |-> n]
      <4>1. seen'.nonce = n /\ seen'.work = work[t] /\ n \in Range(t)
        BY <1>3, <3>2
      <4>2. /\ seen'.nonce \in Range(t) /\ work'[t] # NoWork
            /\ work'[t] = seen'.work /\ seen'.nonce <= nonce'[t] /\ mpc'[t] \notin {"clear", "scan"}
        BY <1>2, <1>3, <2>1, <3>2, <4>1
      <4> QED BY <4>2 DEF SeenInv, Range
    <3> QED BY <1>7, <3>1, <3>2
  <2> QED BY <2>3, <2>4, <2>5, <2>6, <2>7, <2>8, <2>9 DEF IInv
<1>8. CASE ScanFinds(t)
  <2>1. PICK n \in Round(t) :
          /\ nonce' = [nonce EXCEPT ![t] = n]
          /\ \/ seen' = seen
             \/ limit.follow /\ seen = NoShare /\ seen' = [work |-> work[t], nonce |-> n]
    BY <1>8 DEF ScanFinds
  <2>2. n \in Int /\ n >= nonce[t] /\ n <= nonce[t] + Lanes - 1
    BY <1>6 DEF Round
  <2>3. seen' = seen \/ (seen = NoShare /\ seen' = [work |-> work[t], nonce |-> n])
    BY <2>1
  <2>4. mpc' = [mpc EXCEPT ![t] = "wait"]
    BY <1>8 DEF ScanFinds
  <2> QED BY <1>7, <2>1, <2>2, <2>3, <2>4
<1>9. CASE ScanGoesOn(t)
  <2>1. /\ nonce' = [nonce EXCEPT ![t] = nonce[t] + Lanes] /\ seen' = seen
        /\ nonce[t] + Lanes - 1 < end_nonce(t)
        /\ mpc' = [mpc EXCEPT ![t] = "scan"]
    BY <1>1, <1>9 DEF ScanGoesOn, Types
  <2>2. nonce[t] + Lanes \in Int /\ nonce[t] + Lanes >= nonce[t] /\ nonce[t] + Lanes <= end_nonce(t)
    BY <1>6, <2>1
  <2> QED BY <1>7, <2>1, <2>2
<1>10. CASE ScanEnds(t)
  <2>1. /\ nonce' = [nonce EXCEPT ![t] = nonce[t] + Lanes - 1] /\ seen' = seen
        /\ mpc' = [mpc EXCEPT ![t] = "wait"]
    BY <1>10 DEF ScanEnds
  <2>2. nonce[t] + Lanes - 1 \in Int /\ nonce[t] + Lanes - 1 >= nonce[t]
        /\ nonce[t] + Lanes - 1 <= nonce[t] + Lanes - 1
    BY <1>6
  <2> QED BY <1>7, <2>1, <2>2
<1> QED BY <1>8, <1>9, <1>10

-----------------------------------------------------------------------------
(* The theorems.                                                           *)

LEMMA NextIInv == IInv /\ [Next]_vars => IInv'
<1> SUFFICES ASSUME IInv, [Next]_vars PROVE IInv'
  OBVIOUS
<1>1. CASE Dial \/ Authorized \/ StratumStep \/ Disconnect \/ WorkAges
  BY <1>1, StratumQuietSteps, FinishWorkStep DEF StratumStep
<1>2. CASE stratum_notify
  BY <1>2, NotifyStep
<1>3. ASSUME NEW t \in Threads, MinerStep(t) PROVE IInv'
  BY <1>3, MinerQuietSteps, TakeWorkStep, RegenerateStep, ScanStep DEF MinerStep
<1>4. CASE UNCHANGED vars
  <2> USE <1>4 DEF vars, stratumVars, minerVars
  <2>1. Spent' = Spent
    BY DEF Spent, Pending, SameTime
  <2>2. \A t \in Threads : Bound(t)' = Bound(t)
    BY <2>1 DEF Bound, SameTime
  <2>3. Types' /\ JobInv'
    BY <2>1 DEF IInv, Types, JobInv
  <2>4. LockInv' /\ FollowInv' /\ OrderInv' /\ SeenInv'
    BY DEF IInv, LockInv, Tail43, FollowInv, Generating, OrderInv, SeenInv
  <2>5. \A t \in Threads : NonceInv(t)'
    BY <2>2 DEF IInv, NonceInv
  <2> QED BY <2>3, <2>4, <2>5 DEF IInv
<1> QED BY <1>1, <1>2, <1>3, <1>4 DEF Next

\* The strengthened invariant holds throughout.
LEMMA InductiveInvariant == Spec => []IInv
BY InitIInv, NextIInv, PTL DEF Spec

\* The variables of stratum_thread and the miner_threads keep their types, and
\* the nonces of a thread never leave its own range, for any number of threads:
\* the 0x20 left free by end_nonce is enough for what the lanes overshoot.
THEOREM TypeCorrect == Spec => []TypeOK
BY InductiveInvariant, IInvImplies, PTL

\* When stratum_thread waits for the pool's next line, g_work has been made from
\* the job received last, though stratum_thread compares the ids without
\* g_work_lock while a miner thread may be writing g_work; but for a job of an
\* earlier session with the same id, which a restarted pool may repeat.
THEOREM WorkFollows == Spec => []WorkFollowsJob
BY InductiveInvariant, IInvImplies, PTL

\* No nonce that has solved a work is tried for that work again, by the thread
\* that found it or by another one, whatever reconnections, restarts and
\* regenerations by miner_thread come between.
THEOREM NoDuplicates == Spec => []NoDuplicateShare
BY InductiveInvariant, IInvImplies, PTL
=============================================================================
