# Verification of the comptoken mining pool

The pool (`src/src`, TypeScript on NestJS) hands out work to stratum miners,
checks their shares, submits them as mining proofs to the comptoken program on
Solana, and pays the miners. At the other end of the protocol is
`cpuminer-multi` (C), the repository's own cut-down fork of a miner, which
`local_test.py` runs against the pool. This directory holds TLA+ models of the
parts that decide something, TLC configurations for small instances, and TLAPS
proofs for every instance. `PROJECT.json` maps definitions to source lines.

## 1. Inventory

The pool runs in a Node process, or several under pm2. JavaScript code runs without interruption
between two awaits, so the unit of interleaving is the stretch from one await to
the next; RxJS pipelines run synchronously inside it. The miner is a process of
POSIX threads, whose unit of interleaving is a critical section, or a single
access where the code reads without the lock.

| Component | State | Operations | Hard about it |
|---|---|---|---|
| Job pipeline, `stratum-v1-jobs.service.ts` | `lastIntervalCount`, `skipNext`, id counters, `jobs`, `blocks`, the replayed template, the interval | a tick, a new block, a subscription, the last unsubscription | the fields outlive the interval they are about; ticks and blocks come in any order; `null` emissions |
| Block hash poller, `compto-rpc.service.ts` 63-129, 343-416 | `blockHash`, `newBlock$`, intervals, polls under way | startup, midnight, 10 s firing, answer | overlapping polls, clearing of the right interval, an error ends the process |
| Proof submission, `compto-rpc.service.ts` 131-341 | none kept; everything is on the chain | verify, mint, increase capacity and retry, transfer | transactions that are executed but not confirmed, concurrent shares, crash between mint and transfer |
| Stratum connection, `StratumV1Client.ts`, `stratum-v1.service.ts` | subscription, configuration, authorization, `stratumInitialized`, the job subscription, the entity and the promise that creates it, the socket | one handler per received line, `initStratum`, `write`, `destroy`, socket events | handlers of pipelined lines interleave at each await; the socket goes away at any time |
| Messages, `models/stratum-messages`, `MiningJob.ts` | none | validation, masks, byte orders | defaults, masks |
| Client registry, `ORM/client`, `app.service.ts` | insert queue, batches under way, table of clients shared by the instances | insert, flush, delete, two cleaning jobs, `deleteAll` at the start | queue emptied before the write, deletion before the insertion, crash of an instance |
| Miner, work: `cpu-miner.c` `stratum_thread`, `miner_thread`, `stratum_gen_work`; `util.c` `stratum_notify`; `algo/sha2.c` `scanhash_*` | `sctx->job`, `g_work`, `g_work_time`, each thread's copy and nonce, `work_restart` | a job, a new work, copying, scanning, regeneration, reconnection | `g_work` and the restart flags are accessed without the lock; ranges and lanes; jobs that look alike |
| Miner, shares: `cpu-miner.c` `stratum_thread`, `workio_thread`; `util.c` `tq_*`, `stratum_connect` ... | connection, queue of shares, failure counters, `stratum_need_reset` | connecting with retries, queueing, sending with retries, reset, giving up | shares outlive connections, two retry loops and one exit, a connection broken without notice |
| Other tables, REST API, bootstrap, BTCPay service | tables, cache | queries | nothing that decides |
| `script`, `solana-test-validator`, `deploy`, the rest of `cpuminer-multi` | | | test clients, data, hash functions and modes that are not used |

How they interact: the poller announces a hash on `newBlock$`; the pipeline turns
it into a template and calls every subscribed connection, which adds a job of its
own and sends `mining.notify`. A connection hands a share to `submitProof`, which
uses the poller's `blockHash`. `updateUserData` of the poller empties the account
whose capacity `mineComptokens` increases. Connections register themselves with
the client registry and delete themselves in `destroy`. The miner's
`stratum_thread` connects, subscribes and authorizes, turns each `mining.notify`
into `g_work`, and its threads' shares come back as `mining.submit`, possibly on a
later connection than the one their job came on; a share that arrives before the
pool has initialized stratum ends that connection.

What makes each part correct:

- pipeline: a share's job has a template; every miner works on the hash that
  shares are verified against; nobody is left without work; ids are exclusive;
  work is revoked by new hashes only, and always;
- poller: no day's hash is missed; polling ends on a newer hash only;
- submission: nothing is minted or paid twice, nothing is paid that was not
  minted, and the miner is told the truth;
- connection: one job subscription, released at the end; one registration; no
  share without authorization; every request answered once;
- registry: a registered client gets from the queue to the table once; the row of
  one that left disappears, whatever crashed;
- miner, work: no nonce is scanned by two threads or submitted twice; threads
  follow the pool's jobs;
- miner, shares: none is lost or sent twice; retries go on for ever, or end the
  process.

The hazards behind these are listed, each at its line, in `PROJECT.json`.

## 2. Modules

### MiningJobs

`newMiningJob$` and its subscribers. The pipeline is synchronous, so each of its
causes is one action: `SubscribeFirst` (connects `combineLatest`, which emits at
interval -1), `SubscribeLate` (the replay), `Unsubscribe` (`destroy`; the last
one drops interval and replay, `refCount: true`), `Tick` and `NewBlock`. `Emit`
is the stateful `map`: `clearJobs`, then either `Skip` (returns `null`, leaves
`lastIntervalCount`) or `Publish` (the `tap`, then `SendJobs`: each subscriber's
`sendNewMiningJob` and `addJob`, in subscription order). `work` is the miner's
view and is history only: no action reads it to decide. Templates are reduced to
their hash and `clearJobs`; network difficulty and timestamp are left out. The
first value of `newBlock$` is the empty buffer, `NoHash`, for which the code
emits templates too.

### BlockPoller

`pollMiningInfo` at startup and at every `Midnight`. `Fire` is one firing of a
10 s interval, `Answer` the result of `getMiningInfo`, `Adopt` or `Ignore` what
`_pollMiningInfo` does with it, `Collected` the return of `updateUserData` and
the `clearInterval`. `Crash` is the error that `getMiningInfo` rethrows into a
timer callback. Hashes are numbered by day; the chain produces the hash of a day
at some time after its midnight (`Advance`). `bootLag` records how many hashes
the chain owed when the process started.

How much polls overlap is said by two constants. `MaxPerInterval` limits the polls
of one interval that wait for an answer: 1 means that each is answered within
10 s. `MaxInFlight` limits those of all intervals together: the intervals started
before and at a midnight fire independently, so with 2 their polls overlap
although RPC is fast.

### PayoutLedger and ProofSubmission

`PayoutLedger` is what the pool promises about money: a proof is minted at most
once; a share is paid at most once, after it was minted. `ProofSubmission` is
`submitProof` for concurrent shares and implements it. `pc` is the await a call
is at, `tx` the fate of the transaction it waits for. A call whose wait fails
leaves its transaction in `late`, where it may still be executed (`LateLands`);
`Crash` does that to all calls. `Execute`, `MintOnChain`, `PayOnChain` and
`ResizeOnChain` are the programs on the chain (external), modelled from how the
code uses them: a proof is taken once, an account at its capacity refuses with
`UserDataProofsCapacityExceeded`, a resize sets the capacity asked for. `Collect`
is the poller's `updateUserData`. Whether a share meets the target is a choice
in `Verify`.

### StratumClient

One connection. Every received line starts a handler (`Receive`, until `'close'`:
the rest of a chunk is handled although an earlier line destroyed the socket),
which runs to its first await; `pc[r]` says what the handler of request `r` awaits, and one
action each continues it: `Validated` (with `HandleSubscription`,
`HandleConfigure`, `HandleAuthorization`, `HandleSubmit`, `HandleInvalid`),
`Registered`, `Proved`, `Replied`, `Rejected`, `MaskErrorReplied`, `Initialized`,
`WriteFailed`. `Write` is `write()` with both branches. The socket is `open`,
`ended` by us or `destroyed`; `PeerGone` covers reset, end and the 5 minute
timeout, `Close` the `'close'` event, which Node emits after the callbacks of all
pending writes, `NotifyFails` a job that cannot be sent. `destroy()` awaits
`clientService.delete` before it unsubscribes, and several calls of it may be
under way: `destroys` counts them. A message is its method, whether it is valid,
invalid (validation errors) or malformed (`plainToInstance` throws), and its
mask, a set of bits. Whether the job of a share is still stored, and what
`submitProof` answers, are choices here; the modules above decide them.
`clientService.insert` always resolves, since the `BehaviorSubject` it waits for
has a value. A rejected `clientService.delete` is an unhandled rejection, which
ends the process, and is left out.

### ClientRegistry

`insertQueue[i]` and the `batches` being inserted by instance `i`, the `row` of
each client, and how old its `updatedAt` or `deletedAt` is (`age`, which `Age`
advances: five minutes for a visible row, a day for a deleted one; deleting a
deleted row again starts its day again). `insert` is
the queueing when the first share's handler goes on, also after the connection
closed; `insertClients` the flush every 5 s, `Inserted` and `InsertFails` the end
of its statement. `destroy` and `delete` are the call at the end of a connection
and the execution of its statement. `killDeadClients` and `deleteOldClients` are
run by instance 0, and `Restart` of instance 0 deletes all clients. A `Crash`
leaves it open which of the statements under way were executed, and in which
order. Instances are those of pm2, whose first has `NODE_APP_INSTANCE` 0. A flush
of an empty queue and a cleaning job that finds nothing are stuttering steps.
`written` and `lost` are history.

### MinerWork

How the miner's threads share out work. `spc` is where `stratum_thread` is:
`Dial` (the reconnection loop: `g_work_time` is zeroed, threads restarted, the
subscription brings a new extranonce1), `Authorized`, `stratum_notify`,
`CheckJob` (line 2227, without the lock), `BeginWork`/`FinishWork`
(`stratum_gen_work` under the lock, in two steps because others read `g_work`
without it), `RestartThreads` after the lock is released, `Disconnect`. `mpc[t]`
is where miner thread `t` is: `WaitForWork`, `TakeWork` or
`BeginRegenerate`/`Regenerate` (the critical section of lines 1766-1818),
`ClearRestart` (1819, outside of it), and a scan, of which `ScanFinds`,
`ScanGoesOn` and `ScanEnds` are the ways a round of `Lanes` nonces ends. A job is
its id, second and the session whose extranonce1 its coinbase holds, and whether
it clears is a choice of `FinishWork`; `Tail43` is what the comparison of lines 1769 and 1804 really looks at
(bytes 43 to 75, by C's precedence of `||` over `?:`). Which nonce solves a work
is a choice, and so is `max_nonce`, which depends on the hash rate. `seen` is one
of the shares found, any one of them (`limit.follow` turns that history off). The
pool is seen through its jobs: ids count up and start again when the pool is
restarted, the coinbase parts are empty and the merkle branch is constant, so
only the extranonces enter the merkle root; two jobs of one session and one
second are of different hashes, so that different jobs are different work. `burst` counts the jobs
of the last one's session and second, of which there are a few at most
(`limit.burst`).

### ShareDelivery

How shares get to the pool. `spc` follows `stratum_thread` at the grain of its
network calls, with `HandshakeFails` for each that fails and `GivesUp` for the
limit of retries; `conn` tells a connection that is down from one that is broken
without notice. `FindShare` is `submit_work`; `tq_push`, `tq_pop` and `tq_freeze`
are the queue, `SpuriousWakeup` what its single `pthread_cond_wait` allows.
`workio_thread` is `tq_pop`, `CheckStale` (reads `g_work` without the lock:
`StaleSeen` has every outcome that a half-written `g_work` allows), `SendShare`,
`SendFails`. `Exit` is the return of `main`, which joins the workio thread only.
`ready` is the pool's `stratumInitialized` for the connection: a share that comes
before it makes the pool end the connection (`StratumClient!SubmitTooEarly`).
What a thread's work is, beyond its hash, is left to `MinerWork`.

Definitions whose comment begins with "Mutant of" are faulty variants; each shows
that a property notices the fault (`mutants` in `PROJECT.json`).

## 3. Runs

| Run | Instance | Result |
|---|---|---|
| `jobs` | 2 miners, 2 hashes, ticks 0..2, ids up to 8 | all properties hold (182,804 states) |
| `jobs_clear` | the same, ids up to 7 | `NewBlockClearsJobs` violated |
| `poller` | 3 midnights, 1 crash, one poll under way at a time | all hold (40,315 states) |
| `poller_slow` | 1 midnight, one poll per interval, two in all | `OnlyNewHashEndsPolling` violated |
| `session` | 4 lines of every kind, then a share | all hold (5,725,463 states) |
| `session_live` | 4 lines of a pipelining miner, fair | both hold (224,499 states) |
| `session_double` | as `session` | `ErrorOrResult` violated |
| `session_mask` | as `session` | `MasklessShareHasNoMask` violated |
| `proofs` | 3 shares, 2 of one proof, capacity 1, fee 1 % | all hold (209,945 states) |
| `registry` | 2 clients on either of 2 instances, 2 crashes | all hold (17,962 states) |
| `miner` | 2 threads, 2 lanes, ranges of 6 nonces; 2 jobs of any seconds, or 1 job and a lost connection, or 2 jobs and a lost connection, or 1 job and 3 regenerations | all hold (1,552,853 states) |
| `delivery` | 1 thread, 2 hashes, 2 shares, 3 troubles, retries for ever or once | all hold (208,438 states) |

Why the bounds suffice. `jobs`: two miners make a first and a late subscriber, a
non-empty rest after an unsubscription, and a restart by another miner; three
intervals make an emission, a skipped and a later one; eight ids leave room for
two new blocks, a restart and a further block. Ids only bound subscriptions and
blocks, never ticks, so that liveness is not an artefact of the bound.
`poller`: three midnights let an answer for one day arrive after the next, with
two intervals running, before and after a crash; one poll under way at a time is
the hypothesis of these properties, see `NothingMissed` below. `session`: five lines are what it
takes to subscribe, authorize, configure and submit twice at once, and the first
four may be anything, invalid and malformed lines included. Masks need one bit that may be rolled and one that
may not. `MaxDestroys` limits only the destroys caused by jobs that cannot be
sent. `proofs`: three shares give a resubmission and a rival for the last place
in the account. `registry`: two clients make batches that overlap on one instance
and rows of another instance; two crashes hit both, or one twice. `miner`: two
threads have a common border of ranges; a range of 6 nonces, with a margin of 4
and two lanes, is exhausted after one round and can be overshot twice; the cases
that need a second job, a reconnection, both, or many regenerations are four sets
of limits (`Limits`), since their product has too many states. `limit.xnonce2`
regenerations are allowed per job, so that after a second job that looks like the
first a thread can still exhaust its range and make the next work; the cases with
a second job leave `seen` out, so that the run checks `NoDuplicateShare` with one
job; `NoDuplicates` proves it for any number. The margin must hold
the lanes once for every job that one session gets in one second, as
`MinerAssumption` says: 0x20 holds eight lanes four times. More than two such
jobs do not happen in this pool, which makes one a minute and one for a new hash. `delivery`: three troubles
are a reset, a broken connection and a refused handshake, or sends that fail; one
retry separates counting from exceeding. One miner thread suffices, since threads
meet only in the queue, which holds two shares of two hashes, and in `g_work`,
which one thread can be writing while the others read it. No deadlock is checked: each system may come to rest, when
miners, midnights or shares run out.

Fairness. `MiningJobs!FairSpec`: the interval of a connected pipeline ticks (a
Node timer). `BlockPoller!FairSpec`: each interval keeps firing, strongly since
slots are freed and taken again; a poll under way goes on. Nothing
makes a crash or the next hash of the chain happen. `StratumClient!FairSpec`: promises settle (validation, writes, database,
chain), `'close'` follows the destruction of a socket, and jobs keep coming (a
tick a minute). Miners owe nothing. `ClientRegistry!FairSpec`: timers fire,
statements end (well or not), time passes, pm2 restarts a crashed instance.
`MinerWork!FairSpec`: the system runs every thread; the pool need neither accept a
connection nor send a job. `ShareDelivery!FairSpec`: in
addition `stratum_thread` gets a mutex that is free again and again (strong, since
the miner threads take it too), waiting for a line ends (`opt_timeout`), and the
pool initializes a connection that stays. That the pool can be reached is not
assumed: `SharesResolved` has it as its condition (connections come about again
and again), and `ResetHonoured` excepts a miner that stays in the connecting loop
for ever.

### What the violated properties show

- `NewBlockClearsJobs`: a skipped tick returns `null` before `lastIntervalCount`
  is updated. A new block before the next tick is then compared with an old
  count and is not recognized: old jobs stay and miners are not told to drop
  them. It takes two new blocks around a tick, as after a start just before
  midnight. The comment at `StratumV1Client.ts:393` assumes otherwise.
- `OnlyNewHashEndsPolling`: a poll of the interval that ran before midnight and one
  of the interval started at midnight overlap, each answered in time; the newer
  answer is adopted, then the older one replaces it, clears its interval, and
  stays until the next midnight, against the comment at `compto-rpc.service.ts:374`.
  Slow RPC makes two polls of one interval do the same.
- `ErrorOrResult`: a share whose version mask is refused is answered with the error
  and then with `result: true`, since `write` returns true for the error
  (`StratumV1Client.ts:437`); `stratumProtocol.md:25-40` says an error or a result.
  `OneReplyPerRequest` shows that no other request is answered twice.
- `MasklessShareHasNoMask`: the mask of a share without one is `'0'`, which
  counts as a mask; miners without version rolling cannot submit. The miner in
  the repository is one: it sends five parameters and never `mining.configure`.

Observations that the properties make room for:

- A miner thread clears its restart flag after it has released the lock
  (`cpu-miner.c:1818-1819`). If a job arrives between its copy of the work and that
  line, the restart is lost and it scans the old work for the rest of the round;
  if the hash changed, its shares are then discarded as stale, by itself
  (line 956) or by the pool. `ThreadsFollow` shows that it does come back.
- After a reconnection to a restarted pool the first job may have the id of the
  job kept from before. Only ids are compared (`cpu-miner.c:2227-2228`), so the
  work of the old session stays until it is exhausted: the exception in
  `WorkFollowsJob`.
- A miner that is given a new URL while its pool cannot be reached stays in the
  loop of lines 2199-2225, which does not look at `stratum_need_reset`: the
  exception in `ResetHonoured`.
- The number of proofs fetched is not the capacity when two shares find the
  account full at once (`compto-rpc.service.ts:241`, "assumed to be at capacity").
- `submitProof` tells an error by its message (`mineResult.error`), which the model
  takes not to be empty; an error with an empty message would pass for success.

## 4. Proofs

TLAPS checks every step of the seven `...Proofs` modules. Together they prove every
invariant that a run checks, the action property of `jobs`, one of the poller, and
the refinement of the ledger. Each module states an inductive invariant `IInv`,
which TLC has confirmed on the run's instance, proves that `Init` implies it and
that each action keeps it (one lemma per action, or per group of actions that
leave the same things alone), and derives the theorems from it.

| Module | Theorems | For any | Assumed of the constants |
|---|---|---|---|
| `MiningJobsProofs` | `TypeCorrect`, `JobTemplateFound`, `MinersWorkOnCurrentHash`, `NoMinerWithoutWork`, `ExclusiveJobs`, `WorkRevokedByBlocksOnly` | clients, hashes, ticks, ids | `NoHash` is no hash, bounds are numbers |
| `ProofSubmissionProofs` | `TypeCorrect`, `TruthfulResults`, `ImplementsLedger`, `Solvency` | shares, proofs, capacities, fee up to the reward | finitely many shares |
| `StratumClientProofs` | `TypeCorrect`, `OneJobStream`, `RegisteredOnlyOnce`, `AuthorizedSubmissions`, `NoLeakAfterClose`, `RepliesWhenDone`, `OneReply` | lines, messages, masks | absent masks are no sets of bits |
| `BlockPollerProofs` | `TypeCorrect`; `NothingMissed` and `SequentialPollsAdoptNewer` if `MaxInFlight <= 1` | days, crashes, slots | finitely many slots |
| `ClientRegistryProofs` | `TypeCorrect`, `NobodyForgotten` | clients, instances, crashes | instance 0 exists |
| `ShareDeliveryProofs` | `TypeCorrect`, `NoShareLostOrDoubled`, `RetriesNeverEnd` | threads, shares, troubles, retries | `NULL` is no share, retries are a number or -1 |
| `MinerWorkProofs` | `TypeCorrect`, `WorkFollows`, `NoDuplicates` | threads, lanes, jobs, reconnections, ranges of nonces | the margin is smaller than a range and holds the lanes once per job of one second |

Why the properties are not inductive by themselves, and what `IInv` adds:

`MiningJobsProofs` (`ConnectionInv`, `WorkInv`, `NoDuplicates`): the replayed
template is stored and on the current hash, its interval is not after the current
one, a pending skip while connected means that the last emission was at the
current interval (so the next block clears instead of being skipped), and
without a replayed template nobody holds a job. Without these, a step from an
unreachable state could skip a block. The action property follows because a step
that clears without a new hash can only be the restart by a first subscriber,
when no one holds work.

`ProofSubmissionProofs`: which transactions of a share may still land. Before a
transfer is sent none is late and nothing is paid (`BeforePayment`), one that is
awaited is for a minted share and is the only one (`DuringPayment`), likewise one
that is late (`LatePayment`), and a call that is over awaits nothing
(`NeverSent`). It is needed because the late transfers of dead calls are in no
program counter any more. `Solvency` follows from the ledger: `LedgerSpec` implies
that each share is paid once at most and only if minted, so the transfers map
one to one into what was minted. A fee of 100 %, where nothing is transferred, is
covered.

`StratumClientProofs`: for each request where its handler may be (`PlaceInv`) and
how often it has replied (`ReplyInv`). `stratumInitialized` is set before the
await of `initStratum`, so one handler at most is ever inside it
(`SoleInitializer`) and no stream exists while one is; a `submit` that got past
its first check is in a connection that was authorized (`StreamInv`); after
`'close'` nobody awaits a write, so nobody can subscribe any more (`CloseInv`).

`BlockPollerProofs`: polls do not overlap (`Sequential`), so an answer is not older
than the hash it is compared with (`AnswersNotOlder`), and an interval is cleared
only when the known hash has moved on by a day or more; which interval that is does
not matter, since `NoHashMissed` counts them. Before the first answer
nothing is cleared (`BeforeFirst`). `MaxInFlight <= 1` is a hypothesis of these two
theorems, not of the module: no two polls are under way at once, of one interval
or of two. RPC within 10 s does not suffice for it around a midnight. With it, even the property that the run `poller_slow` violates is a
theorem, so overlapping polls are the only cause of that violation.

`ClientRegistryProofs`: a client waits at its own instance only (`AtHome`), batches
of one instance that overlap in time have no client in common
(`BatchesDisjoint`), a client that is not registered is nowhere (`OnePlace`), and
rows are of clients that were written (`RowsWritten`).

`ShareDeliveryProofs`: the queue holds found shares, each once (`QueueInv`), a new
share has a new id (`FreshInv`), `workio_thread` has a share exactly while it works
on one (`CmdInv`), no share is in two places (`Apart`) or in none (`Somewhere`), and
with unlimited retries nobody has queued the `NULL` that ends the thread
(`RetryInv`).

`MinerWorkProofs`: work is generated in an order (session, then job, then
extranonce2), every thread's work is `g_work` or older (`OrderInv`), and the thread
that found a share is past it or has later work (`SeenInv`). The ranges need
`NonceInv`. A thread at the end of its range regenerates, and normally starts its
range again; but if a job of the same second has arrived that no work was made from,
the new work has the same bytes 43 to 75, and the thread scans on past the end by
up to `Lanes` nonces. Each such job can do this once, to each thread: `Spent`
counts the jobs of that second already used, and `Lanes` times their number stays
within `Margin`. `JobInv` and `LockInv` say how job, `g_work` and the lock go
together, `FollowInv` is `WorkFollowsJob` extended to the restart of the threads,
with its exception for a job of an earlier session.

Only model-checked: liveness (`EveryMinerGetsWork`, `PoolCatchesUp`, `HandlersEnd`,
`StreamReleased`, `ThreadsFollow`, `SharesResolved`, `GivingUpEnds`,
`ResetHonoured`, `NoGhosts`, `RowsPurged`), because fairness is beyond the prover;
and the violations.

## 5. Not modelled

The REST API and its cache, the tables of statistics, blocks and settings (single
SQL statements, the writing ones unused by the pool), the BTCPay service (injected
nowhere, stateless), bootstrap and configuration, scripts and validator data.
Difficulty arithmetic is floating point and decides nothing in the pool. Of
message validation only the outcomes are modelled.

Of `cpuminer-multi`, by far the most lines of the repository (121,000 of C) are
hash functions of other currencies (`sha3`, `crypto`, `algo`: tables and unrolled
rounds), compatibility headers and a JSON library. Only `scanhash_sha256d` is
called (`cpu-miner.c:1891`), and a hash function has no states for a model
checker: a model of it could only repeat it. So the models cover a small share of
those lines, and the part of them that decides something: the threads, the
connection, the queue and the ranges of nonces. In them the following is left
out: getwork, getblocktemplate, long polling, JSON-RPC 2 and the benchmark (other
modes), `opt_randomize`, the time limit and `wanna_mine` (options that are off),
share difficulty and statistics, `client.reconnect` and `mining.set_extranonce`
(this pool sends neither), a line of which only a part was sent, and a socket
number that is reused by another connection.

## 6. Plan

Done: the pool's core modules, the client registry, the miner's work and its
delivery of shares, their runs; the proofs of every invariant that the runs check.
Next, in this order:

1. `MiningJobs`: `NewBlockClearsJobs` under the hypothesis that no tick was skipped
   since the last emission, as `SequentialPollsAdoptNewer` does for the poller: that
   the skipped tick is the only cause of the violation.
2. `StratumEncoding`: version masks as bit vectors, `reverseHexString` and
   `swapEndianWords` of `MiningJob`, the framing of lines in the data handler and
   in `stratum_recv_line`, each against a reference definition.
3. `Pool`: the poller, the pipeline and a connection composed, with the share's
   path from `mining.notify` to `verifyProof`: which shares are refused for a
   hash that changed under way, and the payout address under re-authorization.
