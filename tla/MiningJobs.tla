----------------------------- MODULE MiningJobs -----------------------------
(***************************************************************************)
(* The job pipeline of the pool: StratumV1JobsService, fed by newBlock$ of *)
(* ComptoRpcService and by a 60 s interval, and the stratum clients that   *)
(* subscribe to it.                                                        *)
(*                                                                         *)
(* newMiningJob$ is combineLatest(newBlock$, interval startWith -1)        *)
(* followed by a stateful map, a tap and shareReplay(refCount, 1).  The    *)
(* pipeline runs synchronously: one new block, one tick or one first       *)
(* subscription is one step, in which the map decides what to emit, the    *)
(* tap stores the template, and every subscriber, in subscription order,   *)
(* adds a job of its own and sends it.  When the last subscriber leaves,   *)
(* the interval and the replayed template are dropped, while the fields    *)
(* of the service (lastIntervalCount, skipNext, the ids, jobs and blocks)  *)
(* survive until the next subscription starts the pipeline again.          *)
(***************************************************************************)
EXTENDS Integers, Sequences, FiniteSets, SequencesExt

CONSTANTS
  Clients,      \* stratum clients that may subscribe
  Hashes,       \* block hashes that the RPC poller may announce
  NoHash,       \* the empty Buffer newBlock$ starts with
  MaxInterval,  \* bound: last tick of one run of the interval
  MaxJobId      \* bound: job id from which no subscription or block is new

ASSUME HashAssumption == NoHash \notin Hashes
ASSUME BoundAssumption == MaxInterval \in Nat /\ MaxJobId \in Nat

VARIABLES
  blockHash,            \* value of _newBlock$ (and of blockHash, once set)
  subscribers,          \* clients subscribed to newMiningJob$, oldest first
  interval,             \* latest value of the interval of this connection
  lastIntervalCount,    \* interval of the last template that was emitted
  skipNext,             \* the next emission that is no new block is dropped
  latestJobId,
  latestJobTemplateId,
  jobs,                 \* job id -> id of its template
  blocks,               \* template id -> template
  replay,               \* id of the template shareReplay holds, or NoTemplate
  work                  \* client -> ids of the jobs sent to it (its view)

vars == <<blockHash, subscribers, interval, lastIntervalCount, skipNext,
          latestJobId, latestJobTemplateId, jobs, blocks, replay, work>>

NoCount == -2           \* lastIntervalCount is still undefined
NoTemplate == 0         \* nothing to replay; template ids start at 2

Templates == [hash : Hashes \cup {NoHash}, clearJobs : BOOLEAN]
Subscribed == {subscribers[k] : k \in DOMAIN subscribers}

Init ==
  /\ blockHash = NoHash
  /\ subscribers = <<>>
  /\ interval = -1
  /\ lastIntervalCount = NoCount
  /\ skipNext = FALSE
  /\ latestJobId = 1
  /\ latestJobTemplateId = 1
  /\ jobs = [j \in {} |-> NoTemplate]
  /\ blocks = [t \in {} |-> [hash |-> NoHash, clearJobs |-> FALSE]]
  /\ replay = NoTemplate
  /\ work = [c \in Clients |-> {}]

-----------------------------------------------------------------------------
(* The map and the tap of the pipeline, then the subscribers.              *)

\* Mutant of clearJobs: every refresh after the first invalidates prior work.
clearJobsOnRefresh(i) == lastIntervalCount # NoCount

\* An emission at the interval of the previous one can only be a new block.
clearJobs(i) == lastIntervalCount = i

\* Mutant of Skipped: the guard clearJobs == false is forgotten.
SkippedAlways(i) == skipNext

\* The emission after a new block is dropped, unless it is a new block itself.
Skipped(i) == skipNext /\ ~clearJobs(i)

\* Mutants of getNextId: one id for all subscribers; an id that is not counted.
getNextIdShared(k) == latestJobId + 1
getNextIdTwice(k) == latestJobId + k + 1

\* The id that the k-th of the calls of addJob in this step takes.
getNextId(k) == latestJobId + k

\* Mutant of KeptJobs: the tap resets blocks only.
KeptJobsForever(clear) == DOMAIN jobs

\* What the tap leaves of jobs.
KeptJobs(clear) == IF clear THEN {} ELSE DOMAIN jobs

\* sendNewMiningJob -> addJob, called by the clients of subs one after the
\* other on template tid; kept is what is left of the earlier jobs.
SendJobs(subs, tid, kept) ==
  /\ latestJobId' = latestJobId + Len(subs)
  /\ jobs' = [j \in kept \cup {getNextId(k) : k \in DOMAIN subs} |->
                IF j \in kept THEN jobs[j] ELSE tid]
  /\ work' = [c \in Clients |->
                work[c] \cup {getNextId(k) : k \in {n \in DOMAIN subs : subs[n] = c}}]

\* Mutant of Skip: skipNext is never reset.
SkipForever(i) ==
  /\ Skipped(i)
  /\ UNCHANGED <<skipNext, lastIntervalCount, latestJobId, latestJobTemplateId,
                 jobs, blocks, replay, work>>

\* The map returns null; lastIntervalCount keeps the interval before.
Skip(i) ==
  /\ Skipped(i)
  /\ skipNext' = FALSE
  /\ UNCHANGED <<lastIntervalCount, latestJobId, latestJobTemplateId, jobs,
                 blocks, replay, work>>

\* A template for hash h is stored and turned into one job per subscriber.
\* skipNext is set with clearJobs, and otherwise is FALSE already.
Publish(h, i, subs) ==
  LET clear == clearJobs(i)
      tid == latestJobTemplateId + 1
      kept == IF clear THEN {} ELSE DOMAIN blocks
  IN /\ ~Skipped(i)
     /\ skipNext' = clear
     /\ lastIntervalCount' = i
     /\ latestJobTemplateId' = tid
     /\ blocks' = [t \in kept \cup {tid} |->
                     IF t = tid THEN [hash |-> h, clearJobs |-> clear] ELSE blocks[t]]
     /\ replay' = tid
     /\ SendJobs(subs, tid, KeptJobs(clear))

\* Mutant of Emit: nothing is emitted before a first hash is known.
EmitKnownHash(h, i, subs) ==
  \/ /\ h = NoHash
     /\ UNCHANGED <<skipNext, lastIntervalCount, latestJobId, latestJobTemplateId,
                    jobs, blocks, replay, work>>
  \/ h # NoHash /\ (Skip(i) \/ Publish(h, i, subs))

\* One emission of combineLatest runs through map, filter and tap.
Emit(h, i, subs) == Skip(i) \/ Publish(h, i, subs)

-----------------------------------------------------------------------------
(* The steps.                                                              *)

\* The first subscriber connects the pipeline, which emits at interval -1.
SubscribeFirst(c) ==
  /\ subscribers = <<>>
  /\ latestJobId < MaxJobId
  /\ subscribers' = <<c>>
  /\ interval' = -1
  /\ Emit(blockHash, -1, <<c>>)
  /\ UNCHANGED blockHash

\* A later subscriber is given the replayed template, if there is one.
SubscribeLate(c) ==
  /\ subscribers # <<>> /\ c \notin Subscribed
  /\ latestJobId < MaxJobId
  /\ subscribers' = Append(subscribers, c)
  /\ IF replay = NoTemplate
       THEN UNCHANGED <<latestJobId, jobs, work>>
       ELSE SendJobs(<<c>>, replay, DOMAIN jobs)
  /\ UNCHANGED <<blockHash, interval, lastIntervalCount, skipNext,
                 latestJobTemplateId, blocks, replay>>

\* destroy() of a client; the last one disconnects the pipeline.
Unsubscribe(c) ==
  /\ \E k \in DOMAIN subscribers :
       /\ subscribers[k] = c
       /\ subscribers' = RemoveAt(subscribers, k)
  /\ work' = [work EXCEPT ![c] = {}]
  /\ IF subscribers' = <<>>
       THEN interval' = -1 /\ replay' = NoTemplate
       ELSE UNCHANGED <<interval, replay>>
  /\ UNCHANGED <<blockHash, lastIntervalCount, skipNext, latestJobId,
                 latestJobTemplateId, jobs, blocks>>

\* The interval of a connected pipeline ticks.
Tick ==
  /\ subscribers # <<>>
  /\ interval < MaxInterval
  /\ interval' = interval + 1
  /\ Emit(blockHash, interval + 1, subscribers)
  /\ UNCHANGED <<blockHash, subscribers>>

\* The poller announces another hash: newBlock$ emits when it has subscribers.
NewBlock(h) ==
  /\ h # blockHash
  /\ latestJobId < MaxJobId
  /\ blockHash' = h
  /\ IF subscribers = <<>>
       THEN UNCHANGED <<lastIntervalCount, skipNext, latestJobId,
                        latestJobTemplateId, jobs, blocks, replay, work>>
       ELSE Emit(h, interval, subscribers)
  /\ UNCHANGED <<subscribers, interval>>

Next ==
  \/ \E c \in Clients : SubscribeFirst(c) \/ SubscribeLate(c) \/ Unsubscribe(c)
  \/ Tick
  \/ \E h \in Hashes : NewBlock(h)

Spec == Init /\ [][Next]_vars

\* The interval of a connected pipeline keeps ticking: it is a Node timer.
FairSpec == Spec /\ WF_vars(Tick)

-----------------------------------------------------------------------------
(* What is checked.                                                        *)

\* The fields of the jobs service, and what its subscribers were sent: ids in
\* jobs and blocks never run ahead of the counters they were drawn from.
TypeOK ==
  /\ blockHash \in Hashes \cup {NoHash}
  /\ subscribers \in Seq(Clients)
  /\ interval \in Int /\ interval >= -1
  /\ lastIntervalCount \in Int
  /\ skipNext \in BOOLEAN
  /\ latestJobId \in Nat /\ latestJobTemplateId \in Nat
  /\ DOMAIN jobs \subseteq 1 .. latestJobId
  /\ DOMAIN blocks \subseteq 1 .. latestJobTemplateId
  /\ jobs \in [DOMAIN jobs -> Nat]
  /\ blocks \in [DOMAIN blocks -> Templates]
  /\ replay \in Nat
  /\ work \in [Clients -> SUBSET (1 .. latestJobId)]

\* The assertion 'Job template not found' of handleMiningSubmission cannot
\* fire: whatever job a miner submits, if getJobById finds it then
\* getJobTemplateById finds its template, across clears, replays and restarts
\* of the pipeline.
JobHasTemplate == \A j \in DOMAIN jobs : jobs[j] \in DOMAIN blocks

\* The newest job of every miner is stored and built on the hash that
\* verifyProof will use: the skip after a new block never swallows the
\* announcement of the next one, and a replayed template is never outdated.
NewestJobIsCurrent ==
  \A c \in Clients : \A j \in work[c] :
     \/ \E k \in work[c] : k > j
     \/ j \in DOMAIN jobs /\ blocks[jobs[j]].hash = blockHash

\* A subscriber lacks work only between the subscription that restarts the
\* pipeline (whose first emission skipNext may drop) and the first tick, which
\* then cannot be dropped too.
WorkAfterFirstTick ==
  \A c \in Subscribed : work[c] = {} => interval = -1 /\ ~skipNext

\* No job id is ever sent to two miners, even with ids that outlive the
\* subscriptions, so a share is looked up as the job of the miner it is for.
JobsAreExclusive ==
  \A c, d \in Clients : c # d => work[c] \cap work[d] = {}

\* What a connected miner was sent stays submittable until the hash changes:
\* clearJobs, also set when the pipeline restarts at the interval it stopped
\* at, never drops a job that a live miner holds.
OnlyNewBlockRevokesWork ==
  [][ blockHash' = blockHash =>
        \A c \in Subscribed : c \in Subscribed' =>
           (work[c] \cap DOMAIN jobs) \subseteq DOMAIN jobs' ]_vars

\* A client that stays subscribed is sent a job.
EveryMinerGetsWork ==
  \A c \in Clients : (c \in Subscribed) ~> (work[c] # {} \/ c \notin Subscribed)

\* The comment of handleMiningSubmission: jobs are "removed by a new block
\* notification".  The code breaks it: after one new block the tick is skipped
\* without recording its interval, so that a second new block in the skipped
\* interval is taken for a tick.
NewBlockClearsJobs ==
  [][ (blockHash' # blockHash /\ subscribers # <<>>) =>
        \A j \in DOMAIN jobs' : blocks'[jobs'[j]].hash = blockHash' ]_vars
=============================================================================
