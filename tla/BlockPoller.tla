---------------------------- MODULE BlockPoller -----------------------------
(***************************************************************************)
(* How ComptoRpcService follows the valid block hash of the chain.         *)
(*                                                                         *)
(* pollMiningInfo, called at startup and at every midnight UTC, starts a   *)
(* 10 s interval.  Every firing asks the comptoken program for the valid   *)
(* hash (getMiningInfo); an answer that differs from blockHash replaces it *)
(* and announces it on newBlock$, collects the user data, and only then    *)
(* stops the interval.  Firings do not wait for each other.  An error of   *)
(* getMiningInfo is rethrown into the timer callback, where nobody catches *)
(* it: the process dies and is started again.                              *)
(*                                                                         *)
(* Hashes are numbered by the day that they are for, so that the order in  *)
(* which the chain produced them can be compared.                          *)
(***************************************************************************)
EXTENDS Integers, FiniteSets

CONSTANTS
  MaxDay,          \* bound: midnights after the first boot
  Slots,           \* bound: polls a process can have under way at once
  MaxPerInterval,  \* polls of one interval that may wait for an answer at once:
                   \* 1 if every poll is answered within 10 s
  MaxInFlight,     \* polls of all intervals that may wait for an answer at once
  MaxCrashes       \* bound: failing polls

ASSUME BoundAssumption ==
  /\ MaxDay \in Nat /\ MaxCrashes \in Nat /\ IsFiniteSet(Slots)
  /\ MaxPerInterval \in Nat /\ MaxInFlight \in Nat

VARIABLES
  height,     \* chain: number of the hash that is valid now
  day,        \* midnights so far
  blockHash,  \* blockHash of the service, NoHash while undefined
  running,    \* intervals that are not cleared, named by the day they started
  polls,      \* slot -> the state of one call of _pollMiningInfo
  crashes,
  bootLag     \* days by which the chain was behind when the process started

vars == <<height, day, blockHash, running, polls, crashes, bootLag>>

NoHash == -1
Days == 0 .. MaxDay
Idle == [pc |-> "idle", poller |-> 0, hash |-> 0]

Init ==
  /\ height = 0 /\ day \in {0, 1} \cap Days
  /\ bootLag = day - height
  /\ blockHash = NoHash
  /\ running = {0}                   \* pollMiningInfo of onModuleInit
  /\ polls = [s \in Slots |-> Idle]
  /\ crashes = 0

-----------------------------------------------------------------------------
(* The chain (external): a day's hash appears at some time after midnight. *)

Advance ==
  /\ height < day
  /\ height' = height + 1
  /\ UNCHANGED <<day, blockHash, running, polls, crashes, bootLag>>

-----------------------------------------------------------------------------
(* The service.                                                            *)

\* Mutant of Answer: the hash announced for the next day, not the valid one, is
\* taken from the result.
AnswerAnnounced(s) ==
  /\ polls[s].pc = "asked"
  /\ polls' = [polls EXCEPT ![s].pc = "answered", ![s].hash = height + 1]
  /\ UNCHANGED <<height, day, blockHash, running, crashes, bootLag>>

\* getMiningInfo: syncValidBlockhashes is executed and the valid hash taken from
\* its result; the answer is on its way.
Answer(s) ==
  /\ polls[s].pc = "asked"
  /\ polls' = [polls EXCEPT ![s].pc = "answered", ![s].hash = height]
  /\ UNCHANGED <<height, day, blockHash, running, crashes, bootLag>>

\* The timeout of onModuleInit, then its 24 h interval: pollMiningInfo.
Midnight ==
  /\ day < MaxDay
  /\ day' = day + 1
  /\ running' = running \cup {day + 1}
  /\ UNCHANGED <<height, blockHash, polls, crashes, bootLag>>

\* The polls of some intervals that wait for an answer.
Waiting(ps) == {t \in Slots : polls[t].pc \in {"asked", "answered"} /\ polls[t].poller \in ps}

\* A 10 s interval fires, whether or not earlier polls are done, its own or those
\* of another interval.
Fire(p, s) ==
  /\ p \in running
  /\ polls[s].pc = "idle"
  /\ Cardinality(Waiting({p})) < MaxPerInterval
  /\ Cardinality(Waiting(Days)) < MaxInFlight
  /\ polls' = [polls EXCEPT ![s] = [pc |-> "asked", poller |-> p, hash |-> 0]]
  /\ UNCHANGED <<height, day, blockHash, running, crashes, bootLag>>

\* Mutant of IsNewHash: a hash is adopted only if none was known.
IsFirstHash(h) == blockHash = NoHash

\* The condition under which _pollMiningInfo adopts an answer.
IsNewHash(h) == blockHash = NoHash \/ h # blockHash

\* A poll returns another hash: _newBlock$.next, blockHash, updateUserData.
Adopt(s) ==
  /\ polls[s].pc = "answered"
  /\ IsNewHash(polls[s].hash)
  /\ blockHash' = polls[s].hash
  /\ polls' = [polls EXCEPT ![s].pc = "collect"]
  /\ UNCHANGED <<height, day, running, crashes, bootLag>>

\* A poll returns the hash that is known: the interval goes on.
Ignore(s) ==
  /\ polls[s].pc = "answered"
  /\ ~IsNewHash(polls[s].hash)
  /\ polls' = [polls EXCEPT ![s] = Idle]
  /\ UNCHANGED <<height, day, blockHash, running, crashes, bootLag>>

\* Mutant of Collected: whoever collects stops every interval.
CollectedStopsAll(s) ==
  /\ polls[s].pc = "collect"
  /\ polls' = [polls EXCEPT ![s] = Idle]
  /\ running' = {}
  /\ UNCHANGED <<height, day, blockHash, crashes, bootLag>>

\* updateUserData succeeds, or logs its error: the poll's interval is cleared.
Collected(s) ==
  /\ polls[s].pc = "collect"
  /\ polls' = [polls EXCEPT ![s] = Idle]
  /\ running' = running \ {polls[s].poller}
  /\ UNCHANGED <<height, day, blockHash, crashes, bootLag>>

\* getMiningInfo rethrows: the process ends and onModuleInit runs again.
Crash(s) ==
  /\ polls[s].pc = "asked"
  /\ crashes < MaxCrashes
  /\ crashes' = crashes + 1
  /\ blockHash' = NoHash
  /\ running' = {0}
  /\ polls' = [t \in Slots |-> Idle]
  /\ bootLag' = day - height
  /\ UNCHANGED <<height, day>>

PollStep(s) ==
  \/ \E p \in Days : Fire(p, s)
  \/ Answer(s)
  \/ Adopt(s) \/ Ignore(s) \/ Collected(s)

Next ==
  \/ Advance \/ Midnight
  \/ \E s \in Slots : PollStep(s) \/ Crash(s)

Spec == Init /\ [][Next]_vars

\* Each interval keeps firing (a Node timer; polls come back, so slots free up
\* again and again), and calls to the chain return.
FairSpec ==
  /\ Spec
  /\ \A p \in Days : SF_vars(\E s \in Slots : Fire(p, s))
  /\ \A s \in Slots : WF_vars(Answer(s) \/ Adopt(s) \/ Ignore(s) \/ Collected(s))

-----------------------------------------------------------------------------
(* What is checked.                                                        *)

\* The fields of the poller: the pool never knows a hash the chain has not
\* produced, and no interval is named after a day that has not come.
TypeOK ==
  /\ day \in Days /\ height \in 0 .. day
  /\ blockHash \in NoHash .. height
  /\ running \subseteq 0 .. day
  /\ polls \in [Slots -> [pc : {"idle", "asked", "answered", "collect"},
                          poller : 0 .. day, hash : 0 .. height]]
  /\ crashes \in 0 .. MaxCrashes
  /\ bootLag \in 0 .. day

\* Intervals that are not about to be cleared by a poll of theirs.
Active == running \ {polls[s].poller : s \in {t \in Slots : polls[t].pc = "collect"}}

\* There are as many intervals left as hashes that the pool has yet to learn of,
\* up to those the chain owed when the process started.  Which interval learns of
\* which hash is open: one may be cleared by the hash of another day, but each
\* clearInterval is paid for by a hash, however late hashes and answers are.
\* It needs polls that do not overlap, of one interval or of two.
NoHashMissed ==
  LET known == IF blockHash = NoHash THEN height - 1 ELSE blockHash
  IN  known + Cardinality(Active) + bootLag >= day

\* A pool that was not started between midnight and the hash of the day
\* learns of the hash that is valid, again and again.
PoolCatchesUp == []<>(blockHash = height \/ bootLag > 0)

\* "poll every 10 seconds until a new block hash is received": an answer that
\* replaces blockHash, and ends the polling, is newer than what it replaces.
\* Two polls under way at once break it: the older answer may come last.  One
\* poll of each of two intervals is enough, though each is answered within 10 s.
OnlyNewHashEndsPolling ==
  [][ blockHash' # blockHash /\ crashes' = crashes => blockHash' > blockHash ]_vars
=============================================================================
