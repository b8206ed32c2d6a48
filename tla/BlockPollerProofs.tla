------------------------- MODULE BlockPollerProofs --------------------------
(***************************************************************************)
(* How the poller follows the valid hash, for any number of days, crashes  *)
(* and slots.                                                              *)
(*                                                                         *)
(* TypeOK holds however slow the chain answers.  That no hash is missed    *)
(* needs polls that do not overlap, of one interval or of two (MaxInFlight *)
(* <= 1): then an answer is never older than the hash it is compared with, *)
(* so an interval that is cleared has made the known hash newer by a day   *)
(* at least.  Before the first answer nothing is cleared, and the          *)
(* intervals started since the boot make up for an answer that is old when *)
(* it arrives.                                                             *)
(***************************************************************************)
EXTENDS BlockPoller, FiniteSetTheorems, TLAPS

InFlight(s) == polls[s].pc \in {"asked", "answered"}

\* Polls do not overlap.
Sequential == \A s, t \in Slots : InFlight(s) /\ InFlight(t) => s = t

\* An answer that waits to be compared is not older than the hash known.
AnswersNotOlder ==
  \A s \in Slots : polls[s].pc = "answered" /\ blockHash # NoHash => polls[s].hash >= blockHash

\* Before the first answer is adopted, every interval since the boot still runs.
BeforeFirst ==
  blockHash = NoHash =>
    /\ \A s \in Slots : polls[s].pc # "collect"
    /\ \A s \in Slots : polls[s].pc = "answered"
                          => polls[s].hash + Cardinality(running) + bootLag > day
    /\ height + Cardinality(running) + bootLag > day

IInv == TypeOK /\ Sequential /\ AnswersNotOlder /\ BeforeFirst /\ NoHashMissed

-----------------------------------------------------------------------------
(* Types.                                                                  *)

PollStates == {"idle", "asked", "answered", "collect"}
Polls(d, h) == [pc : PollStates, poller : 0 .. d, hash : 0 .. h]

\* The states of a poll, with later days and higher hashes.
LEMMA PollsGrow ==
  ASSUME NEW d \in Nat, NEW h \in Nat, NEW e \in Nat, NEW g \in Nat, d <= e, h <= g
  PROVE  Polls(d, h) \subseteq Polls(e, g)
<1>1. 0 .. d \subseteq 0 .. e /\ 0 .. h \subseteq 0 .. g
  OBVIOUS
<1> QED BY <1>1 DEF Polls

LEMMA TypeInit == Init => TypeOK
<1> SUFFICES ASSUME Init PROVE TypeOK
  OBVIOUS
<1>1. day \in Days /\ day \in Nat /\ height = 0
  BY BoundAssumption DEF Init, Days
<1>2. Idle \in Polls(day, height)
  BY <1>1 DEF Idle, Polls, PollStates
<1>3. polls \in [Slots -> Polls(day, height)]
  BY <1>2 DEF Init
<1> QED BY <1>1, <1>3, BoundAssumption DEF Init, TypeOK, Polls, PollStates, NoHash

\* What TypeOK says, with the names used below.
LEMMA TypeFacts ==
  ASSUME TypeOK
  PROVE  /\ day \in Nat /\ day <= MaxDay /\ height \in Nat /\ height <= day
         /\ blockHash \in Int /\ -1 <= blockHash /\ blockHash <= height
         /\ running \subseteq 0 .. day
         /\ polls \in [Slots -> Polls(day, height)]
         /\ crashes \in 0 .. MaxCrashes /\ bootLag \in 0 .. day
BY BoundAssumption DEF TypeOK, Days, NoHash, Polls, PollStates

LEMMA TypeNext == TypeOK /\ [Next]_vars => TypeOK'
<1> SUFFICES ASSUME TypeOK, [Next]_vars PROVE TypeOK'
  OBVIOUS
<1> USE TypeFacts
<1> DEFINE New ==
               /\ day' \in Nat /\ day' <= MaxDay /\ height' \in Nat /\ height' <= day'
               /\ blockHash' \in Int /\ -1 <= blockHash' /\ blockHash' <= height'
               /\ running' \subseteq 0 .. day'
               /\ polls' \in [Slots -> Polls(day', height')]
               /\ crashes' \in 0 .. MaxCrashes /\ bootLag' \in 0 .. day'
<1>1. New => TypeOK'
  BY BoundAssumption DEF TypeOK, Days, NoHash, Polls, PollStates
<1> SUFFICES New
  BY <1>1
<1>2. Idle \in Polls(day, height)
  BY DEF Idle, Polls, PollStates
<1>3. CASE Advance
  <2>1. Polls(day, height) \subseteq Polls(day', height')
    BY <1>3, PollsGrow DEF Advance
  <2> QED BY <1>3, <2>1 DEF Advance
<1>4. CASE Midnight
  <2>1. Polls(day, height) \subseteq Polls(day', height')
    BY <1>4, PollsGrow DEF Midnight
  <2>2. day' \in Nat /\ day' <= MaxDay /\ running' \subseteq 0 .. day'
    BY <1>4, BoundAssumption DEF Midnight
  <2> QED BY <1>4, <2>1, <2>2 DEF Midnight
<1>5. ASSUME NEW s \in Slots, PollStep(s) PROVE New
  <2>0. polls[s] \in Polls(day, height)
    OBVIOUS
  <2>1. ASSUME NEW p \in Days, Fire(p, s) PROVE New
    <3>1. [pc |-> "asked", poller |-> p, hash |-> 0] \in Polls(day, height)
      BY <2>1 DEF Fire, Polls, PollStates
    <3> QED BY <2>1, <3>1 DEF Fire
  <2>2. CASE Answer(s)
    <3>1. polls' \in [Slots -> Polls(day, height)]
      <4> DEFINE f == [polls EXCEPT ![s].pc = "answered"]
      <4>1. f \in [Slots -> Polls(day, height)]
        BY DEF Polls, PollStates
      <4>2. polls' = [f EXCEPT ![s].hash = height]
        BY <2>2 DEF Answer
      <4> HIDE DEF f
      <4> QED BY <4>1, <4>2 DEF Polls
    <3> QED BY <2>2, <3>1 DEF Answer
  <2>3. CASE Adopt(s)
    <3>1. polls' \in [Slots -> Polls(day, height)]
      <4>1. polls' = [polls EXCEPT ![s].pc = "collect"]
        BY <2>3 DEF Adopt
      <4> QED BY <4>1 DEF Polls, PollStates
    <3>2. blockHash' \in 0 .. height
      BY <2>0, <2>3 DEF Adopt, Polls
    <3> QED BY <2>3, <3>1, <3>2 DEF Adopt
  <2>4. CASE Ignore(s)
    BY <1>2, <2>4 DEF Ignore
  <2>5. CASE Collected(s)
    BY <1>2, <2>5 DEF Collected
  <2> QED BY <1>5, <2>1, <2>2, <2>3, <2>4, <2>5 DEF PollStep
<1>6. ASSUME NEW s \in Slots, Crash(s) PROVE New
  <2>1. crashes' \in 0 .. MaxCrashes /\ bootLag' \in 0 .. day'
    BY <1>6, BoundAssumption DEF Crash
  <2>2. polls' \in [Slots -> Polls(day', height')]
    BY <1>2, <1>6 DEF Crash
  <2> QED BY <1>6, <2>1, <2>2 DEF Crash, NoHash
<1>7. CASE UNCHANGED vars
  BY <1>7 DEF vars
<1> QED BY <1>3, <1>4, <1>5, <1>6, <1>7 DEF Next

\* The fields of the poller keep their types, however slow the chain answers: the
\* pool never knows a hash that the chain has not produced.
THEOREM TypeCorrect == Spec => []TypeOK
BY TypeInit, TypeNext, PTL DEF Spec

-----------------------------------------------------------------------------
(* No hash is missed.                                                      *)

Collecting == {polls[s].poller : s \in {t \in Slots : polls[t].pc = "collect"}}

LEMMA ActiveFinite ==
  ASSUME TypeOK
  PROVE  /\ IsFiniteSet(running) /\ Cardinality(running) \in Nat
         /\ IsFiniteSet(Active) /\ Cardinality(Active) \in Nat
<1>1. IsFiniteSet(0 .. day)
  BY FS_Interval, TypeFacts
<1>2. IsFiniteSet(running)
  BY <1>1, FS_Subset, TypeFacts
<1>3. IsFiniteSet(Active)
  BY <1>2, FS_Subset DEF Active
<1> QED BY <1>2, <1>3, FS_CardinalityType

\* Polls that do not begin or end to collect leave the active intervals alone.
LEMMA CollectingUndisturbed ==
  ASSUME \A t \in Slots : /\ polls'[t].pc = "collect" <=> polls[t].pc = "collect"
                          /\ polls[t].pc = "collect" => polls'[t] = polls[t]
  PROVE  Collecting' = Collecting
BY DEF Collecting

\* The first answer, and every later one that is newer, pays for the interval it
\* is going to clear.
LEMMA AdoptKeeps ==
  ASSUME IInv, TypeOK', NEW s \in Slots, Adopt(s)
  PROVE  IInv'
<1> USE TypeFacts, ActiveFinite
<1> DEFINE p == polls[s].poller
           h == polls[s].hash
<1>1. TypeOK /\ Sequential /\ AnswersNotOlder /\ BeforeFirst /\ NoHashMissed
  BY DEF IInv
<1>2. p \in 0 .. day /\ h \in 0 .. height /\ polls[s].pc = "answered"
  BY <1>1 DEF Polls, Adopt
<1>3. /\ polls'[s].pc = "collect" /\ polls'[s].poller = p
      /\ \A t \in Slots : t # s => polls'[t] = polls[t]
  BY <1>1 DEF Adopt, Polls
<1>4. /\ blockHash' = h /\ blockHash' # NoHash
      /\ UNCHANGED <<height, day, running, crashes, bootLag>>
  BY <1>2 DEF Adopt, NoHash
<1>5. \A t \in Slots : t # s => polls[t].pc \notin {"asked", "answered"}
  BY <1>1, <1>2 DEF Sequential, InFlight
<1>6. Sequential' /\ AnswersNotOlder' /\ BeforeFirst'
  BY <1>3, <1>4, <1>5 DEF Sequential, InFlight, AnswersNotOlder, BeforeFirst, NoHash
<1>7. Active' = Active \ {p}
  <2>1. Collecting' = Collecting \cup {p}
    BY <1>2, <1>3 DEF Collecting
  <2>2. Active = running \ Collecting /\ Active' = running' \ Collecting'
    BY DEF Active, Collecting
  <2> QED BY <1>4, <2>1, <2>2
<1>8. Cardinality(Active') \in Nat /\ Cardinality(Active') >= Cardinality(Active) - 1
  <2>1. /\ IsFiniteSet(Active \ {p})
        /\ Cardinality(Active \ {p}) = IF p \in Active THEN Cardinality(Active) - 1
                                                     ELSE Cardinality(Active)
    BY <1>1, FS_RemoveElement
  <2>2. Cardinality(Active \ {p}) \in Nat
    BY <2>1, FS_CardinalityType
  <2> QED BY <1>1, <1>7, <2>1, <2>2
<1>9. NoHashMissed'
  <2>1. CASE blockHash = NoHash
    <3>1. Collecting = {}
      BY <1>1, <2>1 DEF BeforeFirst, Collecting
    <3>2. Active = running
      BY <3>1 DEF Active, Collecting
    <3>3. h + Cardinality(running) + bootLag > day
      BY <1>1, <1>2, <2>1 DEF BeforeFirst
    <3> QED BY <1>1, <1>2, <1>4, <1>8, <3>2, <3>3 DEF NoHashMissed
  <2>2. CASE blockHash # NoHash
    <3>1. h > blockHash
      BY <1>1, <1>2, <2>2 DEF Adopt, IsNewHash, AnswersNotOlder, NoHash
    <3>2. blockHash + Cardinality(Active) + bootLag >= day
      BY <1>1, <2>2 DEF NoHashMissed
    <3> QED BY <1>1, <1>2, <1>4, <1>8, <3>1, <3>2 DEF NoHashMissed
  <2> QED BY <2>1, <2>2
<1> QED BY <1>6, <1>9 DEF IInv

LEMMA InitIInv == Init => IInv
<1> SUFFICES ASSUME Init PROVE IInv
  OBVIOUS
<1>1. TypeOK
  BY TypeInit
<1>2. \A s \in Slots : polls[s].pc = "idle"
  BY DEF Init, Idle
<1>3. Active = {0} /\ running = {0}
  BY <1>2 DEF Init, Active
<1>4. Cardinality({0}) = 1
  BY FS_Singleton
<1>5. BeforeFirst /\ NoHashMissed
  BY <1>1, <1>2, <1>3, <1>4, TypeFacts DEF Init, BeforeFirst, NoHashMissed
<1>6. Sequential /\ AnswersNotOlder
  BY <1>2 DEF Sequential, InFlight, AnswersNotOlder
<1> QED BY <1>1, <1>5, <1>6 DEF IInv

\* A step of polls that adopts nothing and clears nothing.
LEMMA QuietPoll ==
  ASSUME IInv, TypeOK', UNCHANGED <<day, blockHash, running, bootLag>>,
         height' = height, NEW s \in Slots,
         \A t \in Slots : t # s => polls'[t] = polls[t],
         polls[s].pc # "collect", polls'[s].pc # "collect",
         polls'[s].pc \in {"asked", "answered"} =>
           \A t \in Slots : t # s => polls[t].pc \notin {"asked", "answered"},
         polls'[s].pc = "answered" => polls'[s].hash = height
  PROVE  IInv'
<1> USE TypeFacts, ActiveFinite
<1>1. TypeOK /\ Sequential /\ AnswersNotOlder /\ BeforeFirst /\ NoHashMissed
  BY DEF IInv
<1>2. Sequential'
  BY <1>1 DEF Sequential, InFlight
<1>3. AnswersNotOlder'
  BY <1>1 DEF AnswersNotOlder
<1>4. BeforeFirst'
  BY <1>1 DEF BeforeFirst
<1>5. Active' = Active
  <2>1. Collecting' = Collecting
    BY CollectingUndisturbed
  <2> QED BY <2>1 DEF Active, Collecting
<1>6. NoHashMissed'
  BY <1>1, <1>5 DEF NoHashMissed
<1> QED BY <1>2, <1>3, <1>4, <1>6 DEF IInv

LEMMA NextIInv ==
  ASSUME MaxInFlight <= 1, IInv, [Next]_vars
  PROVE  IInv'
<1> USE TypeFacts, ActiveFinite
<1>1. TypeOK /\ Sequential /\ AnswersNotOlder /\ BeforeFirst /\ NoHashMissed
  BY DEF IInv
<1>2. TypeOK'
  BY <1>1, TypeNext
<1>3. CASE Advance
  <2>1. Active' = Active
    BY <1>3 DEF Advance, Active
  <2>2. NoHashMissed'
    BY <1>1, <1>3, <2>1 DEF Advance, NoHashMissed
  <2>3. Sequential' /\ AnswersNotOlder' /\ BeforeFirst'
    BY <1>1, <1>3 DEF Advance, Sequential, InFlight, AnswersNotOlder, BeforeFirst
  <2> QED BY <1>2, <2>2, <2>3 DEF IInv
<1>4. CASE Midnight
  <2>1. day + 1 \notin running /\ day + 1 \notin Collecting
    <3>1. \A s \in Slots : polls[s].poller \in 0 .. day
      BY <1>1 DEF Polls
    <3> QED BY <1>1, <3>1 DEF Collecting
  <2>2. Active' = Active \cup {day + 1}
    BY <1>4, <2>1 DEF Midnight, Active, Collecting
  <2>3. Cardinality(Active') = Cardinality(Active) + 1
    BY <1>1, <2>1, <2>2, FS_AddElement DEF Active
  <2>4. Cardinality(running') = Cardinality(running) + 1
    BY <1>1, <1>4, <2>1, FS_AddElement DEF Midnight
  <2>5. NoHashMissed'
    BY <1>1, <1>4, <2>3 DEF Midnight, NoHashMissed
  <2>6. BeforeFirst'
    <3>1. \A s \in Slots : polls[s].hash \in Nat
      BY <1>1 DEF Polls
    <3> QED BY <1>1, <1>4, <2>4, <3>1 DEF Midnight, BeforeFirst
  <2>7. Sequential' /\ AnswersNotOlder'
    BY <1>1, <1>4 DEF Midnight, Sequential, InFlight, AnswersNotOlder
  <2> QED BY <1>2, <2>5, <2>6, <2>7 DEF IInv
<1>5. ASSUME NEW s \in Slots, NEW p \in Days, Fire(p, s) PROVE IInv'
  <2>1. \A t \in Slots : polls[t].pc \notin {"asked", "answered"}
    <3> DEFINE F == Waiting(Days)
    <3>1. IsFiniteSet(F)
      BY BoundAssumption, FS_Subset DEF Waiting
    <3>2. Cardinality(F) \in Nat /\ Cardinality(F) < MaxInFlight
      BY <1>5, <3>1, FS_CardinalityType DEF Fire
    <3>3. Cardinality(F) = 0
      BY <3>2, BoundAssumption
    <3>4. F = {}
      BY <3>1, <3>3, FS_EmptySet
    <3>5. \A t \in Slots : polls[t].poller \in Days
      BY <1>1, BoundAssumption DEF Polls, Days
    <3> QED BY <3>4, <3>5 DEF Waiting
  <2>2. /\ polls[s].pc = "idle" /\ polls'[s].pc = "asked"
        /\ \A t \in Slots : t # s => polls'[t] = polls[t]
    BY <1>1, <1>5 DEF Fire
  <2> QED BY <1>2, <1>5, <2>1, <2>2, QuietPoll DEF Fire
<1>6. ASSUME NEW s \in Slots, Answer(s) PROVE IInv'
  <2>1. \A t \in Slots : t # s => polls[t].pc \notin {"asked", "answered"}
    BY <1>1, <1>6 DEF Answer, Sequential, InFlight
  <2>2. /\ polls[s].pc = "asked" /\ polls'[s].pc = "answered" /\ polls'[s].hash = height
        /\ \A t \in Slots : t # s => polls'[t] = polls[t]
    BY <1>1, <1>6 DEF Answer, Polls
  <2> QED BY <1>2, <1>6, <2>1, <2>2, QuietPoll DEF Answer
<1>7. ASSUME NEW s \in Slots, Ignore(s) PROVE IInv'
  <2>1. /\ polls[s].pc = "answered" /\ polls'[s].pc = "idle"
        /\ \A t \in Slots : t # s => polls'[t] = polls[t]
    BY <1>1, <1>7 DEF Ignore, Idle
  <2> QED BY <1>2, <1>7, <2>1, QuietPoll DEF Ignore
<1>8. ASSUME NEW s \in Slots, Collected(s) PROVE IInv'
  <2> DEFINE p == polls[s].poller
  <2>1. /\ polls[s].pc = "collect" /\ polls'[s].pc = "idle"
        /\ \A t \in Slots : t # s => polls'[t] = polls[t]
        /\ running' = running \ {p} /\ blockHash # NoHash
        /\ UNCHANGED <<height, day, blockHash, crashes, bootLag>>
    BY <1>1, <1>8 DEF Collected, Idle, BeforeFirst
  <2>2. Active' = Active
    <3>1. Collecting' \cup {p} = Collecting
      BY <2>1 DEF Collecting
    <3>2. Active = running \ Collecting /\ Active' = running' \ Collecting'
      BY DEF Active, Collecting
    <3> QED BY <2>1, <3>1, <3>2
  <2>3. NoHashMissed'
    BY <1>1, <2>1, <2>2 DEF NoHashMissed
  <2>4. Sequential' /\ AnswersNotOlder' /\ BeforeFirst'
    BY <1>1, <2>1 DEF Sequential, InFlight, AnswersNotOlder, BeforeFirst
  <2> QED BY <1>2, <2>3, <2>4 DEF IInv
<1>9. ASSUME NEW s \in Slots, Crash(s) PROVE IInv'
  <2>1. \A t \in Slots : polls'[t].pc = "idle"
    BY <1>9 DEF Crash, Idle
  <2>2. Active' = {0} /\ running' = {0}
    BY <1>9, <2>1 DEF Crash, Active
  <2>3. Cardinality({0}) = 1
    BY FS_Singleton
  <2>4. NoHashMissed' /\ BeforeFirst'
    BY <1>1, <1>9, <2>1, <2>2, <2>3 DEF Crash, NoHashMissed, BeforeFirst
  <2>5. Sequential' /\ AnswersNotOlder'
    BY <2>1 DEF Sequential, InFlight, AnswersNotOlder
  <2> QED BY <1>2, <2>4, <2>5 DEF IInv
<1>10. CASE UNCHANGED vars
  BY <1>1, <1>2, <1>10
  DEF vars, IInv, Sequential, InFlight, AnswersNotOlder, BeforeFirst, NoHashMissed, Active
<1> QED BY <1>2, <1>3, <1>4, <1>5, <1>6, <1>7, <1>8, <1>9, <1>10, AdoptKeeps DEF Next, PollStep

\* Polls that do not overlap: the intervals that run make up for all hashes that
\* the pool has yet to learn of, over any number of midnights and crashes.
THEOREM NothingMissed ==
  ASSUME MaxInFlight <= 1
  PROVE  Spec => []NoHashMissed
<1>1. IInv /\ [Next]_vars => IInv'
  BY NextIInv
<1>2. IInv => NoHashMissed
  BY DEF IInv
<1> QED BY InitIInv, <1>1, <1>2, PTL DEF Spec

\* Polls that do not overlap: only a newer hash replaces blockHash and ends the
\* polling, as the comment in the code says.  The run in which it fails has two
\* polls under way; this shows that the overlap is the only cause.
THEOREM SequentialPollsAdoptNewer ==
  ASSUME MaxInFlight <= 1
  PROVE  Spec => OnlyNewHashEndsPolling
<1> DEFINE A == blockHash' # blockHash /\ crashes' = crashes => blockHash' > blockHash
<1>1. IInv /\ [Next]_vars => IInv'
  BY NextIInv
<1>2. IInv /\ [Next]_vars => [A]_vars
  <2> SUFFICES ASSUME IInv, Next, blockHash' # blockHash, crashes' = crashes
               PROVE  blockHash' > blockHash
    OBVIOUS
  <2>1. TypeOK /\ AnswersNotOlder
    BY DEF IInv
  <2>2. ~\E s \in Slots : Crash(s)
    BY <2>1, TypeFacts DEF Crash
  <2>3. PICK s \in Slots : Adopt(s)
    BY <2>2 DEF Next, PollStep, Advance, Midnight, Fire, Answer, Ignore, Collected
  <2>4. polls[s].hash \in 0 .. height /\ polls[s].pc = "answered" /\ blockHash' = polls[s].hash
    BY <2>1, <2>3, TypeFacts DEF Adopt, Polls
  <2>5. blockHash = NoHash \/ polls[s].hash >= blockHash
    BY <2>1, <2>4 DEF AnswersNotOlder
  <2> QED BY <2>1, <2>4, <2>5, TypeFacts DEF NoHash
<1> QED BY InitIInv, <1>1, <1>2, PTL DEF Spec, OnlyNewHashEndsPolling
=============================================================================
