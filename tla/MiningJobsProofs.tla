-------------------------- MODULE MiningJobsProofs --------------------------
(***************************************************************************)
(* Proofs about MiningJobs, for any set of clients and hashes and any      *)
(* bounds.                                                                 *)
(*                                                                         *)
(* The argument is about the replayed template.  While the pipeline is     *)
(* connected and has emitted, that template is stored and is built on the  *)
(* current hash; and a pending skip means that the last emission was at    *)
(* the current interval, so that a new block clears instead of being       *)
(* skipped.  While it has emitted nothing, nobody holds a job.             *)
(***************************************************************************)
EXTENDS MiningJobs, SequenceTheorems, TLAPS

ConnectionInv ==
  /\ subscribers = <<>> => replay = NoTemplate /\ interval = -1
  /\ subscribers # <<>> /\ skipNext => lastIntervalCount = interval
  /\ replay # NoTemplate => /\ replay \in DOMAIN blocks
                            /\ blocks[replay].hash = blockHash
                            /\ lastIntervalCount <= interval

\* Who holds work: subscribers, and those of a pipeline that has emitted.
WorkInv ==
  /\ \A c \in Clients : c \notin Subscribed => work[c] = {}
  /\ replay = NoTemplate => \A c \in Clients : work[c] = {}
  /\ replay # NoTemplate => \A c \in Subscribed : work[c] # {}
  /\ replay = NoTemplate /\ subscribers # <<>> => interval = -1 /\ ~skipNext

NoDuplicates ==
  \A k, l \in DOMAIN subscribers : subscribers[k] = subscribers[l] => k = l

IInv ==
  /\ TypeOK
  /\ JobHasTemplate
  /\ NoDuplicates
  /\ ConnectionInv
  /\ WorkInv
  /\ NewestJobIsCurrent
  /\ JobsAreExclusive

-----------------------------------------------------------------------------
\* What Unsubscribe does to the sequence of subscribers.
LEMMA RemoveAtProperties ==
  ASSUME NEW S, NEW s \in Seq(S), NEW k \in DOMAIN s
  PROVE  /\ RemoveAt(s, k) \in Seq(S)
         /\ Len(RemoveAt(s, k)) = Len(s) - 1
         /\ \A i \in 1 .. Len(s) - 1 :
              RemoveAt(s, k)[i] = IF i < k THEN s[i] ELSE s[i + 1]
<1> DEFINE a == SubSeq(s, 1, k - 1)
           b == SubSeq(s, k + 1, Len(s))
<1>1. k \in 1 .. Len(s) /\ Len(s) \in Nat /\ DOMAIN s = 1 .. Len(s)
  BY LenProperties
<1>2. /\ a \in Seq(S) /\ Len(a) = k - 1
      /\ \A i \in 1 .. k - 1 : a[i] = s[i]
  <2>1. CASE k = 1
    BY <2>1, <1>1, SubSeqProperties, EmptySeq
  <2>2. CASE k # 1
    BY <2>2, <1>1, SubSeqProperties
  <2> QED BY <2>1, <2>2
<1>3. /\ b \in Seq(S) /\ Len(b) = Len(s) - k
      /\ \A i \in 1 .. Len(s) - k : b[i] = s[k + i]
  <2>1. /\ SubSeq(s, k + 1, Len(s)) \in Seq(S)
        /\ Len(SubSeq(s, k + 1, Len(s))) = Len(s) - k
    BY <1>1, SubSeqProperties
  <2>2. \A i \in 1 .. Len(s) - k : b[i] = s[k + i]
    BY <1>1, SubSeqProperties
  <2> QED BY <2>1, <2>2
<1>4. RemoveAt(s, k) = a \o b
  BY DEF RemoveAt
<1> HIDE DEF a, b
<1>5. /\ a \o b \in Seq(S)
      /\ Len(a \o b) = Len(a) + Len(b)
      /\ \A i \in 1 .. Len(a) + Len(b) :
           (a \o b)[i] = IF i <= Len(a) THEN a[i] ELSE b[i - Len(a)]
  BY <1>2, <1>3, ConcatProperties, Zenon
<1>6. ASSUME NEW i \in 1 .. Len(s) - 1
      PROVE  (a \o b)[i] = IF i < k THEN s[i] ELSE s[i + 1]
  <2>1. i \in 1 .. Len(a) + Len(b)
    BY <1>1, <1>2, <1>3
  <2>2. (a \o b)[i] = IF i <= Len(a) THEN a[i] ELSE b[i - Len(a)]
    BY <2>1, <1>5
  <2> HIDE <1>5
  <2>3. CASE i < k
    BY <2>2, <2>3, <1>1, <1>2
  <2>4. CASE ~(i < k)
    <3>1. i - (k - 1) \in 1 .. Len(s) - k /\ k + (i - (k - 1)) = i + 1
      BY <2>4, <1>1
    <3>2. b[i - (k - 1)] = s[i + 1]
      BY <3>1, <1>3
    <3> QED BY <2>2, <2>4, <3>2, <1>1, <1>2
  <2> QED BY <2>3, <2>4
<1>7. Len(a \o b) = Len(s) - 1
  BY <1>1, <1>2, <1>3, <1>5
<1> QED BY <1>4, <1>5, <1>6, <1>7

-----------------------------------------------------------------------------
\* The jobs of subs take fresh ids, and each client is sent exactly its own.
LEMMA SendJobsProperties ==
  ASSUME TypeOK, NEW subs \in Seq(Clients), NEW tid \in Nat,
         NEW kept \in SUBSET DOMAIN jobs, SendJobs(subs, tid, kept)
  PROVE  /\ latestJobId' = latestJobId + Len(subs) /\ latestJobId' \in Nat
         /\ DOMAIN jobs' = kept \cup (latestJobId + 1 .. latestJobId')
         /\ \A j \in kept : jobs'[j] = jobs[j]
         /\ \A j \in latestJobId + 1 .. latestJobId' : jobs'[j] = tid
         /\ DOMAIN jobs' \subseteq 1 .. latestJobId'
         /\ jobs' \in [DOMAIN jobs' -> Nat]
         /\ work' \in [Clients -> SUBSET (1 .. latestJobId')]
         /\ \A c \in Clients : \A j :
              j \in work'[c] <=> \/ j \in work[c]
                                 \/ \E k \in DOMAIN subs : subs[k] = c /\ j = latestJobId + k
<1>1. Len(subs) \in Nat /\ DOMAIN subs = 1 .. Len(subs)
  BY LenProperties
<1>2. /\ latestJobId \in Nat
      /\ DOMAIN jobs \subseteq 1 .. latestJobId
      /\ jobs \in [DOMAIN jobs -> Nat]
      /\ work \in [Clients -> SUBSET (1 .. latestJobId)]
  BY DEF TypeOK
<1>3. latestJobId' = latestJobId + Len(subs) /\ latestJobId' \in Nat
  BY <1>1, <1>2 DEF SendJobs
<1>4. {getNextId(k) : k \in DOMAIN subs} = latestJobId + 1 .. latestJobId'
  <2>1. ASSUME NEW j \in latestJobId + 1 .. latestJobId'
        PROVE  j \in {getNextId(k) : k \in DOMAIN subs}
    <3>1. j - latestJobId \in DOMAIN subs /\ getNextId(j - latestJobId) = j
      BY <1>1, <1>2, <1>3 DEF getNextId
    <3> QED BY <3>1
  <2>2. ASSUME NEW k \in DOMAIN subs
        PROVE  getNextId(k) \in latestJobId + 1 .. latestJobId'
    BY <1>1, <1>2, <1>3 DEF getNextId
  <2> QED BY <2>1, <2>2
<1>5. jobs' = [j \in kept \cup (latestJobId + 1 .. latestJobId') |->
                 IF j \in kept THEN jobs[j] ELSE tid]
  BY <1>4 DEF SendJobs
<1>6. /\ DOMAIN jobs' = kept \cup (latestJobId + 1 .. latestJobId')
      /\ \A j \in kept : jobs'[j] = jobs[j]
      /\ \A j \in latestJobId + 1 .. latestJobId' : jobs'[j] = tid
      /\ DOMAIN jobs' \subseteq 1 .. latestJobId'
      /\ jobs' \in [DOMAIN jobs' -> Nat]
  BY <1>1, <1>2, <1>3, <1>5
<1>7. \A c \in Clients : \A j :
         j \in work'[c] <=> \/ j \in work[c]
                            \/ \E k \in DOMAIN subs : subs[k] = c /\ j = latestJobId + k
  BY DEF SendJobs, getNextId
<1>8. work' \in [Clients -> SUBSET (1 .. latestJobId')]
  <2>1. work' = [c \in Clients |-> work'[c]]
    BY DEF SendJobs
  <2>2. ASSUME NEW c \in Clients, NEW j \in work'[c]
        PROVE  j \in 1 .. latestJobId'
    BY <1>1, <1>2, <1>3, <1>7
  <2> QED BY <2>1, <2>2
<1> QED BY <1>3, <1>6, <1>7, <1>8

\* A published template: the only work left to argue about is what it sends.
LEMMA PublishPreserves ==
  ASSUME IInv,
         NEW h \in Hashes \cup {NoHash}, NEW i \in Int, i >= -1,
         NEW subs \in Seq(Clients), subs # <<>>,
         \A k, l \in DOMAIN subs : subs[k] = subs[l] => k = l,
         \A c \in Clients :
           (\A k \in DOMAIN subs : subs[k] # c) => work[c] = {},
         Publish(h, i, subs),
         blockHash' = h, interval' = i, subscribers' = subs
  PROVE  IInv'
<1> DEFINE tid == latestJobTemplateId + 1
           keptJobs == KeptJobs(clearJobs(i))
           new == latestJobId + 1 .. latestJobId'
<1>1. /\ TypeOK /\ JobHasTemplate /\ JobsAreExclusive /\ WorkInv
      /\ latestJobTemplateId \in Nat /\ latestJobId \in Nat
      /\ DOMAIN blocks \subseteq 1 .. latestJobTemplateId
      /\ blocks \in [DOMAIN blocks -> Templates]
      /\ work \in [Clients -> SUBSET (1 .. latestJobId)]
  BY DEF IInv, TypeOK
<1>2. /\ skipNext' = clearJobs(i)
      /\ lastIntervalCount' = i
      /\ latestJobTemplateId' = tid
      /\ replay' = tid
      /\ SendJobs(subs, tid, keptJobs)
  BY DEF Publish
<1>3. /\ DOMAIN blocks' \subseteq 1 .. tid
      /\ tid \in DOMAIN blocks' /\ blocks'[tid].hash = h
      /\ blocks' \in [DOMAIN blocks' -> Templates]
      /\ ~clearJobs(i) => DOMAIN blocks \subseteq DOMAIN blocks'
  <2>1. blocks' = [t \in (IF clearJobs(i) THEN {} ELSE DOMAIN blocks) \cup {tid} |->
                     IF t = tid THEN [hash |-> h, clearJobs |-> clearJobs(i)] ELSE blocks[t]]
    BY DEF Publish
  <2>2. [hash |-> h, clearJobs |-> clearJobs(i)] \in Templates
    BY DEF Templates, clearJobs
  <2> HIDE DEF tid
  <2>3. tid \in Nat /\ tid = latestJobTemplateId + 1
    BY <1>1 DEF tid
  <2> QED BY <2>1, <2>2, <2>3, <1>1
<1>4. tid \in Nat /\ keptJobs \in SUBSET DOMAIN jobs
  BY <1>1 DEF KeptJobs
<1>5. /\ latestJobId' = latestJobId + Len(subs) /\ latestJobId' \in Nat
      /\ DOMAIN jobs' = keptJobs \cup new
      /\ \A j \in keptJobs : jobs'[j] = jobs[j]
      /\ \A j \in new : jobs'[j] = tid
      /\ DOMAIN jobs' \subseteq 1 .. latestJobId'
      /\ jobs' \in [DOMAIN jobs' -> Nat]
      /\ work' \in [Clients -> SUBSET (1 .. latestJobId')]
      /\ \A c \in Clients : \A j :
           j \in work'[c] <=> \/ j \in work[c]
                              \/ \E k \in DOMAIN subs : subs[k] = c /\ j = latestJobId + k
  BY <1>1, <1>2, <1>4, SendJobsProperties
<1>6. Len(subs) \in Nat /\ DOMAIN subs = 1 .. Len(subs) /\ Len(subs) > 0
  BY LenProperties, EmptySeq
<1>7. Subscribed' = {subs[k] : k \in DOMAIN subs}
  BY DEF Subscribed
<1> HIDE DEF new
<1>8. TypeOK'
  <2>1. skipNext' \in BOOLEAN
    BY <1>2 DEF clearJobs
  <2>2. lastIntervalCount' \in Int /\ latestJobTemplateId' \in Nat /\ replay' \in Nat
    BY <1>2, <1>4
  <2> QED BY <1>2, <1>3, <1>5, <2>1, <2>2 DEF TypeOK
<1>9. JobHasTemplate'
  <2> SUFFICES ASSUME NEW j \in DOMAIN jobs'
               PROVE  jobs'[j] \in DOMAIN blocks'
    BY DEF JobHasTemplate
  <2>1. CASE j \in keptJobs
    <3>1. ~clearJobs(i) /\ j \in DOMAIN jobs
      BY <2>1 DEF KeptJobs
    <3> QED BY <2>1, <3>1, <1>1, <1>3, <1>5 DEF JobHasTemplate
  <2>2. CASE j \in new
    BY <2>2, <1>3, <1>5
  <2> QED BY <2>1, <2>2, <1>5
<1>10. NoDuplicates'
  BY DEF NoDuplicates
<1>11. ConnectionInv'
  BY <1>2, <1>3 DEF ConnectionInv
<1>12. replay' # NoTemplate
  BY <1>1, <1>2 DEF NoTemplate
<1>13. WorkInv'
  <2>1. ASSUME NEW c \in Clients, c \notin Subscribed' PROVE work'[c] = {}
    BY <2>1, <1>5, <1>7
  <2>2. ASSUME NEW c \in Subscribed' PROVE work'[c] # {}
    <3>1. PICK k \in DOMAIN subs : subs[k] = c
      BY <1>7
    <3>2. c \in Clients
      BY <3>1, ElementOfSeq, <1>6
    <3>3. latestJobId + k \in work'[c]
      BY <3>1, <3>2, <1>5
    <3> QED BY <3>3
  <2> QED BY <2>1, <2>2, <1>12 DEF WorkInv
<1>14. NewestJobIsCurrent'
  <2> SUFFICES ASSUME NEW c \in Clients, NEW j \in work'[c]
               PROVE  \/ \E k \in work'[c] : k > j
                      \/ j \in DOMAIN jobs' /\ blocks'[jobs'[j]].hash = blockHash'
    BY DEF NewestJobIsCurrent
  <2>1. CASE j \in work[c]
    <3>1. PICK k \in DOMAIN subs : subs[k] = c
      BY <2>1
    <3>2. latestJobId + k \in work'[c]
      BY <3>1, <1>5
    <3>3. latestJobId + k > j
      BY <2>1, <1>1, <1>6
    <3> QED BY <3>2, <3>3
  <2>2. CASE j \notin work[c]
    <3>1. PICK k \in DOMAIN subs : subs[k] = c /\ j = latestJobId + k
      BY <2>2, <1>5
    <3>2. j \in new
      BY <3>1, <1>1, <1>5, <1>6 DEF new
    <3> QED BY <3>2, <1>3, <1>5
  <2> QED BY <2>1, <2>2
<1>15. JobsAreExclusive'
  <2> SUFFICES ASSUME NEW c \in Clients, NEW d \in Clients, c # d,
                      NEW j, j \in work'[c], j \in work'[d]
               PROVE  FALSE
    BY DEF JobsAreExclusive
  <2>1. \A e \in Clients : j \in work[e] => j <= latestJobId
    BY <1>1
  <2>2. \A k \in DOMAIN subs : latestJobId + k > latestJobId
    BY <1>1, <1>6
  <2>3. \/ j \in work[c] /\ j \in work[d]
        \/ \E k, l \in DOMAIN subs : /\ subs[k] = c /\ j = latestJobId + k
                                     /\ subs[l] = d /\ j = latestJobId + l
    <3>1. CASE j \in work[c]
      BY <3>1, <2>1, <2>2, <1>1, <1>5
    <3>2. CASE j \notin work[c]
      BY <3>2, <2>1, <2>2, <1>1, <1>5
    <3> QED BY <3>1, <3>2
  <2>4. ~(j \in work[c] /\ j \in work[d])
    BY <1>1 DEF JobsAreExclusive
  <2> QED BY <2>3, <2>4, <1>1, <1>6
<1> QED BY <1>8, <1>9, <1>10, <1>11, <1>13, <1>14, <1>15 DEF IInv

-----------------------------------------------------------------------------
\* One step per action.
LEMMA InitIInv == Init => IInv
<1> SUFFICES ASSUME Init PROVE IInv
  OBVIOUS
<1>1. subscribers = <<>> /\ subscribers \in Seq(Clients) /\ DOMAIN subscribers = {}
  BY EmptySeq, LenProperties DEF Init
<1>2. TypeOK
  <2>1. /\ DOMAIN jobs = {} /\ jobs \in [DOMAIN jobs -> Nat]
        /\ DOMAIN blocks = {} /\ blocks \in [DOMAIN blocks -> Templates]
    BY DEF Init
  <2>2. work \in [Clients -> SUBSET (1 .. latestJobId)]
    BY DEF Init
  <2>3. /\ interval \in Int /\ interval >= -1 /\ lastIntervalCount \in Int
        /\ latestJobId \in Nat /\ latestJobTemplateId \in Nat /\ replay \in Nat
    BY DEF Init, NoCount, NoTemplate
  <2> QED BY <1>1, <2>1, <2>2, <2>3 DEF Init, TypeOK
<1>3. JobHasTemplate /\ NoDuplicates /\ NewestJobIsCurrent /\ JobsAreExclusive
  BY <1>1 DEF Init, JobHasTemplate, NoDuplicates, NewestJobIsCurrent, JobsAreExclusive
<1>4. ConnectionInv /\ WorkInv
  BY <1>1 DEF Init, ConnectionInv, WorkInv, NoTemplate, Subscribed
<1> QED BY <1>2, <1>3, <1>4 DEF IInv

\* The pipeline starts: its first emission is published or dropped.
LEMMA SubscribeFirstPreserves ==
  ASSUME IInv, NEW c \in Clients, SubscribeFirst(c)
  PROVE  IInv'
<1>1. /\ <<c>> \in Seq(Clients) /\ <<c>> # <<>>
      /\ DOMAIN <<c>> = {1} /\ <<c>>[1] = c
  OBVIOUS
<1>2. subscribers = <<>> /\ subscribers' = <<c>> /\ interval' = -1 /\ blockHash' = blockHash
  BY DEF SubscribeFirst
<1>3. replay = NoTemplate /\ (\A d \in Clients : work[d] = {})
  BY <1>2 DEF IInv, ConnectionInv, WorkInv
<1>4. CASE Publish(blockHash, -1, <<c>>)
  <2>1. blockHash \in Hashes \cup {NoHash} /\ -1 \in Int /\ -1 >= -1
    BY DEF IInv, TypeOK
  <2>2. \A k, l \in DOMAIN <<c>> : <<c>>[k] = <<c>>[l] => k = l
    BY <1>1
  <2> QED BY <1>1, <1>2, <1>3, <1>4, <2>1, <2>2, PublishPreserves
<1>5. CASE Skip(-1)
  <2>1. /\ skipNext' = FALSE /\ replay' = replay /\ jobs' = jobs /\ blocks' = blocks
        /\ work' = work /\ latestJobId' = latestJobId
        /\ latestJobTemplateId' = latestJobTemplateId
        /\ lastIntervalCount' = lastIntervalCount
    BY <1>5 DEF Skip
  <2>2. TypeOK'
    <3>1. subscribers' \in Seq(Clients) /\ interval' \in Int /\ interval' >= -1
      BY <1>1, <1>2
    <3> QED BY <3>1, <1>2, <2>1 DEF IInv, TypeOK
  <2>3. JobHasTemplate' /\ NoDuplicates' /\ NewestJobIsCurrent' /\ JobsAreExclusive'
    BY <1>1, <1>2, <1>3, <2>1
       DEF IInv, JobHasTemplate, NoDuplicates, NewestJobIsCurrent, JobsAreExclusive
  <2>4. ConnectionInv' /\ WorkInv'
    BY <1>1, <1>2, <1>3, <2>1 DEF ConnectionInv, WorkInv, Subscribed
  <2> QED BY <2>2, <2>3, <2>4 DEF IInv
<1> QED BY <1>4, <1>5 DEF SubscribeFirst, Emit

\* A late subscriber is sent a job on the replayed template.
LEMMA SubscribeLatePreserves ==
  ASSUME IInv, NEW c \in Clients, SubscribeLate(c)
  PROVE  IInv'
<1>1. /\ subscribers # <<>> /\ c \notin Subscribed
      /\ subscribers \in Seq(Clients)
      /\ subscribers' = Append(subscribers, c)
      /\ blockHash' = blockHash /\ interval' = interval /\ skipNext' = skipNext
      /\ lastIntervalCount' = lastIntervalCount /\ blocks' = blocks
      /\ latestJobTemplateId' = latestJobTemplateId /\ replay' = replay
  BY DEF SubscribeLate, IInv, TypeOK
<1>2. /\ subscribers' \in Seq(Clients) /\ subscribers' # <<>>
      /\ Len(subscribers) \in Nat /\ DOMAIN subscribers = 1 .. Len(subscribers)
      /\ DOMAIN subscribers' = 1 .. Len(subscribers) + 1
      /\ \A k \in 1 .. Len(subscribers) : subscribers'[k] = subscribers[k]
      /\ subscribers'[Len(subscribers) + 1] = c
  BY <1>1, AppendProperties, LenProperties
<1>3. Subscribed' = Subscribed \cup {c}
  BY <1>2 DEF Subscribed
<1>4. NoDuplicates'
  <2> SUFFICES ASSUME NEW k \in DOMAIN subscribers', NEW l \in DOMAIN subscribers',
                      subscribers'[k] = subscribers'[l]
               PROVE  k = l
    BY DEF NoDuplicates
  <2>1. \A n \in 1 .. Len(subscribers) : subscribers'[n] # c
    BY <1>1, <1>2 DEF Subscribed
  <2> QED BY <2>1, <1>2 DEF IInv, NoDuplicates
<1>5. ConnectionInv'
  BY <1>1, <1>2 DEF IInv, ConnectionInv
<1>6. work[c] = {}
  BY <1>1 DEF IInv, WorkInv
<1>7. CASE replay = NoTemplate
  <2>1. latestJobId' = latestJobId /\ jobs' = jobs /\ work' = work
    BY <1>7 DEF SubscribeLate
  <2>2. TypeOK'
    BY <1>1, <1>2, <2>1 DEF IInv, TypeOK
  <2>3. JobHasTemplate' /\ NewestJobIsCurrent' /\ JobsAreExclusive'
    BY <1>1, <2>1 DEF IInv, JobHasTemplate, NewestJobIsCurrent, JobsAreExclusive
  <2>4. WorkInv'
    BY <1>1, <1>2, <1>3, <1>7, <2>1 DEF IInv, WorkInv
  <2> QED BY <1>4, <1>5, <2>2, <2>3, <2>4 DEF IInv
<1>8. CASE replay # NoTemplate
  <2> DEFINE n == latestJobId + 1
  <2>1. /\ latestJobId \in Nat
        /\ DOMAIN jobs \subseteq 1 .. latestJobId
        /\ work \in [Clients -> SUBSET (1 .. latestJobId)]
        /\ replay \in DOMAIN blocks /\ blocks[replay].hash = blockHash
        /\ replay \in Nat /\ TypeOK
    BY <1>8 DEF IInv, TypeOK, ConnectionInv
  <2>2. <<c>> \in Seq(Clients) /\ Len(<<c>>) = 1 /\ DOMAIN <<c>> = {1} /\ <<c>>[1] = c
    OBVIOUS
  <2>3. SendJobs(<<c>>, replay, DOMAIN jobs)
    BY <1>8 DEF SubscribeLate
  <2>4. DOMAIN jobs \in SUBSET DOMAIN jobs
    OBVIOUS
  <2>5. /\ latestJobId' = latestJobId + 1 /\ latestJobId' \in Nat
        /\ DOMAIN jobs' = DOMAIN jobs \cup (latestJobId + 1 .. latestJobId')
        /\ \A j \in DOMAIN jobs : jobs'[j] = jobs[j]
        /\ \A j \in latestJobId + 1 .. latestJobId' : jobs'[j] = replay
        /\ DOMAIN jobs' \subseteq 1 .. latestJobId'
        /\ jobs' \in [DOMAIN jobs' -> Nat]
        /\ work' \in [Clients -> SUBSET (1 .. latestJobId')]
        /\ \A d \in Clients : \A j :
             j \in work'[d] <=> \/ j \in work[d]
                                \/ \E k \in DOMAIN <<c>> : <<c>>[k] = d /\ j = latestJobId + k
    BY <2>1, <2>2, <2>3, <2>4, SendJobsProperties
  <2>6. /\ n \in Nat /\ n \in DOMAIN jobs' /\ jobs'[n] = replay
        /\ DOMAIN jobs' = DOMAIN jobs \cup {n}
    BY <2>1, <2>5
  <2>7. work'[c] = {n} /\ \A d \in Clients \ {c} : work'[d] = work[d]
    <3>1. \A d \in Clients : \A j :
             j \in work'[d] <=> j \in work[d] \/ (d = c /\ j = n)
      <4> HIDE DEF n
      <4>1. \A d \in Clients : \A j :
               (\E k \in DOMAIN <<c>> : <<c>>[k] = d /\ j = latestJobId + k)
                 <=> (d = c /\ j = n)
        BY <2>2 DEF n
      <4> QED BY <2>5, <4>1
    <3> HIDE DEF n
    <3> QED BY <3>1, <1>6
  <2> HIDE <2>5
  <2>8. TypeOK'
    BY <1>1, <1>2, <2>5 DEF IInv, TypeOK
  <2>9. JobHasTemplate'
    BY <1>1, <2>1, <2>5, <2>6 DEF IInv, JobHasTemplate
  <2>10. NewestJobIsCurrent'
    <3> SUFFICES ASSUME NEW d \in Clients, NEW j \in work'[d]
                 PROVE  \/ \E k \in work'[d] : k > j
                        \/ j \in DOMAIN jobs' /\ blocks'[jobs'[j]].hash = blockHash'
      BY DEF NewestJobIsCurrent
    <3>1. CASE d = c
      BY <3>1, <1>1, <2>1, <2>6, <2>7
    <3>2. CASE d # c
      BY <3>2, <1>1, <2>5, <2>6, <2>7 DEF IInv, NewestJobIsCurrent
    <3> QED BY <3>1, <3>2
  <2>11. JobsAreExclusive'
    <3>1. \A d \in Clients : n \notin work[d]
      BY <2>1
    <3> QED BY <3>1, <2>7 DEF IInv, JobsAreExclusive
  <2>12. WorkInv'
    <3>1. Subscribed \subseteq Clients
      BY <1>1, <1>2, ElementOfSeq DEF Subscribed
    <3>2. work'[c] # {}
      BY <2>7
    <3> HIDE DEF n
    <3> QED BY <3>1, <3>2, <1>1, <1>2, <1>3, <1>8, <2>7 DEF IInv, WorkInv
  <2> QED BY <1>4, <1>5, <2>8, <2>9, <2>10, <2>11, <2>12 DEF IInv
<1> QED BY <1>7, <1>8

\* A client leaves, and the last one stops the pipeline.
LEMMA UnsubscribePreserves ==
  ASSUME IInv, NEW c \in Clients, Unsubscribe(c)
  PROVE  IInv'
<1>1. PICK k \in DOMAIN subscribers :
           subscribers[k] = c /\ subscribers' = RemoveAt(subscribers, k)
  BY DEF Unsubscribe
<1>2. /\ work' = [work EXCEPT ![c] = {}]
      /\ blockHash' = blockHash /\ skipNext' = skipNext
      /\ lastIntervalCount' = lastIntervalCount /\ latestJobId' = latestJobId
      /\ latestJobTemplateId' = latestJobTemplateId
      /\ jobs' = jobs /\ blocks' = blocks
      /\ IF subscribers' = <<>> THEN interval' = -1 /\ replay' = NoTemplate
                                ELSE interval' = interval /\ replay' = replay
  BY DEF Unsubscribe
<1>3. subscribers \in Seq(Clients) /\ Len(subscribers) \in Nat
      /\ DOMAIN subscribers = 1 .. Len(subscribers)
  BY LenProperties DEF IInv, TypeOK
<1>4. /\ subscribers' \in Seq(Clients)
      /\ Len(subscribers') = Len(subscribers) - 1
      /\ \A i \in 1 .. Len(subscribers) - 1 :
           subscribers'[i] = IF i < k THEN subscribers[i] ELSE subscribers[i + 1]
  BY <1>1, <1>3, RemoveAtProperties
<1>5. DOMAIN subscribers' = 1 .. Len(subscribers) - 1
  BY <1>4, LenProperties
<1> DEFINE was(i) == IF i < k THEN i ELSE i + 1
<1>a. \A i \in DOMAIN subscribers' :
         /\ was(i) \in DOMAIN subscribers /\ was(i) # k
         /\ subscribers'[i] = subscribers[was(i)]
         /\ \A j \in DOMAIN subscribers' : was(i) = was(j) => i = j
  BY <1>1, <1>3, <1>4, <1>5
<1> HIDE DEF was
<1>6. NoDuplicates'
  <2> SUFFICES ASSUME NEW i \in DOMAIN subscribers', NEW j \in DOMAIN subscribers',
                      subscribers'[i] = subscribers'[j]
               PROVE  i = j
    BY DEF NoDuplicates
  <2>1. was(i) = was(j)
    BY <1>a DEF IInv, NoDuplicates
  <2> QED BY <2>1, <1>a
<1>7. Subscribed' = Subscribed \ {c}
  <2>1. ASSUME NEW d \in Subscribed, d # c PROVE d \in Subscribed'
    <3>1. PICK i \in DOMAIN subscribers : subscribers[i] = d
      BY DEF Subscribed
    <3>2. CASE i < k
      <4>1. i \in DOMAIN subscribers' /\ subscribers'[i] = d
        BY <3>1, <3>2, <1>1, <1>3, <1>4, <1>5
      <4> QED BY <4>1 DEF Subscribed
    <3>3. CASE ~(i < k)
      <4>1. i - 1 \in DOMAIN subscribers' /\ subscribers'[i - 1] = d
        BY <2>1, <3>1, <3>3, <1>1, <1>3, <1>4, <1>5
      <4> QED BY <4>1 DEF Subscribed
    <3> QED BY <3>2, <3>3
  <2>2. ASSUME NEW i \in DOMAIN subscribers'
        PROVE  subscribers'[i] \in Subscribed /\ subscribers'[i] # c
    BY <1>1, <1>a DEF Subscribed, IInv, NoDuplicates
  <2> QED BY <2>1, <2>2 DEF Subscribed
<1>8. /\ work \in [Clients -> SUBSET (1 .. latestJobId)]
      /\ work'[c] = {} /\ \A d \in Clients \ {c} : work'[d] = work[d]
      /\ work' \in [Clients -> SUBSET (1 .. latestJobId)]
  BY <1>2 DEF IInv, TypeOK
<1>9. TypeOK'
  <2>1. interval' \in Int /\ interval' >= -1 /\ replay' \in Nat
    BY <1>2 DEF IInv, TypeOK, NoTemplate
  <2> QED BY <2>1, <1>2, <1>4, <1>8 DEF IInv, TypeOK
<1>10. JobHasTemplate' /\ NewestJobIsCurrent' /\ JobsAreExclusive'
  BY <1>2, <1>8 DEF IInv, JobHasTemplate, NewestJobIsCurrent, JobsAreExclusive
<1>11. subscribers # <<>>
  BY <1>1, <1>3
<1>12. ConnectionInv'
  BY <1>2, <1>11 DEF IInv, ConnectionInv
<1>13. subscribers' = <<>> => Subscribed' = {}
  BY <1>4, <1>5 DEF Subscribed
<1>14. Subscribed \subseteq Clients
  BY <1>3, ElementOfSeq DEF Subscribed
<1>15. WorkInv'
  BY <1>2, <1>7, <1>8, <1>11, <1>13, <1>14 DEF IInv, WorkInv
<1> QED BY <1>6, <1>9, <1>10, <1>12, <1>15 DEF IInv

\* A tick is published, or dropped after a new block.
LEMMA TickPreserves ==
  ASSUME IInv, Tick
  PROVE  IInv'
<1>1. /\ subscribers # <<>> /\ subscribers' = subscribers
      /\ interval' = interval + 1 /\ blockHash' = blockHash
      /\ interval + 1 \in Int /\ interval + 1 >= -1
      /\ subscribers \in Seq(Clients) /\ blockHash \in Hashes \cup {NoHash}
  BY DEF Tick, IInv, TypeOK
<1>2. /\ \A k, l \in DOMAIN subscribers : subscribers[k] = subscribers[l] => k = l
      /\ \A c \in Clients : (\A k \in DOMAIN subscribers : subscribers[k] # c) => work[c] = {}
  BY DEF IInv, NoDuplicates, WorkInv, Subscribed
<1>3. CASE Publish(blockHash, interval + 1, subscribers)
  BY <1>1, <1>2, <1>3, PublishPreserves
<1>4. CASE Skip(interval + 1)
  <2>1. /\ skipNext /\ skipNext' = FALSE /\ replay' = replay /\ jobs' = jobs
        /\ blocks' = blocks /\ work' = work /\ latestJobId' = latestJobId
        /\ latestJobTemplateId' = latestJobTemplateId
        /\ lastIntervalCount' = lastIntervalCount
    BY <1>4 DEF Skip, Skipped
  <2>2. Subscribed' = Subscribed
    BY <1>1 DEF Subscribed
  <2>3. replay # NoTemplate
    BY <1>1, <2>1 DEF IInv, WorkInv
  <2>4. TypeOK'
    BY <1>1, <2>1 DEF IInv, TypeOK
  <2>5. JobHasTemplate' /\ NoDuplicates' /\ NewestJobIsCurrent' /\ JobsAreExclusive'
    BY <1>1, <2>1
       DEF IInv, JobHasTemplate, NoDuplicates, NewestJobIsCurrent, JobsAreExclusive
  <2>6. ConnectionInv'
    <3>1. lastIntervalCount <= interval + 1
      BY <2>3 DEF IInv, TypeOK, ConnectionInv
    <3> QED BY <3>1, <1>1, <2>1, <2>3 DEF IInv, ConnectionInv
  <2>7. WorkInv'
    BY <1>1, <2>1, <2>2, <2>3 DEF IInv, WorkInv
  <2> QED BY <2>4, <2>5, <2>6, <2>7 DEF IInv
<1> QED BY <1>3, <1>4 DEF Tick, Emit

\* A new block is never skipped while somebody is subscribed.
LEMMA NewBlockPreserves ==
  ASSUME IInv, NEW h \in Hashes, NewBlock(h)
  PROVE  IInv'
<1>1. /\ subscribers' = subscribers /\ interval' = interval /\ blockHash' = h
      /\ interval \in Int /\ interval >= -1 /\ subscribers \in Seq(Clients)
  BY DEF NewBlock, IInv, TypeOK
<1>2. CASE subscribers = <<>>
  <2>1. /\ skipNext' = skipNext /\ replay' = replay /\ jobs' = jobs
        /\ blocks' = blocks /\ work' = work /\ latestJobId' = latestJobId
        /\ latestJobTemplateId' = latestJobTemplateId
        /\ lastIntervalCount' = lastIntervalCount
    BY <1>2 DEF NewBlock
  <2>2. Subscribed' = Subscribed /\ replay = NoTemplate /\ \A c \in Clients : work[c] = {}
    BY <1>1, <1>2 DEF Subscribed, IInv, ConnectionInv, WorkInv
  <2>3. TypeOK'
    BY <1>1, <2>1 DEF IInv, TypeOK
  <2>4. JobHasTemplate' /\ NoDuplicates' /\ NewestJobIsCurrent' /\ JobsAreExclusive'
    BY <1>1, <2>1, <2>2
       DEF IInv, JobHasTemplate, NoDuplicates, NewestJobIsCurrent, JobsAreExclusive
  <2>5. ConnectionInv' /\ WorkInv'
    BY <1>1, <1>2, <2>1, <2>2 DEF IInv, ConnectionInv, WorkInv
  <2> QED BY <2>3, <2>4, <2>5 DEF IInv
<1>3. CASE subscribers # <<>>
  <2>1. ~Skip(interval)
    BY <1>3 DEF IInv, ConnectionInv, Skip, Skipped, clearJobs
  <2>2. Publish(h, interval, subscribers)
    BY <1>3, <2>1 DEF NewBlock, Emit
  <2>3. /\ \A k, l \in DOMAIN subscribers : subscribers[k] = subscribers[l] => k = l
        /\ \A c \in Clients : (\A k \in DOMAIN subscribers : subscribers[k] # c) => work[c] = {}
    BY DEF IInv, NoDuplicates, WorkInv, Subscribed
  <2> QED BY <1>1, <1>3, <2>2, <2>3, PublishPreserves
<1> QED BY <1>2, <1>3

LEMMA NextPreserves == IInv /\ [Next]_vars => IInv'
<1> SUFFICES ASSUME IInv, [Next]_vars PROVE IInv'
  OBVIOUS
<1>1. CASE UNCHANGED vars
  BY <1>1 DEF vars, IInv, TypeOK, JobHasTemplate, NoDuplicates, ConnectionInv,
       WorkInv, NewestJobIsCurrent, JobsAreExclusive, Subscribed
<1>2. ASSUME NEW c \in Clients, SubscribeFirst(c) PROVE IInv'
  BY <1>2, SubscribeFirstPreserves
<1>3. ASSUME NEW c \in Clients, SubscribeLate(c) PROVE IInv'
  BY <1>3, SubscribeLatePreserves
<1>4. ASSUME NEW c \in Clients, Unsubscribe(c) PROVE IInv'
  BY <1>4, UnsubscribePreserves
<1>5. CASE Tick
  BY <1>5, TickPreserves
<1>6. ASSUME NEW h \in Hashes, NewBlock(h) PROVE IInv'
  BY <1>6, NewBlockPreserves
<1> QED BY <1>1, <1>2, <1>3, <1>4, <1>5, <1>6 DEF Next

-----------------------------------------------------------------------------
\* Every reachable state of the job pipeline satisfies the inductive invariant.
THEOREM InductiveInvariant == Spec => []IInv
  BY InitIInv, NextPreserves, PTL DEF Spec

\* The fields of StratumV1JobsService keep their types.
THEOREM TypeCorrect == Spec => []TypeOK
<1>1. IInv => TypeOK
  BY DEF IInv
<1> QED BY <1>1, InductiveInvariant, PTL

\* The assertion 'Job template not found' of handleMiningSubmission never fires,
\* for any number of clients, hashes and ticks.
THEOREM JobTemplateFound == Spec => []JobHasTemplate
<1>1. IInv => JobHasTemplate
  BY DEF IInv
<1> QED BY <1>1, InductiveInvariant, PTL

\* The newest job of each miner is stored and built on the hash that
\* verifyProof uses: skipNext never swallows a new block.
THEOREM MinersWorkOnCurrentHash == Spec => []NewestJobIsCurrent
<1>1. IInv => NewestJobIsCurrent
  BY DEF IInv
<1> QED BY <1>1, InductiveInvariant, PTL

\* A miner waits for its first job no longer than until the first tick.
THEOREM NoMinerWithoutWork == Spec => []WorkAfterFirstTick
<1>1. IInv => WorkAfterFirstTick
  <2> SUFFICES ASSUME IInv, NEW c \in Subscribed, work[c] = {}
               PROVE  interval = -1 /\ ~skipNext
    BY DEF WorkAfterFirstTick
  <2>1. subscribers # <<>>
    BY DEF Subscribed
  <2> QED BY <2>1 DEF IInv, WorkInv
<1> QED BY <1>1, InductiveInvariant, PTL

\* No job id is handed to two miners.
THEOREM ExclusiveJobs == Spec => []JobsAreExclusive
<1>1. IInv => JobsAreExclusive
  BY DEF IInv
<1> QED BY <1>1, InductiveInvariant, PTL

\* What a connected miner was sent stays submittable until the hash changes:
\* a clear without a new block happens only before anything was emitted.
THEOREM WorkRevokedByBlocksOnly == Spec => OnlyNewBlockRevokesWork
<1> DEFINE A == blockHash' = blockHash =>
                  \A c \in Subscribed : c \in Subscribed' =>
                    (work[c] \cap DOMAIN jobs) \subseteq DOMAIN jobs'
<1>1. ASSUME IInv, Next PROVE A
  <2> SUFFICES ASSUME blockHash' = blockHash, NEW c \in Subscribed,
                      NEW j \in work[c], j \in DOMAIN jobs
               PROVE  j \in DOMAIN jobs'
    OBVIOUS
  <2>1. subscribers # <<>> /\ c \in Clients /\ subscribers \in Seq(Clients)
    <3>1. subscribers \in Seq(Clients)
      BY <1>1 DEF IInv, TypeOK
    <3>2. PICK k \in DOMAIN subscribers : subscribers[k] = c
      BY DEF Subscribed
    <3>3. DOMAIN subscribers = 1 .. Len(subscribers)
      BY <3>1, LenProperties
    <3> QED BY <3>1, <3>2, <3>3, ElementOfSeq
  <2>2. replay # NoTemplate
    BY <1>1, <2>1 DEF IInv, WorkInv
  <2>3. ASSUME NEW d \in Clients, SubscribeFirst(d) PROVE FALSE
    BY <2>1, <2>3 DEF SubscribeFirst
  <2>4. ASSUME NEW d \in Clients, SubscribeLate(d) PROVE j \in DOMAIN jobs'
    BY <2>2, <2>4 DEF SubscribeLate, SendJobs
  <2>5. ASSUME NEW d \in Clients, Unsubscribe(d) PROVE j \in DOMAIN jobs'
    BY <2>5 DEF Unsubscribe
  <2>6. CASE Tick
    <3>1. ~clearJobs(interval + 1)
      BY <1>1, <2>2 DEF IInv, TypeOK, ConnectionInv, clearJobs
    <3>2. CASE Skip(interval + 1)
      BY <3>2 DEF Skip
    <3>3. CASE Publish(blockHash, interval + 1, subscribers)
      BY <3>1, <3>3 DEF Publish, SendJobs, KeptJobs
    <3> QED BY <2>6, <3>2, <3>3 DEF Tick, Emit
  <2>7. ASSUME NEW h \in Hashes, NewBlock(h) PROVE FALSE
    BY <2>7 DEF NewBlock
  <2> QED BY <1>1, <2>3, <2>4, <2>5, <2>6, <2>7 DEF Next
<1>2. IInv /\ [Next]_vars => [A]_vars
  BY <1>1
<1>3. Spec => [][A]_vars
  BY <1>2, InductiveInvariant, PTL DEF Spec
<1> QED BY <1>3 DEF OnlyNewBlockRevokesWork
=============================================================================
