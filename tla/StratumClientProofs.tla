------------------------ MODULE StratumClientProofs -------------------------
(***************************************************************************)
(* The safety properties of a stratum connection, for any number of lines, *)
(* any messages on them and any interleaving of their handlers.            *)
(*                                                                         *)
(* Two flags carry the argument.  stratumInitialized is set before the     *)
(* await of initStratum, so one handler at most is ever inside it, and a   *)
(* share that is accepted for validation comes after authorization.  Once  *)
(* 'close' was emitted no handler awaits a write any more, so nobody can   *)
(* subscribe after the destroy() that 'close' started.                     *)
(***************************************************************************)
EXTENDS StratumClient, SequenceTheorems, TLAPS

\* What a handler may be at, given its message, its replies and the flags.
PlaceInv(r) ==
  /\ pc[r] = "new" <=> r > received
  /\ pc[r] \in {"registering", "proving", "maskError"} => msg[r].method = "submit"
  /\ pc[r] \notin {"new", "done"} /\ msg[r].method = "submit" => stratumInitialized
  /\ pc[r] = "initializing" => stratumInitialized /\ streams = 0
  /\ closed => pc[r] \notin Writing

\* How often it has replied.
ReplyInv(r) ==
  /\ pc[r] \in {"new", "validating", "registering", "proving"} => Len(replies[r]) = 0
  /\ pc[r] \in {"replying", "rejecting"} => Len(replies[r]) > 0
  /\ pc[r] = "initializing" /\ msg[r].method # "other" => Len(replies[r]) > 0
  /\ pc[r] = "done" /\ sock = "open" /\ msg[r].method # "other" => Len(replies[r]) > 0
  /\ pc[r] = "maskError" => Len(replies[r]) = 1 /\ replies[r][1] = "invalidMask"
  /\ Len(replies[r]) > 1 =>
       Len(replies[r]) = 2 /\ replies[r][1] = "invalidMask" /\ replies[r][2] = "result"

\* One handler initializes stratum, for an authorized client.
StreamInv ==
  /\ ~stratumInitialized => streams = 0 /\ ~stratumSubscription
  /\ streams <= 1
  /\ stratumInitialized => clientSubscription /\ clientAuthorization

SoleInitializer ==
  \A r, q \in Requests : pc[r] = "initializing" /\ pc[q] = "initializing" => r = q

\* Before the promise of the entity exists nothing was inserted.
EntityInv == inserts <= 1 /\ (entity = "none" => inserts = 0)

\* 'close' follows the destruction of the socket; a stream that is left then has
\* a destroy() under way.
CloseInv == closed => sock = "destroyed" /\ (stratumSubscription => destroys > 0)

IInv ==
  /\ TypeOK
  /\ \A r \in Requests : PlaceInv(r)
  /\ \A r \in Requests : ReplyInv(r)
  /\ StreamInv
  /\ SoleInitializer
  /\ EntityInv
  /\ CloseInv

-----------------------------------------------------------------------------
LEMMA TwoElements ==
  ASSUME NEW S, NEW s \in Seq(S), NEW a \in S, NEW b \in S,
         Len(s) = 2, s[1] = a, s[2] = b
  PROVE  s = <<a, b>>
<1>1. <<a, b>> \in Seq(S) /\ Len(<<a, b>>) = 2
  OBVIOUS
<1>2. \A i \in 1 .. Len(s) : s[i] = <<a, b>>[i]
  OBVIOUS
<1> QED BY <1>1, <1>2, SeqEqual

\* The invariant implies the properties that the runs check.
LEMMA IInvImplies ==
  IInv => /\ OneStream /\ RegisteredOnce /\ SubmissionsAreAuthorized
          /\ NoStreamAfterClose /\ AnsweredWhenDone /\ OneReplyPerRequest
<1> SUFFICES ASSUME IInv
             PROVE  /\ OneStream /\ RegisteredOnce /\ SubmissionsAreAuthorized
                    /\ NoStreamAfterClose /\ AnsweredWhenDone /\ OneReplyPerRequest
  OBVIOUS
<1>1. OneStream /\ RegisteredOnce
  BY DEF IInv, StreamInv, EntityInv, OneStream, RegisteredOnce
<1>2. SubmissionsAreAuthorized
  BY DEF IInv, PlaceInv, StreamInv, SubmissionsAreAuthorized
<1>3. NoStreamAfterClose
  BY DEF IInv, TypeOK, CloseInv, NoStreamAfterClose
<1>4. AnsweredWhenDone
  BY DEF IInv, ReplyInv, AnsweredWhenDone
<1>5. OneReplyPerRequest
  <2> SUFFICES ASSUME NEW r \in Requests, Len(replies[r]) > 1
               PROVE  replies[r] = <<"invalidMask", "result">>
    BY DEF OneReplyPerRequest
  <2>1. replies[r] \in Seq(ReplyKinds) /\ {"invalidMask", "result"} \subseteq ReplyKinds
    BY DEF IInv, TypeOK, ReplyKinds
  <2>2. Len(replies[r]) = 2 /\ replies[r][1] = "invalidMask" /\ replies[r][2] = "result"
    BY DEF IInv, ReplyInv
  <2> QED BY <2>1, <2>2, TwoElements
<1> QED BY <1>1, <1>2, <1>3, <1>4, <1>5

LEMMA InitIInv == Init => IInv
<1> SUFFICES ASSUME Init PROVE IInv
  OBVIOUS
<1>1. TypeOK
  <2>1. replies \in [Requests -> Seq(ReplyKinds)]
    BY EmptySeq DEF Init
  <2>2. msg \in [Requests -> [method : Methods,
                             validity : {"valid", "invalid", "malformed"},
                             mask : {NoMask} \cup SUBSET Bits]]
    BY DEF Init, Methods
  <2>3. received \in 0 .. NumRequests /\ pc \in [Requests -> PCs]
    BY MessageAssumption DEF Init, PCs
  <2> QED BY <2>1, <2>2, <2>3 DEF Init, TypeOK
<1>2. \A r \in Requests : PlaceInv(r) /\ ReplyInv(r)
  BY DEF Init, PlaceInv, ReplyInv, Requests, Writing
<1>3. StreamInv /\ SoleInitializer /\ EntityInv /\ CloseInv
  BY DEF Init, StreamInv, SoleInitializer, EntityInv, CloseInv
<1> QED BY <1>1, <1>2, <1>3 DEF IInv

\* The step of one handler leaves the others where they are.
LEMMA OthersUndisturbed ==
  ASSUME TypeOK, NEW r \in Requests, NEW q \in Requests, q # r,
         PlaceInv(q), ReplyInv(q), NEW p, pc' = [pc EXCEPT ![r] = p],
         replies' = replies \/ \E k : replies' = [replies EXCEPT ![r] = Append(@, k)],
         msg' = msg \/ \E m : msg' = [msg EXCEPT ![r] = m],
         received' = received \/ (received' = received + 1 /\ r = received + 1),
         stratumInitialized => stratumInitialized',
         streams' = streams \/ pc[q] # "initializing",
         sock' = "open" => sock = "open", closed' => closed
  PROVE  PlaceInv(q)' /\ ReplyInv(q)'
<1>1. pc'[q] = pc[q] /\ msg'[q] = msg[q] /\ replies'[q] = replies[q]
  BY DEF TypeOK
<1>2. q > received' <=> q > received
  BY MessageAssumption DEF TypeOK, Requests
<1>3. PlaceInv(q)'
  BY <1>1, <1>2 DEF PlaceInv
<1>4. ReplyInv(q)'
  BY <1>1 DEF ReplyInv
<1> QED BY <1>3, <1>4

\* The parts of the invariant that are not about one handler, and that a step
\* which leaves streams, registration and session alone cannot disturb.
LEMMA GlobalsUndisturbed ==
  ASSUME StreamInv, EntityInv, CloseInv,
         UNCHANGED <<stream, registration>>, closed' = closed,
         clientSubscription => clientSubscription', clientAuthorization => clientAuthorization',
         sock = "destroyed" => sock' = "destroyed", destroys' >= destroys,
         destroys \in Nat, destroys' \in Nat
  PROVE  StreamInv' /\ EntityInv' /\ CloseInv'
<1>1. StreamInv'
  BY DEF StreamInv, stream
<1>2. EntityInv'
  BY DEF EntityInv, registration
<1>3. CloseInv'
  BY DEF CloseInv, stream
<1> QED BY <1>1, <1>2, <1>3

\* write() goes to its await, or tears the connection down and is over.
LEMMA WriteEffect ==
  ASSUME TypeOK, NEW r \in Requests, NEW next \in PCs, Write(r, next)
  PROVE  /\ pc' = [pc EXCEPT ![r] = IF sock = "open" THEN next ELSE "done"]
         /\ sock' = IF sock = "open" THEN sock ELSE "destroyed"
         /\ closed' = closed
         /\ destroys' \in Nat /\ destroys' >= destroys
<1>1. CASE sock = "open"
  BY <1>1 DEF Write, connection, TypeOK
<1>2. CASE sock # "open"
  BY <1>2 DEF Write, StartDestroy, TypeOK
<1> QED BY <1>1, <1>2

\* A handler replies, and awaits the write unless the socket is not usable.
LEMMA ReplyPreserves ==
  ASSUME IInv, NEW r \in Requests, NEW k \in ReplyKinds,
         NEW next \in {"replying", "rejecting", "maskError"}, Reply(r, k, next),
         pc[r] \in {"validating", "registering", "proving", "maskError"},
         pc[r] = "maskError" => next = "replying" /\ k = "result",
         next = "maskError" => msg[r].method = "submit" /\ k = "invalidMask",
         UNCHANGED <<received, msg, stream, registration>>,
         clientSubscription' \in BOOLEAN, clientAuthorization' \in BOOLEAN,
         clientConfiguration' \in {NoMask, NoConfig} \cup SUBSET Rollable,
         clientSubscription => clientSubscription', clientAuthorization => clientAuthorization'
  PROVE  IInv'
<1> DEFINE p == IF sock = "open" THEN next ELSE "done"
<1>1. TypeOK /\ PlaceInv(r) /\ ReplyInv(r) /\ next \in PCs /\ p \in PCs
  BY DEF IInv, PCs, Writing
<1>2. /\ pc' = [pc EXCEPT ![r] = p]
      /\ sock' = IF sock = "open" THEN sock ELSE "destroyed"
      /\ closed' = closed /\ destroys' \in Nat /\ destroys' >= destroys
  BY <1>1, WriteEffect DEF Reply
<1>3. replies' = IF sock = "open" THEN [replies EXCEPT ![r] = Append(@, k)] ELSE replies
  BY DEF Reply
<1>4. replies[r] \in Seq(ReplyKinds) /\ Len(replies[r]) \in Nat
  BY <1>1, LenProperties DEF TypeOK
<1>5. sock = "open" => /\ replies' \in [Requests -> Seq(ReplyKinds)]
                       /\ Len(replies'[r]) = Len(replies[r]) + 1
  <2>1. Append(replies[r], k) \in Seq(ReplyKinds) /\ Len(Append(replies[r], k)) = Len(replies[r]) + 1
    BY <1>4, AppendProperties
  <2> QED BY <1>1, <1>3, <2>1 DEF TypeOK
<1>6. TypeOK'
  BY <1>1, <1>2, <1>3, <1>5 DEF TypeOK, stream, registration
<1>7. PlaceInv(r)'
  BY <1>1, <1>2 DEF PlaceInv, TypeOK, IInv, CloseInv, stream, Writing
<1>8. ReplyInv(r)'
  <2>1. pc'[r] = p /\ msg'[r] = msg[r]
    BY <1>1, <1>2 DEF TypeOK
  <2>2. CASE sock = "open"
    <3>1. replies'[r] = Append(replies[r], k)
      BY <1>1, <1>3, <2>2 DEF TypeOK
    <3>2. CASE pc[r] = "maskError"
      <4>1. /\ Len(replies[r]) = 1 /\ replies[r][1] = "invalidMask"
            /\ k = "result" /\ pc'[r] = "replying"
        BY <1>1, <2>1, <2>2, <3>2 DEF ReplyInv
      <4>2. Len(replies'[r]) = 2 /\ replies'[r][1] = "invalidMask" /\ replies'[r][2] = "result"
        BY <1>4, <3>1, <4>1, AppendProperties
      <4> QED BY <4>1, <4>2 DEF ReplyInv
    <3>3. CASE pc[r] # "maskError"
      <4>1. Len(replies[r]) = 0
        BY <3>3, <1>1 DEF ReplyInv
      <4>2. Len(replies'[r]) = 1 /\ pc'[r] = next
        BY <4>1, <2>1, <2>2, <1>5
      <4>3. replies'[r][1] = k
        BY <1>4, <3>1, <4>1, AppendProperties
      <4> QED BY <4>2, <4>3 DEF ReplyInv
    <3> QED BY <3>2, <3>3
  <2>3. CASE sock # "open"
    BY <2>1, <2>3, <1>1, <1>2, <1>3, <1>4 DEF ReplyInv
  <2> QED BY <2>2, <2>3
<1>9. \A q \in Requests : PlaceInv(q)' /\ ReplyInv(q)'
  BY <1>1, <1>2, <1>3, <1>7, <1>8, OthersUndisturbed DEF IInv, stream
<1>10. SoleInitializer'
  BY <1>1, <1>2 DEF IInv, SoleInitializer, TypeOK
<1>11. StreamInv' /\ EntityInv' /\ CloseInv'
  BY <1>1, <1>2, GlobalsUndisturbed DEF IInv, TypeOK
<1> QED BY <1>6, <1>9, <1>10, <1>11 DEF IInv

\* A handler goes on without a reply: it awaits something else, or is over.
LEMMA MovePreserves ==
  ASSUME IInv, NEW r \in Requests, NEW p \in {"registering", "proving", "done"},
         pc[r] \notin {"new", "done"}, pc' = [pc EXCEPT ![r] = p],
         p # "done" => msg[r].method = "submit" /\ pc[r] \in {"validating", "registering"},
         p = "done" => \/ pc[r] = "rejecting"
                       \/ pc[r] = "replying"
                       \/ sock' # "open",
         UNCHANGED <<received, msg, replies, session, stream, closed>>,
         EntityInv', entity' \in {"none", "creating", "created"}, inserts' \in Nat,
         sock' \in {"open", "ended", "destroyed"}, sock' = "open" => sock = "open",
         sock = "destroyed" => sock' = "destroyed",
         destroys' \in Nat, destroys' >= destroys
  PROVE  IInv'
<1>1. TypeOK /\ PlaceInv(r) /\ ReplyInv(r) /\ p \in PCs
  BY DEF IInv, PCs, Writing
<1>2. TypeOK'
  BY <1>1 DEF TypeOK, stream, session
<1>3. pc'[r] = p /\ msg'[r] = msg[r] /\ replies'[r] = replies[r]
  BY <1>1 DEF TypeOK
<1>4. PlaceInv(r)'
  BY <1>1, <1>3 DEF PlaceInv, stream, Writing
<1>5. ReplyInv(r)'
  BY <1>1, <1>3 DEF ReplyInv
<1>6. \A q \in Requests : PlaceInv(q)' /\ ReplyInv(q)'
  BY <1>1, <1>4, <1>5, OthersUndisturbed DEF IInv, stream
<1>7. SoleInitializer'
  BY <1>1 DEF IInv, SoleInitializer, TypeOK
<1>8. StreamInv' /\ CloseInv'
  BY <1>1 DEF IInv, TypeOK, StreamInv, CloseInv, stream, session
<1> QED BY <1>2, <1>6, <1>7, <1>8 DEF IInv

\* A line is received: its handler awaits the validation or is over.
LEMMA ReceivePreserves ==
  ASSUME IInv, NEW r \in Requests, r = received + 1, received' = received + 1,
         NEW m \in [method : Methods, validity : {"valid", "invalid", "malformed"},
                    mask : {NoMask} \cup SUBSET Bits],
         msg' = [msg EXCEPT ![r] = m],
         NEW p \in {"validating", "done"}, pc' = [pc EXCEPT ![r] = p],
         p = "validating" => m.method # "submit" \/ stratumInitialized,
         p = "done" => m.method = "other" \/ sock' # "open",
         UNCHANGED <<replies, session, stream, registration, closed, destroys>>,
         ~closed, sock' = sock \/ (sock = "open" /\ sock' = "ended")
  PROVE  IInv'
<1>1. TypeOK /\ PlaceInv(r) /\ ReplyInv(r) /\ p \in PCs
  BY DEF IInv, PCs, Writing
<1>2. pc[r] = "new" /\ ~closed
  BY <1>1 DEF IInv, PlaceInv, CloseInv, TypeOK
<1>3. received' \in 0 .. NumRequests /\ ~(r > received')
  BY <1>1, MessageAssumption DEF TypeOK, Requests
<1>4. TypeOK'
  <2>1. /\ msg' \in [Requests -> [method : Methods,
                                  validity : {"valid", "invalid", "malformed"},
                                  mask : {NoMask} \cup SUBSET Bits]]
        /\ pc' \in [Requests -> PCs]
    BY <1>1 DEF TypeOK
  <2>2. sock' \in {"open", "ended", "destroyed"}
    BY <1>1 DEF TypeOK
  <2> QED BY <1>1, <1>3, <2>1, <2>2 DEF TypeOK, stream, session, registration
<1>5. pc'[r] = p /\ msg'[r] = m /\ replies'[r] = replies[r]
  BY <1>1 DEF TypeOK
<1>6. PlaceInv(r)'
  BY <1>1, <1>2, <1>3, <1>5 DEF PlaceInv, stream, Writing
<1>7. ReplyInv(r)'
  BY <1>1, <1>2, <1>5 DEF ReplyInv
<1>8. \A q \in Requests : PlaceInv(q)' /\ ReplyInv(q)'
  BY <1>1, <1>6, <1>7, OthersUndisturbed DEF IInv, stream
<1>9. SoleInitializer'
  BY <1>1 DEF IInv, SoleInitializer, TypeOK
<1>10. StreamInv' /\ EntityInv' /\ CloseInv'
  BY <1>1, <1>2 DEF IInv, StreamInv, EntityInv, CloseInv, stream, session, registration
<1> QED BY <1>4, <1>8, <1>9, <1>10 DEF IInv

\* initStratum: nobody initialized stratum before, so nobody else does now.
LEMMA InitStratumPreserves ==
  ASSUME IInv, NEW r \in Requests, initStratum(r),
         clientSubscription, clientAuthorization, ~stratumInitialized,
         \/ pc[r] = "replying" /\ UNCHANGED <<received, msg>>
         \/ /\ r = received + 1 /\ received' = received + 1
            /\ ~closed
            /\ \E m \in [method : Methods, validity : {"valid", "invalid", "malformed"},
                         mask : {NoMask} \cup SUBSET Bits] :
                 m.method = "other" /\ msg' = [msg EXCEPT ![r] = m],
         UNCHANGED <<replies, session, stratumSubscription, streams, registration>>
  PROVE  IInv'
<1> DEFINE p == IF sock = "open" THEN "initializing" ELSE "done"
<1>1. TypeOK /\ PlaceInv(r) /\ ReplyInv(r) /\ p \in PCs /\ "initializing" \in PCs
  BY DEF IInv, PCs, Writing
<1>2. /\ pc' = [pc EXCEPT ![r] = p]
      /\ sock' = IF sock = "open" THEN sock ELSE "destroyed"
      /\ closed' = closed /\ destroys' \in Nat /\ destroys' >= destroys
      /\ stratumInitialized' = TRUE
  BY <1>1, WriteEffect DEF initStratum
<1>3. /\ ~closed /\ streams = 0 /\ ~stratumSubscription
      /\ \A q \in Requests : pc[q] # "initializing"
  BY <1>1 DEF IInv, CloseInv, StreamInv, PlaceInv, Writing
<1>4. /\ msg' \in [Requests -> [method : Methods,
                                validity : {"valid", "invalid", "malformed"},
                                mask : {NoMask} \cup SUBSET Bits]]
      /\ received' \in 0 .. NumRequests /\ ~(r > received')
      /\ \/ msg'[r] = msg[r] /\ pc[r] = "replying"
         \/ msg'[r].method = "other" /\ pc[r] = "new"
  <2>1. CASE pc[r] = "replying" /\ UNCHANGED <<received, msg>>
    <3>1. msg' = msg /\ received' = received
      BY <2>1
    <3>2. ~(r > received)
      BY <1>1, <2>1 DEF PlaceInv
    <3> QED BY <1>1, <2>1, <3>1, <3>2 DEF TypeOK
  <2>2. CASE ~(pc[r] = "replying" /\ UNCHANGED <<received, msg>>)
    <3>1. r = received + 1 /\ received' = received + 1
      BY <2>2
    <3>2. PICK m \in [method : Methods, validity : {"valid", "invalid", "malformed"},
                      mask : {NoMask} \cup SUBSET Bits] :
             m.method = "other" /\ msg' = [msg EXCEPT ![r] = m]
      BY <2>2
    <3>3. received' \in 0 .. NumRequests /\ ~(r > received') /\ pc[r] = "new"
      BY <3>1, <1>1, MessageAssumption DEF TypeOK, Requests, PlaceInv
    <3> QED BY <3>2, <3>3, <1>1 DEF TypeOK
  <2> QED BY <2>1, <2>2
<1>5. TypeOK'
  BY <1>1, <1>2, <1>4 DEF TypeOK, session, registration
<1>6. pc'[r] = p /\ replies'[r] = replies[r]
  BY <1>1, <1>2 DEF TypeOK
<1>7. PlaceInv(r)'
  BY <1>2, <1>3, <1>4, <1>6 DEF PlaceInv, Writing
<1>8. ReplyInv(r)'
  BY <1>1, <1>2, <1>4, <1>6 DEF ReplyInv
<1>9. \A q \in Requests : PlaceInv(q)' /\ ReplyInv(q)'
  <2>1. msg' = msg \/ \E m : msg' = [msg EXCEPT ![r] = m]
    OBVIOUS
  <2>2. received' = received \/ (received' = received + 1 /\ r = received + 1)
    OBVIOUS
  <2> QED BY <1>1, <1>2, <1>7, <1>8, <2>1, <2>2, OthersUndisturbed DEF IInv
<1>10. SoleInitializer'
  BY <1>1, <1>2, <1>3 DEF SoleInitializer, TypeOK
<1>11. StreamInv' /\ EntityInv' /\ CloseInv'
  BY <1>2, <1>3 DEF IInv, StreamInv, EntityInv, CloseInv, session, registration
<1> QED BY <1>5, <1>9, <1>10, <1>11 DEF IInv

\* The difficulty was written: the one handler inside initStratum subscribes.
LEMMA InitializedPreserves ==
  ASSUME IInv, NEW r \in Requests, Initialized(r)
  PROVE  IInv'
<1>1. TypeOK /\ PlaceInv(r) /\ ReplyInv(r) /\ "done" \in PCs
  BY DEF IInv, PCs
<1>2. /\ pc' = [pc EXCEPT ![r] = "done"] /\ pc[r] = "initializing"
      /\ stratumInitialized /\ streams = 0 /\ ~closed
      /\ streams' = 1 /\ stratumSubscription' = TRUE /\ stratumInitialized' = TRUE
  BY <1>1 DEF Initialized, PlaceInv, Writing
<1>3. UNCHANGED <<received, msg, replies, clientSubscription, clientAuthorization,
                  clientConfiguration, entity, inserts, sock, closed, destroys>>
  BY DEF Initialized, session, registration, connection
<1>4. TypeOK'
  BY <1>1, <1>2, <1>3 DEF TypeOK
<1>5. pc'[r] = "done" /\ \A q \in Requests : q # r => pc'[q] = pc[q] /\ pc[q] # "initializing"
  BY <1>1, <1>2 DEF IInv, SoleInitializer, TypeOK
<1>6. PlaceInv(r)'
  BY <1>1, <1>2, <1>3, <1>5 DEF PlaceInv, Writing
<1>7. ReplyInv(r)'
  BY <1>1, <1>2, <1>3, <1>5 DEF ReplyInv
<1>8. \A q \in Requests : PlaceInv(q)' /\ ReplyInv(q)'
  BY <1>1, <1>2, <1>3, <1>5, <1>6, <1>7, OthersUndisturbed DEF IInv
<1>9. SoleInitializer'
  BY <1>5 DEF SoleInitializer
<1>10. StreamInv' /\ EntityInv' /\ CloseInv'
  BY <1>2, <1>3 DEF IInv, StreamInv, EntityInv, CloseInv
<1> QED BY <1>4, <1>8, <1>9, <1>10 DEF IInv

\* getJobById and what follows it: a rejection, or the proof is submitted.
LEMMA LookUpJobPreserves ==
  ASSUME IInv, NEW r \in Requests, LookUpJob(r), msg[r].method = "submit",
         pc[r] \in {"validating", "registering"},
         UNCHANGED <<received, msg, session, stream, registration>>
  PROVE  IInv'
<1>1. TypeOK /\ EntityInv
  BY DEF IInv
<1>2. /\ clientSubscription' \in BOOLEAN /\ clientAuthorization' \in BOOLEAN
      /\ clientConfiguration' \in {NoMask, NoConfig} \cup SUBSET Rollable
      /\ clientSubscription => clientSubscription'
      /\ clientAuthorization => clientAuthorization'
  BY <1>1 DEF TypeOK, session
<1> "error" \in ReplyKinds /\ "invalidMask" \in ReplyKinds
  BY DEF ReplyKinds
<1>3. CASE Reply(r, "error", "rejecting")
  BY <1>2, <1>3, ReplyPreserves
<1>4. CASE /\ VersionRolling /\ ~(versionMask(msg[r]) \subseteq clientConfiguration)
           /\ Reply(r, "invalidMask", "maskError")
  BY <1>2, <1>4, ReplyPreserves
<1>5. CASE pc' = [pc EXCEPT ![r] = "proving"] /\ UNCHANGED <<replies, connection>>
  <2>1. EntityInv' /\ entity' \in {"none", "creating", "created"} /\ inserts' \in Nat
    BY <1>1 DEF TypeOK, EntityInv, registration
  <2>2. /\ UNCHANGED <<replies, sock, closed>>
        /\ destroys' \in Nat /\ destroys' >= destroys /\ sock' \in {"open", "ended", "destroyed"}
    BY <1>1, <1>5 DEF TypeOK, connection
  <2> QED BY <1>5, <2>1, <2>2, MovePreserves
<1> QED BY <1>3, <1>4, <1>5 DEF LookUpJob, JobMissing

LEMMA ReceiveIInv ==
  ASSUME IInv, received < NumRequests, NEW m \in Messages[received + 1], Receive(m)
  PROVE  IInv'
<1> DEFINE r == received + 1
<1>1. TypeOK /\ r \in Requests
  BY MessageAssumption DEF IInv, TypeOK, Requests
<1>2. m \in [method : Methods, validity : {"valid", "invalid", "malformed"},
             mask : {NoMask} \cup SUBSET Bits]
  BY <1>1, MessageAssumption DEF Requests
<1>3. /\ ~closed /\ received' = received + 1 /\ msg' = [msg EXCEPT ![r] = m]
      /\ UNCHANGED <<session, stratumSubscription, streams, registration>>
  BY DEF Receive
<1>4. CASE EndSocket(r) /\ UNCHANGED stratumInitialized
  <2>1. /\ pc' = [pc EXCEPT ![r] = "done"] /\ sock' = IF sock = "open" THEN "ended" ELSE sock
        /\ UNCHANGED <<replies, session, stream, registration, closed, destroys>>
    BY <1>1, <1>3, <1>4 DEF EndSocket, TypeOK, stream
  <2> QED BY <1>1, <1>2, <1>3, <2>1, ReceivePreserves
<1>5. CASE m.method = "other" /\ AfterSwitch(r) /\ UNCHANGED replies
  <2>1. CASE clientSubscription /\ clientAuthorization /\ ~stratumInitialized
    BY <1>1, <1>2, <1>3, <1>5, <2>1, InitStratumPreserves DEF AfterSwitch
  <2>2. CASE ~(clientSubscription /\ clientAuthorization /\ ~stratumInitialized)
    <3>1. /\ pc' = [pc EXCEPT ![r] = "done"] /\ sock' = sock
          /\ UNCHANGED <<replies, session, stream, registration, closed, destroys>>
      BY <1>3, <1>5, <2>2 DEF AfterSwitch, stream, connection
    <3> QED BY <1>1, <1>2, <1>3, <1>5, <3>1, ReceivePreserves
  <2> QED BY <2>1, <2>2
<1>6. CASE /\ ~SubmitTooEarly(m) /\ pc' = [pc EXCEPT ![r] = "validating"]
           /\ UNCHANGED <<connection, replies, stratumInitialized>>
  <2>1. /\ m.method # "submit" \/ stratumInitialized
        /\ sock' = sock
        /\ UNCHANGED <<replies, session, stream, registration, closed, destroys>>
    BY <1>3, <1>6 DEF SubmitTooEarly, stream, connection
  <2> QED BY <1>1, <1>2, <1>3, <1>6, <2>1, ReceivePreserves
<1> QED BY <1>4, <1>5, <1>6 DEF Receive

\* validateMessage returned: the handlers of the methods.
LEMMA ValidatedIInv ==
  ASSUME IInv, NEW r \in Requests, Validated(r)
  PROVE  IInv'
<1>1. TypeOK /\ EntityInv /\ pc[r] = "validating" /\ UNCHANGED <<received, msg>>
  BY DEF IInv, Validated
<1>2. CASE HandleInvalid(r)
  BY <1>1, <1>2, ReplyPreserves DEF HandleInvalid, ReplyKinds, TypeOK, session
<1>3. CASE HandleSubscription(r)
  BY <1>1, <1>3, ReplyPreserves DEF HandleSubscription, ReplyKinds, TypeOK
<1>4. CASE HandleConfigure(r)
  <2>1. clientConfiguration' \in {NoMask, NoConfig} \cup SUBSET Rollable
    BY <1>4 DEF HandleConfigure, versionRollingMask
  <2> QED BY <1>1, <1>4, <2>1, ReplyPreserves DEF HandleConfigure, ReplyKinds, TypeOK
<1>5. CASE HandleAuthorization(r)
  BY <1>1, <1>5, ReplyPreserves DEF HandleAuthorization, ReplyKinds, TypeOK
<1>6. CASE msg[r].method = "submit" /\ HandleSubmit(r)
  <2>1. UNCHANGED <<session, stream>>
    BY <1>6 DEF HandleSubmit
  <2>2. CASE Reply(r, "maskNotAllowed", "rejecting") /\ UNCHANGED registration
    BY <1>1, <2>1, <2>2, ReplyPreserves DEF ReplyKinds, TypeOK, session
  <2>3. CASE Register(r)
    <3>1. EntityInv' /\ entity' \in {"none", "creating", "created"} /\ inserts' \in Nat
      BY <1>1, <2>3 DEF Register, EntityInv, TypeOK
    <3>2. /\ pc' = [pc EXCEPT ![r] = "registering"] /\ UNCHANGED <<replies, sock, closed, destroys>>
          /\ destroys' \in Nat /\ destroys' >= destroys /\ sock' \in {"open", "ended", "destroyed"}
      BY <1>1, <2>3 DEF Register, TypeOK, connection
    <3> QED BY <1>1, <1>6, <2>1, <3>1, <3>2, MovePreserves
  <2>4. CASE LookUpJob(r) /\ UNCHANGED registration
    BY <1>1, <1>6, <2>1, <2>4, LookUpJobPreserves
  <2> QED BY <1>6, <2>2, <2>3, <2>4 DEF HandleSubmit
<1> QED BY <1>2, <1>3, <1>4, <1>5, <1>6 DEF Validated, HandleValid

\* Every other step of a handler.
LEMMA HandlerIInv ==
  ASSUME IInv, NEW r \in Requests, HandlerStep(r)
  PROVE  IInv'
<1>1. TypeOK /\ EntityInv /\ PlaceInv(r)
  BY DEF IInv
<1>2. CASE Validated(r)
  BY <1>2, ValidatedIInv
<1>3. CASE Registered(r)
  <2>1. msg[r].method = "submit"
    BY <1>1, <1>3 DEF Registered, PlaceInv
  <2> QED BY <1>3, <2>1, LookUpJobPreserves DEF Registered
<1>4. CASE Proved(r)
  <2>1. pc[r] = "proving" /\ UNCHANGED <<received, msg, session, stream, registration>>
    BY <1>4 DEF Proved
  <2>2. CASE Reply(r, "result", "replying") \/ Reply(r, "error", "rejecting")
    BY <1>1, <2>1, <2>2, ReplyPreserves DEF ReplyKinds, TypeOK, session
  <2>3. CASE EndSocket(r)
    <3>1. EntityInv' /\ entity' \in {"none", "creating", "created"} /\ inserts' \in Nat
      BY <1>1, <2>1 DEF TypeOK, EntityInv, registration
    <3>2. /\ pc' = [pc EXCEPT ![r] = "done"] /\ UNCHANGED <<replies, closed, destroys>>
          /\ destroys' \in Nat /\ destroys' >= destroys /\ sock' \in {"ended", "destroyed"}
          /\ sock = "destroyed" => sock' = "destroyed"
      BY <1>1, <2>3 DEF EndSocket, TypeOK
    <3> QED BY <2>1, <3>1, <3>2, MovePreserves
  <2> QED BY <1>4, <2>2, <2>3 DEF Proved
<1>5. CASE Replied(r)
  <2>1. /\ pc[r] = "replying"
        /\ UNCHANGED <<received, msg, replies, session, stratumSubscription, streams, registration>>
    BY <1>5 DEF Replied
  <2>2. CASE clientSubscription /\ clientAuthorization /\ ~stratumInitialized
    BY <1>5, <2>1, <2>2, InitStratumPreserves DEF Replied, AfterSwitch
  <2>3. CASE ~(clientSubscription /\ clientAuthorization /\ ~stratumInitialized)
    <3>1. EntityInv' /\ entity' \in {"none", "creating", "created"} /\ inserts' \in Nat
      BY <1>1, <2>1 DEF TypeOK, EntityInv, registration
    <3>2. /\ pc' = [pc EXCEPT ![r] = "done"] /\ UNCHANGED <<stream, sock, closed, destroys>>
          /\ destroys' \in Nat /\ destroys' >= destroys /\ sock' \in {"open", "ended", "destroyed"}
      BY <1>1, <1>5, <2>1, <2>3 DEF Replied, AfterSwitch, TypeOK, connection, stream
    <3> QED BY <2>1, <3>1, <3>2, MovePreserves
  <2> QED BY <2>2, <2>3
<1>6. CASE Rejected(r)
  <2>1. EntityInv' /\ entity' \in {"none", "creating", "created"} /\ inserts' \in Nat
    BY <1>1, <1>6 DEF Rejected, TypeOK, EntityInv, registration
  <2>2. /\ pc' = [pc EXCEPT ![r] = "done"] /\ UNCHANGED <<sock, closed, destroys>>
        /\ destroys' \in Nat /\ destroys' >= destroys /\ sock' \in {"open", "ended", "destroyed"}
    BY <1>1, <1>6 DEF Rejected, TypeOK, connection
  <2> QED BY <1>6, <2>1, <2>2, MovePreserves DEF Rejected
<1>7. CASE MaskErrorReplied(r)
  BY <1>1, <1>7, ReplyPreserves DEF MaskErrorReplied, ReplyKinds, TypeOK, session
<1>8. CASE Initialized(r)
  BY <1>8, InitializedPreserves
<1>9. CASE WriteFailed(r)
  <2>1. destroys' \in Nat /\ destroys' >= destroys
    BY <1>1, <1>9 DEF WriteFailed, StartDestroy, TypeOK
  <2> QED BY <1>1, <1>9, <2>1, MovePreserves
          DEF WriteFailed, Writing, TypeOK, EntityInv, registration
<1> QED BY <1>2, <1>3, <1>4, <1>5, <1>6, <1>7, <1>8, <1>9 DEF HandlerStep

\* A step in which no handler moves.
LEMMA EnvironmentPreserves ==
  ASSUME IInv, UNCHANGED <<received, msg, pc, replies, session>>,
         UNCHANGED <<stratumInitialized, streams, inserts>>,
         stratumSubscription' \in BOOLEAN, stratumSubscription' => stratumSubscription,
         entity' = entity \/ entity' = "created",
         sock' = sock \/ sock' = "destroyed", destroys' \in Nat,
         \/ closed' = closed /\ (stratumSubscription' => destroys' >= destroys)
         \/ /\ closed' = TRUE /\ sock = "destroyed" /\ \A r \in Requests : pc[r] \notin Writing
            /\ stratumSubscription' => destroys' > 0
  PROVE  IInv'
<1>1. TypeOK /\ closed' \in BOOLEAN
  BY DEF IInv, TypeOK
<1>2. TypeOK'
  BY <1>1 DEF TypeOK, session
<1>3. ASSUME NEW r \in Requests PROVE PlaceInv(r)' /\ ReplyInv(r)'
  <2>1. PlaceInv(r)'
    BY DEF IInv, PlaceInv
  <2>2. ReplyInv(r)'
    BY DEF IInv, ReplyInv
  <2> QED BY <2>1, <2>2
<1>4. SoleInitializer' /\ StreamInv' /\ EntityInv'
  BY <1>1 DEF IInv, TypeOK, SoleInitializer, StreamInv, EntityInv, session
<1>5. CloseInv'
  <2>1. CASE closed' = closed /\ (stratumSubscription' => destroys' >= destroys)
    BY <1>1, <2>1 DEF IInv, TypeOK, CloseInv
  <2>2. CASE sock = "destroyed" /\ (stratumSubscription' => destroys' > 0)
    BY <2>2 DEF CloseInv
  <2> QED BY <2>1, <2>2
<1> QED BY <1>2, <1>3, <1>4, <1>5 DEF IInv

LEMMA NextIInv == IInv /\ [Next]_vars => IInv'
<1> SUFFICES ASSUME IInv, [Next]_vars PROVE IInv'
  OBVIOUS
<1> USE DEF stream, registration, connection
<1>1. TypeOK
  BY DEF IInv
<1>2. ASSUME NEW m \in Messages[received + 1], received < NumRequests, Receive(m) PROVE IInv'
  BY <1>2, ReceiveIInv
<1>3. ASSUME NEW r \in Requests, HandlerStep(r) PROVE IInv'
  BY <1>3, HandlerIInv
<1>4. CASE EntityCreated
  BY <1>1, <1>4, EnvironmentPreserves DEF EntityCreated, TypeOK
<1>5. CASE NotifyFails
  <2>1. destroys' \in Nat /\ destroys' >= destroys
    BY <1>1, <1>5 DEF NotifyFails, StartDestroy, TypeOK
  <2> QED BY <1>1, <1>5, <2>1, EnvironmentPreserves DEF NotifyFails, TypeOK
<1>6. CASE PeerGone
  BY <1>1, <1>6, EnvironmentPreserves DEF PeerGone, TypeOK
<1>7. CASE Close
  <2>1. destroys' \in Nat /\ (stratumSubscription => destroys' > 0)
    BY <1>1, <1>7 DEF IInv, StreamInv, Close, StartDestroy, TypeOK
  <2> QED BY <1>1, <1>7, <2>1, EnvironmentPreserves DEF Close, TypeOK
<1>8. CASE Destroyed
  <2>1. destroys' \in Nat /\ stratumSubscription' = FALSE
    BY <1>1, <1>8 DEF Destroyed, TypeOK
  <2> QED BY <1>8, <2>1, EnvironmentPreserves DEF Destroyed
<1>9. CASE UNCHANGED vars
  BY <1>1, <1>9, EnvironmentPreserves DEF vars, TypeOK
<1> QED BY <1>2, <1>3, <1>4, <1>5, <1>6, <1>7, <1>8, <1>9 DEF Next

LEMMA InductiveInvariant == Spec => []IInv
BY InitIInv, NextIInv, PTL DEF Spec

-----------------------------------------------------------------------------
\* The fields of a connection keep their types, and a miner is never granted a
\* version bit that is not rollable.
THEOREM TypeCorrect == Spec => []TypeOK
<1>1. IInv => TypeOK
  BY DEF IInv
<1> QED BY <1>1, InductiveInvariant, PTL

\* Whatever messages are pipelined, and however their handlers interleave, the
\* connection subscribes to newMiningJob$ at most once.
THEOREM OneJobStream == Spec => []OneStream
BY IInvImplies, InductiveInvariant, PTL

\* However many shares arrive before clientService.insert returns, the client is
\* inserted once.
THEOREM RegisteredOnlyOnce == Spec => []RegisteredOnce
BY IInvImplies, InductiveInvariant, PTL

\* The assertions of handleMiningSubmission never fail.
THEOREM AuthorizedSubmissions == Spec => []SubmissionsAreAuthorized
BY IInvImplies, InductiveInvariant, PTL

\* Once 'close' was emitted and the calls of destroy() returned, no subscription
\* to newMiningJob$ is left behind.
THEOREM NoLeakAfterClose == Spec => []NoStreamAfterClose
BY IInvImplies, InductiveInvariant, PTL

\* No handler ends on a usable socket without having replied.
THEOREM RepliesWhenDone == Spec => []AnsweredWhenDone
BY IInvImplies, InductiveInvariant, PTL

\* Only a share that is refused for its version mask is ever answered twice: with
\* the error, then with result true.
THEOREM OneReply == Spec => []OneReplyPerRequest
BY IInvImplies, InductiveInvariant, PTL
=============================================================================
