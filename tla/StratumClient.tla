--------------------------- MODULE StratumClient ----------------------------
(***************************************************************************)
(* One stratum connection: StratumV1Client and the socket handlers that    *)
(* StratumV1Service installs for it.                                       *)
(*                                                                         *)
(* Every line received starts a call of handleMessage, and nothing waits   *)
(* for the calls before it: calls interleave wherever one awaits, which is *)
(* while a message is validated, while a reply is written to the socket,   *)
(* while the client is registered, and while a proof is submitted.  pc[r]  *)
(* says what the call for request r awaits.  The socket may go away at any *)
(* time.  Node reports the fate of every pending write before it emits     *)
(* 'close'; the code then runs up to its next await before any I/O ends.   *)
(***************************************************************************)
EXTENDS Naturals, Sequences, FiniteSets

CONSTANTS
  NumRequests,  \* bound: lines received on the connection
  Messages,     \* line -> what it may hold
  NoMask,       \* no mask parameter
  NoConfig,     \* no configure message was handled
  Bits,         \* version bits that masks are made of
  Rollable,     \* the bits of 0x1fffe000
  MaxDestroys   \* bound: calls of destroy under way when a job cannot be sent

Methods == {"subscribe", "configure", "authorize", "submit", "other", "garbage"}

ASSUME MessageAssumption ==
  /\ NumRequests \in Nat /\ MaxDestroys \in Nat
  /\ Rollable \subseteq Bits /\ NoMask # NoConfig
  /\ \A mask \in SUBSET Bits : mask # NoMask /\ mask # NoConfig
  /\ Messages \in [1 .. NumRequests -> SUBSET [method : Methods,
                                              validity : {"valid", "invalid", "malformed"},
                                              mask : {NoMask} \cup SUBSET Bits]]

VARIABLES
  received,             \* lines received so far
  msg,                  \* request -> its message
  pc,                   \* request -> what its handler awaits
  replies,              \* request -> kinds of the replies written for it
  clientSubscription,   \* hasValue(clientSubscription); the session id is set
  clientAuthorization,  \* hasValue(clientAuthorization)
  clientConfiguration,  \* mask granted, NoMask: no rolling, NoConfig: never asked
  stratumInitialized,
  stratumSubscription,  \* subscribed to newMiningJob$ now
  streams,              \* times newMiningJob$ was subscribed to
  entity,               \* "none", "creating" (creatingEntity), "created"
  inserts,              \* calls of clientService.insert
  sock,                 \* "open", "ended" by us, "destroyed"
  closed,               \* 'close' was emitted
  destroys              \* calls of destroy that await clientService.delete

connection == <<sock, closed, destroys>>
session == <<clientSubscription, clientAuthorization, clientConfiguration>>
stream == <<stratumInitialized, stratumSubscription, streams>>
registration == <<entity, inserts>>
vars == <<received, msg, pc, replies, session, stream, registration, connection>>

Requests == 1 .. NumRequests
Writing == {"replying", "rejecting", "maskError", "initializing"}
PCs == Writing \cup {"new", "validating", "registering", "proving", "done"}
ReplyKinds == {"result", "error", "maskNotAllowed", "invalidMask"}

Init ==
  /\ received = 0
  /\ msg = [r \in Requests |-> [method |-> "other", validity |-> "valid", mask |-> NoMask]]
  /\ pc = [r \in Requests |-> "new"]
  /\ replies = [r \in Requests |-> <<>>]
  /\ clientSubscription = FALSE /\ clientAuthorization = FALSE
  /\ clientConfiguration = NoConfig
  /\ stratumInitialized = FALSE /\ stratumSubscription = FALSE /\ streams = 0
  /\ entity = "none" /\ inserts = 0
  /\ sock = "open" /\ closed = FALSE /\ destroys = 0

-----------------------------------------------------------------------------
(* The socket and destroy().                                               *)

\* Calling destroy: with a session it first awaits clientService.delete; a
\* connection without one has nothing to release.
StartDestroy == destroys' = destroys + (IF clientSubscription THEN 1 ELSE 0)

\* write(): on a usable socket the handler awaits the callback at state next,
\* otherwise the connection is torn down and the handler returns.
Write(r, next) ==
  IF sock = "open"
    THEN pc' = [pc EXCEPT ![r] = next] /\ UNCHANGED connection
    ELSE /\ pc' = [pc EXCEPT ![r] = "done"]
         /\ sock' = "destroyed"
         /\ StartDestroy
         /\ UNCHANGED closed

\* write() of a reply to request r.
Reply(r, kind, next) ==
  /\ Write(r, next)
  /\ replies' = IF sock = "open" THEN [replies EXCEPT ![r] = Append(@, kind)] ELSE replies

\* socket.end(), and the handler is over.
EndSocket(r) ==
  /\ sock' = IF sock = "open" THEN "ended" ELSE sock
  /\ pc' = [pc EXCEPT ![r] = "done"]
  /\ UNCHANGED <<closed, destroys, replies>>

-----------------------------------------------------------------------------
(* handleMessage.                                                          *)

\* Mutant of initStratum: the flag is set once the difficulty was written.
initStratumLate(r) == Write(r, "initializing") /\ UNCHANGED stratumInitialized

\* initStratum up to the await of its write; the flag is set before it.
initStratum(r) == stratumInitialized' = TRUE /\ Write(r, "initializing")

\* The end of handleMessage, after the switch.
AfterSwitch(r) ==
  IF clientSubscription /\ clientAuthorization /\ ~stratumInitialized
    THEN initStratum(r)
    ELSE pc' = [pc EXCEPT ![r] = "done"] /\ UNCHANGED <<stratumInitialized, connection>>

\* Mutant of SubmitTooEarly: submissions are handled before authorization.
SubmitNeverTooEarly(m) == FALSE

\* Submit before initialized.
SubmitTooEarly(m) == m.method = "submit" /\ ~stratumInitialized

\* A line arrives and its handler runs to its first await.  A line that is no
\* JSON, or whose parameters the message class cannot be built from, ends the
\* connection; a method without a handler goes on after the switch.  Lines come
\* until 'close': those of one chunk are handled even if one of them, or a
\* handler under way, destroys the socket.
Receive(m) ==
  /\ ~closed
  /\ received' = received + 1
  /\ LET r == received + 1
     IN /\ msg' = [msg EXCEPT ![r] = m]
        /\ \/ /\ m.method = "garbage" \/ m.validity = "malformed" \/ SubmitTooEarly(m)
              /\ EndSocket(r)
              /\ UNCHANGED stratumInitialized
           \/ /\ m.method = "other" /\ m.validity # "malformed"
              /\ AfterSwitch(r)
              /\ UNCHANGED replies
           \/ /\ m.method \notin {"garbage", "other"} /\ m.validity # "malformed"
              /\ ~SubmitTooEarly(m)
              /\ pc' = [pc EXCEPT ![r] = "validating"]
              /\ UNCHANGED <<connection, replies, stratumInitialized>>
  /\ UNCHANGED <<session, stratumSubscription, streams, registration>>

-----------------------------------------------------------------------------
(* Submissions.                                                            *)

\* versionMask of a MiningSubmitMessage: '0' when the parameter is absent.
versionMask(m) == IF m.mask = NoMask THEN {} ELSE m.mask

\* clientConfiguration?.versionRolling
VersionRolling == clientConfiguration \notin {NoConfig, NoMask}

\* Mutant of JobMissing: the reply to an unknown job is forgotten.
JobMissingSilently(r) ==
  pc' = [pc EXCEPT ![r] = "done"] /\ UNCHANGED <<replies, connection>>

\* A miner may submit a job that doesn't exist anymore.
JobMissing(r) == Reply(r, "error", "rejecting")

\* handleMiningSubmission from getJobById to its next await.  The version mask
\* is looked at only now, against the configuration of this moment.
LookUpJob(r) ==
  \/ JobMissing(r)
  \/ IF VersionRolling /\ ~(versionMask(msg[r]) \subseteq clientConfiguration)
       THEN Reply(r, "invalidMask", "maskError")
       ELSE pc' = [pc EXCEPT ![r] = "proving"] /\ UNCHANGED <<replies, connection>>

\* Mutant of Register: every submission without an entity inserts one.
RegisterEach(r) ==
  /\ entity # "created"
  /\ entity' = "creating"
  /\ inserts' = inserts + 1
  /\ pc' = [pc EXCEPT ![r] = "registering"]
  /\ UNCHANGED <<replies, connection>>

\* The first submission inserts the client, the ones after it await the same
\* promise.
Register(r) ==
  /\ entity # "created"
  /\ entity' = "creating"
  /\ inserts' = IF entity = "none" THEN inserts + 1 ELSE inserts
  /\ pc' = [pc EXCEPT ![r] = "registering"]
  /\ UNCHANGED <<replies, connection>>

\* handleSubmitMessage after validation.  versionMask always has a value.
HandleSubmit(r) ==
  /\ UNCHANGED <<session, stream>>
  /\ \/ /\ ~VersionRolling
        /\ Reply(r, "maskNotAllowed", "rejecting")
        /\ UNCHANGED registration
     \/ VersionRolling /\ Register(r)
     \/ /\ VersionRolling /\ entity = "created"
        /\ LookUpJob(r)
        /\ UNCHANGED registration

\* Mutant of EntityCreated: the promise of the entity is never resolved.
EntityNeverCreated == entity = "creating" /\ UNCHANGED vars

\* clientService.insert returns: the entity is there.
EntityCreated ==
  /\ entity = "creating"
  /\ entity' = "created"
  /\ UNCHANGED <<received, msg, pc, replies, session, stream, inserts, connection>>

\* A submission that awaited the entity goes on.
Registered(r) ==
  /\ pc[r] = "registering" /\ entity = "created"
  /\ LookUpJob(r)
  /\ UNCHANGED <<received, msg, session, stream, registration>>

\* submitProof returns a result or an error, or throws.
Proved(r) ==
  /\ pc[r] = "proving"
  /\ \/ Reply(r, "result", "replying")
     \/ Reply(r, "error", "rejecting")
     \/ EndSocket(r)
  /\ UNCHANGED <<received, msg, session, stream, registration>>

-----------------------------------------------------------------------------
(* Validation, and what follows the writes.                                *)

\* Mutant of versionRollingMask: the miner is granted every bit it asks for.
versionRollingMaskUnfiltered(m) == m.mask

\* The mask a configure message is granted; NoMask without version rolling.
versionRollingMask(m) == IF m.mask = NoMask THEN NoMask ELSE m.mask \cap Rollable

\* handleSubscriptionMessage, handleConfigureMessage and
\* handleAuthorizationMessage after validation.
HandleSubscription(r) ==
  /\ clientSubscription' = TRUE
  /\ Reply(r, "result", "replying")
  /\ UNCHANGED <<clientAuthorization, clientConfiguration, stream, registration>>

HandleConfigure(r) ==
  /\ clientConfiguration' = versionRollingMask(msg[r])
  /\ Reply(r, "result", "replying")
  /\ UNCHANGED <<clientSubscription, clientAuthorization, stream, registration>>

HandleAuthorization(r) ==
  /\ clientAuthorization' = TRUE
  /\ Reply(r, "result", "replying")
  /\ UNCHANGED <<clientSubscription, clientConfiguration, stream, registration>>

\* A validation error that could be written: the handler returns true, like a
\* handler that succeeded.
HandleInvalid(r) ==
  /\ msg[r].validity = "invalid"
  /\ Reply(r, "error", "replying")
  /\ UNCHANGED <<session, stream, registration>>

HandleValid(r) ==
  /\ msg[r].validity = "valid"
  /\ \/ msg[r].method = "subscribe" /\ HandleSubscription(r)
     \/ msg[r].method = "configure" /\ HandleConfigure(r)
     \/ msg[r].method = "authorize" /\ HandleAuthorization(r)
     \/ msg[r].method = "submit" /\ HandleSubmit(r)

\* validateMessage returns, and the handler runs to its next await.
Validated(r) ==
  /\ pc[r] = "validating"
  /\ HandleInvalid(r) \/ HandleValid(r)
  /\ UNCHANGED <<received, msg>>

\* The reply of a handler was written: handleMessage goes on after the switch.
Replied(r) ==
  /\ pc[r] = "replying"
  /\ AfterSwitch(r)
  /\ UNCHANGED <<received, msg, replies, session, stratumSubscription, streams, registration>>

\* Mutant of Rejected: the false of a handler is not looked at.
RejectedUnnoticed(r) ==
  /\ pc[r] = "rejecting"
  /\ Reply(r, "result", "replying")
  /\ UNCHANGED <<received, msg, session, stream, registration>>

\* The reply of a handler that returns false was written.
Rejected(r) ==
  /\ pc[r] = "rejecting"
  /\ pc' = [pc EXCEPT ![r] = "done"]
  /\ UNCHANGED <<received, msg, replies, session, stream, registration, connection>>

\* handleMiningSubmission returned the true of its write of 'Invalid version
\* mask', so handleSubmitMessage goes on to reply that the share was accepted.
MaskErrorReplied(r) ==
  /\ pc[r] = "maskError"
  /\ Reply(r, "result", "replying")
  /\ UNCHANGED <<received, msg, session, stream, registration>>

\* The difficulty was written: subscribe to newMiningJob$.
Initialized(r) ==
  /\ pc[r] = "initializing"
  /\ stratumSubscription' = TRUE
  /\ streams' = streams + 1
  /\ stratumInitialized' = TRUE
  /\ pc' = [pc EXCEPT ![r] = "done"]
  /\ UNCHANGED <<received, msg, replies, session, registration, connection>>

\* The callback of a write reports an error: all handlers return.
WriteFailed(r) ==
  /\ pc[r] \in Writing /\ sock = "destroyed"
  /\ StartDestroy
  /\ pc' = [pc EXCEPT ![r] = "done"]
  /\ UNCHANGED <<received, msg, replies, session, stream, registration, sock, closed>>

-----------------------------------------------------------------------------
(* The end of the connection.                                              *)

\* A job cannot be sent: sendNewMiningJob -> write on a socket not usable.
NotifyFails ==
  /\ stratumSubscription /\ sock # "open" /\ destroys < MaxDestroys
  /\ sock' = "destroyed"
  /\ StartDestroy
  /\ UNCHANGED <<received, msg, pc, replies, session, stream, registration, closed>>

\* The peer resets or finishes the connection, or the 5 min timeout expires.
PeerGone ==
  /\ sock # "destroyed"
  /\ sock' = "destroyed"
  /\ UNCHANGED <<received, msg, pc, replies, session, stream, registration, closed, destroys>>

\* Mutant of Close: the 'close' handler does nothing.
CloseForgotten ==
  /\ sock = "destroyed" /\ ~closed
  /\ \A r \in Requests : pc[r] \notin Writing
  /\ closed' = TRUE
  /\ UNCHANGED <<received, msg, pc, replies, session, stream, registration, sock, destroys>>

\* 'close' is emitted, after the callbacks of all writes.
Close ==
  /\ sock = "destroyed" /\ ~closed
  /\ \A r \in Requests : pc[r] \notin Writing
  /\ closed' = TRUE
  /\ StartDestroy
  /\ UNCHANGED <<received, msg, pc, replies, session, stream, registration, sock>>

\* Mutant of Destroyed: destroy() only deletes the client.
DestroyedStillSubscribed ==
  /\ destroys > 0
  /\ destroys' = destroys - 1
  /\ UNCHANGED <<received, msg, pc, replies, session, stream, registration, sock, closed>>

\* clientService.delete returns to destroy(), which unsubscribes.
Destroyed ==
  /\ destroys > 0
  /\ destroys' = destroys - 1
  /\ stratumSubscription' = FALSE
  /\ UNCHANGED <<received, msg, pc, replies, session, stratumInitialized, streams,
                 registration, sock, closed>>

HandlerStep(r) ==
  \/ Validated(r) \/ Registered(r) \/ Proved(r)
  \/ Replied(r) \/ Rejected(r) \/ MaskErrorReplied(r) \/ Initialized(r) \/ WriteFailed(r)

Next ==
  \/ received < NumRequests /\ \E m \in Messages[received + 1] : Receive(m)
  \/ \E r \in Requests : HandlerStep(r)
  \/ EntityCreated
  \/ NotifyFails \/ PeerGone \/ Close \/ Destroyed

Spec == Init /\ [][Next]_vars

\* Promises settle: validation, writes, the database, the chain and the socket
\* all answer; jobs keep coming (a tick a minute).  Peers owe nothing.
FairSpec ==
  /\ Spec
  /\ \A r \in Requests : WF_vars(HandlerStep(r))
  /\ WF_vars(EntityCreated)
  /\ WF_vars(NotifyFails) /\ WF_vars(Close) /\ WF_vars(Destroyed)

-----------------------------------------------------------------------------
(* What is checked.                                                        *)

\* The fields of a connection; the mask granted to a miner has rollable bits
\* only.
TypeOK ==
  /\ received \in 0 .. NumRequests
  /\ msg \in [Requests -> [method : Methods,
                           validity : {"valid", "invalid", "malformed"},
                           mask : {NoMask} \cup SUBSET Bits]]
  /\ pc \in [Requests -> PCs]
  /\ replies \in [Requests -> Seq(ReplyKinds)]
  /\ clientSubscription \in BOOLEAN /\ clientAuthorization \in BOOLEAN
  /\ clientConfiguration \in {NoMask, NoConfig} \cup SUBSET Rollable
  /\ stratumInitialized \in BOOLEAN /\ stratumSubscription \in BOOLEAN
  /\ streams \in Nat /\ inserts \in Nat /\ destroys \in Nat
  /\ entity \in {"none", "creating", "created"}
  /\ sock \in {"open", "ended", "destroyed"} /\ closed \in BOOLEAN

\* However the handlers of pipelined messages interleave, a connection is
\* subscribed to newMiningJob$ at most once: destroy() can release only one.
OneStream == streams <= 1

\* Concurrent first submissions register the client once.
RegisteredOnce == inserts <= 1

\* The assertions of handleMiningSubmission hold: a submission being registered
\* or proved belongs to a client that is subscribed and authorized.
SubmissionsAreAuthorized ==
  \A r \in Requests :
     pc[r] \in {"registering", "proving"} => clientSubscription /\ clientAuthorization

\* After 'close' and the destroy it started nothing is left subscribed, whatever
\* destroys, writes and handlers were under way: no job stream leaks.
NoStreamAfterClose == closed /\ destroys = 0 => ~stratumSubscription

\* A handler that is done while the socket is usable has replied to its request
\* (all methods with a handler reply).
AnsweredWhenDone ==
  \A r \in Requests :
     pc[r] = "done" /\ sock = "open" /\ msg[r].method # "other" => replies[r] # <<>>

\* A request has one response, whichever of the nested handlers sends it.  The
\* one exception is a share that is refused for the bits of its version mask: the
\* error is followed by result true, and by nothing else.
OneReplyPerRequest ==
  \A r \in Requests : Len(replies[r]) > 1 => replies[r] = <<"invalidMask", "result">>

\* A response is an error or a result: no request is answered with both.  The code
\* breaks it for a share that is refused for its version mask.
ErrorOrResult ==
  \A r \in Requests : \A j, k \in DOMAIN replies[r] :
     replies[r][j] = "result" => replies[r][k] = "result"

\* The version mask is a parameter of clients with version rolling only: a share
\* without one is not rejected for its mask.  The code breaks it: the mask
\* defaults to '0', which counts as a mask.
MasklessShareHasNoMask ==
  \A r \in Requests : msg[r].mask = NoMask =>
     \A k \in DOMAIN replies[r] : replies[r][k] # "maskNotAllowed"

\* Every handler comes to its end.
HandlersEnd == \A r \in Requests : (pc[r] # "new") ~> (pc[r] = "done")

\* A connection that is no longer usable is released: also one that we ended
\* and the peer keeps half open.
StreamReleased == (sock # "open") ~> [](~stratumSubscription)
=============================================================================
