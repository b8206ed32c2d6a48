------------------------- MODULE ShareDeliveryProofs ------------------------
(***************************************************************************)
(* No share is lost or handled twice on its way from a miner thread to the *)
(* pool, and no failure of the network ends a miner that retries for ever: *)
(* for any number of threads, shares, jobs, failures and retries.          *)
(*                                                                         *)
(* The queue holds a share once, and nothing that was not found; a share   *)
(* gets an id that none had before; the workio thread takes the next only  *)
(* when it has none.  With unlimited retries nobody pushes the NULL that   *)
(* ends the workio thread.                                                 *)
(***************************************************************************)
EXTENDS ShareDelivery, FiniteSetTheorems, SequenceTheorems, TLAPS

Waits(s) == \E i \in 1..Len(tq) : tq[i] = s

\* The queue holds shares that were found, each once, and NULLs.
QueueInv ==
  /\ tq \in Seq(Share \cup {NULL})
  /\ \A i \in 1..Len(tq) : tq[i] # NULL => tq[i] \in found
  /\ \A i, j \in 1..Len(tq) : tq[i] = tq[j] /\ tq[i] # NULL => i = j

\* Ids are given in turn.
FreshInv == IsFiniteSet(found) /\ \A s \in found : s.id <= Cardinality(found)

\* The workio thread has a share while it works on one, and none while it waits.
CmdInv ==
  /\ cmd # NULL => cmd \in found
  /\ wpc \in {"check", "send"} => cmd # NULL
  /\ wpc = "pop" => cmd = NULL

\* No share is in two places ...
Apart ==
  \A s \in found : /\ s \in resolved => s # cmd /\ ~Waits(s)
                   /\ s = cmd => ~Waits(s)

\* ... and, until the queue is frozen, none is in no place.
Somewhere == ~frozen => \A s \in found : s \in resolved \/ s = cmd \/ Waits(s)

\* With unlimited retries only a spurious wakeup ends the workio thread.
RetryInv ==
  opt_retries = -1 => /\ \A i \in 1..Len(tq) : tq[i] # NULL
                      /\ spurious \/ wpc \in {"pop", "check", "send"}

ShareInv == QueueInv /\ FreshInv /\ CmdInv /\ Apart /\ Somewhere /\ RetryInv

IInv == TypeOK /\ ShareInv

-----------------------------------------------------------------------------
(* Types of the stratum and the miner threads' state.                      *)

StratumPCs ==
  {"top", "dial", "connect", "subscribe", "authorize", "newjob", "lock", "gen", "recv", "gone"}

MachineTypes ==
  /\ opt_retries \in OptRetries /\ spc \in StratumPCs
  /\ failures \in Nat /\ conn \in {"none", "up", "lost"} /\ ready \in BOOLEAN
  /\ need_reset \in BOOLEAN /\ troubles \in 0..MaxTroubles
  /\ prev \in 0..MaxBlocks /\ g_prev \in 0..prev /\ g_id \in {"zero", "old", "same"}
  /\ mpc \in [Threads -> {"mine", "gen", "dead"}] /\ mined \in [Threads -> 0..MaxBlocks]

ShareTypes ==
  /\ frozen \in BOOLEAN /\ spurious \in BOOLEAN /\ tries \in Nat
  /\ wpc \in {"pop", "check", "send", "end", "dead", "exited"}
  /\ cmd \in Share \cup {NULL}
  /\ found \subseteq Share /\ resolved \subseteq found

LEMMA TypesSplit == IInv <=> MachineTypes /\ ShareTypes /\ ShareInv
<1>1. ASSUME IInv PROVE MachineTypes /\ ShareTypes /\ ShareInv
  BY <1>1 DEF IInv, TypeOK, MachineTypes, ShareTypes, StratumPCs
<1>2. ASSUME MachineTypes, ShareTypes, ShareInv PROVE IInv
  <2>1. \A i \in 1..Len(tq) : tq[i] \in Share \cup {NULL}
    BY <1>2 DEF ShareInv, QueueInv
  <2>2. wpc \in {"check", "send"} => cmd \in Share
    BY <1>2 DEF ShareTypes, ShareInv, CmdInv
  <2> QED BY <1>2, <2>1, <2>2 DEF IInv, TypeOK, MachineTypes, ShareTypes, StratumPCs
<1> QED BY <1>1, <1>2

LEMMA MachineNext ==
  ASSUME MachineTypes, [Next]_vars
  PROVE  MachineTypes'
<1> USE DEF MachineTypes, StratumPCs, stratumVars, workVars, minerVars
<1>1. ASSUME CheckJob PROVE spc' \in {"lock", "recv"}
  BY <1>1 DEF CheckJob
<1>2. ASSUME Trouble PROVE troubles' \in 0..MaxTroubles
  BY <1>2, DeliveryAssumption DEF Trouble
<1>3. CASE StratumTop
  BY <1>1, <1>3 DEF StratumTop
<1>4. CASE Dial \/ stratum_connect \/ stratum_subscribe \/ stratum_authorize
  BY <1>4 DEF Dial, stratum_connect, stratum_subscribe, stratum_authorize
<1>5. CASE HandshakeFails
  <2>1. troubles' \in 0..MaxTroubles
    BY <1>2, <1>5 DEF HandshakeFails
  <2>2. failures' \in Nat
    BY <1>5 DEF HandshakeFails, CountFailure
  <2>3. spc' \in {"gone", "dial"}
    BY <1>5 DEF HandshakeFails
  <2> QED BY <1>5, <2>1, <2>2, <2>3 DEF HandshakeFails
<1>6. CASE Connected \/ BeginWork
  BY <1>1, <1>6 DEF Connected, BeginWork
<1>7. CASE FinishWork
  BY <1>7, DeliveryAssumption DEF FinishWork
<1>8. CASE stratum_notify
  <2>1. prev' \in 0..MaxBlocks /\ prev' >= prev
    BY <1>8, DeliveryAssumption DEF stratum_notify
  <2> QED BY <1>8, <2>1 DEF stratum_notify
<1>9. CASE OtherLine
  BY <1>9 DEF OtherLine
<1>10. CASE ReceiveFails
  <2>1. troubles' \in 0..MaxTroubles
    BY <1>2, <1>10 DEF ReceiveFails
  <2> QED BY <1>10, <2>1 DEF ReceiveFails
<1>11. CASE tq_pop \/ CheckStale \/ tq_freeze \/ SpuriousWakeup
  BY <1>11 DEF tq_pop, CheckStale, tq_freeze, SpuriousWakeup
<1>12. CASE SendShare
  BY <1>12 DEF SendShare
<1>13. CASE SendFails
  <2>1. troubles' \in 0..MaxTroubles
    BY <1>2, <1>13 DEF SendFails
  <2> QED BY <1>13, <2>1 DEF SendFails
<1>14. CASE Exit
  BY <1>14 DEF Exit
<1>15. CASE PoolInitializes
  BY <1>15 DEF PoolInitializes
<1>16. CASE ConnectionLost \/ remote_seturl
  <2>1. troubles' \in 0..MaxTroubles
    BY <1>2, <1>16 DEF ConnectionLost, remote_seturl
  <2> QED BY <1>16, <2>1 DEF ConnectionLost, remote_seturl
<1>17. ASSUME NEW t \in Threads, MinerStep(t) PROVE MachineTypes'
  <2>1. CASE TakeWork(t)
    <3>1. g_prev \in 0..MaxBlocks
      BY DeliveryAssumption
    <3> QED BY <2>1, <3>1 DEF TakeWork
  <2>2. CASE BeginRegenerate(t)
    BY <2>2 DEF BeginRegenerate
  <2>3. CASE Regenerate(t)
    BY <2>3, DeliveryAssumption DEF Regenerate
  <2>4. CASE FindShare(t)
    BY <2>4 DEF FindShare
  <2> QED BY <1>17, <2>1, <2>2, <2>3, <2>4 DEF MinerStep
<1>18. CASE UNCHANGED vars
  BY <1>18 DEF vars
<1> QED BY <1>3, <1>4, <1>5, <1>6, <1>7, <1>8, <1>9, <1>10, <1>11, <1>12, <1>13, <1>14,
           <1>15, <1>16, <1>17, <1>18 DEF Next, StratumStep, Receive, WorkioStep

-----------------------------------------------------------------------------
(* Shares.                                                                 *)

LEMMA InitIInv == Init => IInv
<1> SUFFICES ASSUME Init PROVE IInv
  OBVIOUS
<1>1. MachineTypes
  <2>1. 0 \in 0..MaxBlocks /\ 0 \in 0..MaxTroubles /\ 0 \in 0..0
    BY DeliveryAssumption
  <2>2. /\ mpc \in [Threads -> {"mine", "gen", "dead"}] /\ mined \in [Threads -> 0..MaxBlocks]
        /\ spc \in StratumPCs
    BY <2>1 DEF Init, StratumPCs
  <2> QED BY <2>1, <2>2 DEF Init, MachineTypes
<1>2. ShareTypes
  BY DEF Init, ShareTypes
<1>3. tq \in Seq(Share \cup {NULL}) /\ Len(tq) = 0 /\ 1..Len(tq) = {}
  BY EmptySeq DEF Init
<1>4. QueueInv /\ CmdInv /\ Apart /\ Somewhere /\ RetryInv
  BY <1>3 DEF Init, QueueInv, CmdInv, Apart, Somewhere, RetryInv
<1>5. FreshInv
  BY FS_EmptySet DEF Init, FreshInv
<1> QED BY <1>1, <1>2, <1>4, <1>5, TypesSplit DEF ShareInv

\* The invariant implies the properties that the run checks.
LEMMA IInvImplies == IInv => TypeOK /\ SharesConserved /\ RetriesIndefinitely
<1> SUFFICES ASSUME IInv PROVE TypeOK /\ SharesConserved /\ RetriesIndefinitely
  OBVIOUS
<1>1. RetriesIndefinitely
  BY DEF IInv, ShareInv, RetryInv, RetriesIndefinitely
<1>2. ASSUME ~frozen, NEW s \in found PROVE \E x : Places(s) = {x}
  <2>1. s # NULL
    BY DeliveryAssumption DEF IInv, TypeOK
  <2>2. CASE s \in resolved
    <3>1. Places(s) = {"resolved"}
      BY <2>2 DEF IInv, ShareInv, Apart, Waits, Places
    <3> QED BY <3>1
  <2>3. CASE s = cmd
    <3>1. Places(s) = {"cmd"}
      BY <2>3 DEF IInv, ShareInv, Apart, Waits, Places
    <3> QED BY <3>1
  <2>4. CASE Waits(s)
    <3>1. PICK i \in 1..Len(tq) : tq[i] = s
      BY <2>4 DEF Waits
    <3>2. \A j \in 1..Len(tq) : tq[j] = s => j = i
      BY <2>1, <3>1 DEF IInv, ShareInv, QueueInv
    <3>3. s \notin resolved /\ s # cmd
      BY <2>4 DEF IInv, ShareInv, Apart
    <3>4. Places(s) = {i}
      BY <3>1, <3>2, <3>3 DEF Places
    <3> QED BY <3>4
  <2> QED BY <1>2, <2>2, <2>3, <2>4 DEF IInv, ShareInv, Somewhere
<1>3. SharesConserved
  BY <1>2, FS_Singleton DEF SharesConserved
<1> QED BY <1>1, <1>3 DEF IInv

\* Steps that touch neither the queue nor the share being sent.
LEMMA SharesUndisturbed ==
  ASSUME ShareTypes, ShareInv, UNCHANGED <<opt_retries, queueVars, workioVars, shareVars>>
  PROVE  ShareTypes' /\ ShareInv'
<1> USE DEF queueVars, workioVars, shareVars
<1>1. ShareTypes' /\ QueueInv' /\ FreshInv' /\ CmdInv' /\ RetryInv'
  BY DEF ShareTypes, ShareInv, QueueInv, FreshInv, CmdInv, RetryInv
<1>2. Apart' /\ Somewhere'
  BY DEF ShareInv, Apart, Somewhere, Waits
<1> QED BY <1>1, <1>2 DEF ShareInv

\* What a push does to the queue.
LEMMA PushEffect ==
  ASSUME tq \in Seq(Share \cup {NULL}), NEW x \in Share \cup {NULL}, ~frozen, tq_push(x)
  PROVE  /\ tq' \in Seq(Share \cup {NULL}) /\ Len(tq) \in Nat /\ Len(tq') = Len(tq) + 1
         /\ \A i \in 1..Len(tq) : tq'[i] = tq[i]
         /\ tq'[Len(tq) + 1] = x
BY AppendProperties DEF tq_push

\* stratum_thread gives up: a NULL is pushed, which it never is with unlimited
\* retries.
LEMMA HandshakeFailsShares ==
  ASSUME MachineTypes, ShareTypes, ShareInv, HandshakeFails
  PROVE  ShareTypes' /\ ShareInv'
<1>1. UNCHANGED <<opt_retries, frozen, workioVars, shareVars>>
  BY DEF HandshakeFails
<1>2. CASE tq' = tq
  BY <1>1, <1>2, SharesUndisturbed DEF queueVars
<1>3. CASE tq' # tq
  <2>1. ~frozen /\ tq_push(NULL) /\ opt_retries # -1
    BY <1>3 DEF HandshakeFails, tq_push, GivesUp
  <2>2. /\ tq' \in Seq(Share \cup {NULL}) /\ Len(tq) \in Nat /\ Len(tq') = Len(tq) + 1
        /\ \A i \in 1..Len(tq) : tq'[i] = tq[i]
        /\ tq'[Len(tq) + 1] = NULL
    BY <2>1, PushEffect DEF ShareInv, QueueInv
  <2>3. \A i \in 1..Len(tq') : tq'[i] # NULL => i \in 1..Len(tq) /\ tq'[i] = tq[i]
    BY <2>2
  <2>4. QueueInv'
    BY <1>1, <2>2, <2>3 DEF ShareInv, QueueInv, shareVars
  <2>5. ASSUME NEW s \in found PROVE Waits(s)' <=> Waits(s)
    <3>1. s # NULL
      BY DeliveryAssumption DEF ShareTypes
    <3> QED BY <2>2, <2>3, <3>1 DEF Waits
  <2>6. ShareTypes' /\ FreshInv' /\ CmdInv' /\ RetryInv'
    BY <1>1, <2>1
    DEF ShareTypes, ShareInv, FreshInv, CmdInv, RetryInv, workioVars, shareVars
  <2>7. Apart' /\ Somewhere'
    BY <1>1, <2>5 DEF ShareInv, Apart, Somewhere, workioVars, shareVars
  <2> QED BY <2>4, <2>6, <2>7 DEF ShareInv
<1> QED BY <1>2, <1>3

\* A share is found: its id is new, so it is in the queue and nowhere else.
LEMMA FindShareShares ==
  ASSUME MachineTypes, ShareTypes, ShareInv, NEW t \in Threads, FindShare(t)
  PROVE  ShareTypes' /\ ShareInv'
<1> DEFINE n == Cardinality(found)
           s == [id |-> n + 1, prev |-> mined[t]]
<1>1. IsFiniteSet(found) /\ n \in Nat
  BY FS_CardinalityType DEF ShareInv, FreshInv
<1>2. s \in Share /\ s # NULL
  <2>1. mined[t] \in 1..MaxBlocks
    BY DeliveryAssumption DEF MachineTypes, FindShare
  <2>2. n + 1 \in 1..MaxShares
    BY <1>1, DeliveryAssumption DEF FindShare
  <2> QED BY <2>1, <2>2, DeliveryAssumption DEF Share
<1>3. s \notin found
  BY <1>1 DEF ShareInv, FreshInv
<1>4. /\ found' = found \cup {s} /\ tq_push(s)
      /\ UNCHANGED <<opt_retries, frozen, wpc, cmd, tries, spurious, resolved>>
  BY DEF FindShare, workioVars
<1>5. Cardinality(found') = n + 1 /\ IsFiniteSet(found')
  BY <1>1, <1>3, <1>4, FS_AddElement
<1>6. FreshInv'
  <2>1. \A r \in found : r.id \in Nat /\ r.id <= n
    BY DEF ShareTypes, ShareInv, FreshInv, Share
  <2> QED BY <1>1, <1>4, <1>5, <2>1 DEF FreshInv
<1> HIDE DEF s, n
<1>7. ShareTypes' /\ CmdInv'
  BY <1>2, <1>4 DEF ShareTypes, ShareInv, CmdInv
<1>8. s # cmd /\ s \notin resolved /\ ~Waits(s)
  <2>1. s # cmd /\ s \notin resolved
    BY <1>2, <1>3 DEF ShareTypes, ShareInv, CmdInv
  <2>2. \A i \in 1..Len(tq) : tq[i] # s
    BY <1>2, <1>3 DEF ShareInv, QueueInv
  <2> QED BY <2>1, <2>2 DEF Waits
<1>9. CASE frozen
  <2>1. tq' = tq
    BY <1>4, <1>9 DEF tq_push
  <2>2. QueueInv' /\ RetryInv'
    BY <1>4, <2>1 DEF ShareInv, QueueInv, RetryInv
  <2>3. Apart'
    BY <1>4, <1>8, <2>1 DEF ShareInv, Apart, Waits
  <2>4. Somewhere'
    BY <1>4, <1>9 DEF Somewhere
  <2> QED BY <1>6, <1>7, <2>2, <2>3, <2>4 DEF ShareInv
<1>10. CASE ~frozen
  <2>1. /\ tq' \in Seq(Share \cup {NULL}) /\ Len(tq) \in Nat /\ Len(tq') = Len(tq) + 1
        /\ \A i \in 1..Len(tq) : tq'[i] = tq[i]
        /\ tq'[Len(tq) + 1] = s
    BY <1>2, <1>4, <1>10, PushEffect DEF ShareInv, QueueInv
  <2>2. \A i \in 1..Len(tq') :
            \/ i \in 1..Len(tq) /\ tq'[i] = tq[i] /\ tq[i] # s
            \/ i = Len(tq) + 1 /\ tq'[i] = s
    <3>1. \A i \in 1..Len(tq) : tq[i] # s
      BY <1>8 DEF Waits
    <3>2. \A i \in 1..Len(tq') : i \in 1..Len(tq) \/ i = Len(tq) + 1
      BY <2>1
    <3> QED BY <2>1, <3>1, <3>2
  <2>3. QueueInv'
    <3>1. \A i \in 1..Len(tq') : tq'[i] # NULL => tq'[i] \in found'
      BY <1>4, <2>2 DEF ShareInv, QueueInv
    <3>2. \A i, j \in 1..Len(tq') : tq'[i] = tq'[j] /\ tq'[i] # NULL => i = j
      BY <2>1, <2>2 DEF ShareInv, QueueInv
    <3> QED BY <2>1, <3>1, <3>2 DEF QueueInv
  <2>4. RetryInv'
    BY <1>2, <1>4, <2>2 DEF ShareInv, RetryInv
  <2>5. ASSUME NEW r \in found' PROVE Waits(r)' <=> Waits(r) \/ r = s
    BY <2>1, <2>2 DEF Waits
  <2>6. Apart'
    BY <1>3, <1>4, <1>8, <2>5 DEF ShareInv, Apart
  <2>7. Somewhere'
    BY <1>4, <2>5 DEF ShareInv, Somewhere
  <2> QED BY <1>6, <1>7, <2>3, <2>4, <2>6, <2>7 DEF ShareInv
<1> QED BY <1>9, <1>10

\* tq_pop: the share at the head of the queue is the one being handled now.
LEMMA PopShares ==
  ASSUME ShareTypes, ShareInv, tq_pop
  PROVE  ShareTypes' /\ ShareInv'
<1>1. /\ wpc = "pop" /\ cmd = NULL /\ cmd' = Head(tq) /\ tq' = Tail(tq) /\ tq # <<>>
      /\ wpc' = IF cmd' = NULL THEN "end" ELSE "check"
      /\ UNCHANGED <<opt_retries, tries, spurious, frozen, found, resolved>>
  BY DEF ShareInv, CmdInv, tq_pop, shareVars
<1>2. tq \in Seq(Share \cup {NULL})
  BY DEF ShareInv, QueueInv
<1>3. /\ tq' \in Seq(Share \cup {NULL}) /\ Len(tq) \in Nat /\ Len(tq) >= 1
      /\ Len(tq') = Len(tq) - 1 /\ cmd' = tq[1]
      /\ \A i \in 1..Len(tq') : tq'[i] = tq[i + 1] /\ i + 1 \in 1..Len(tq)
  BY <1>1, <1>2, HeadTailProperties, EmptySeq
<1>4. 1 \in 1..Len(tq) /\ \A i \in 1..Len(tq) : i = 1 \/ (i - 1 \in 1..Len(tq') /\ tq'[i - 1] = tq[i])
  BY <1>3
<1>5. cmd' # NULL => cmd' \in found
  BY <1>3, <1>4 DEF ShareInv, QueueInv
<1>6. ShareTypes'
  BY <1>1, <1>5 DEF ShareTypes
<1>7. CmdInv' /\ FreshInv'
  BY <1>1, <1>5 DEF ShareInv, CmdInv, FreshInv
<1>8. QueueInv'
  <2>1. \A i \in 1..Len(tq') : tq'[i] # NULL => tq'[i] \in found'
    BY <1>1, <1>3 DEF ShareInv, QueueInv
  <2>2. \A i, j \in 1..Len(tq') : tq'[i] = tq'[j] /\ tq'[i] # NULL => i = j
    <3> SUFFICES ASSUME NEW i \in 1..Len(tq'), NEW j \in 1..Len(tq'), tq'[i] = tq'[j], tq'[i] # NULL
                 PROVE  i = j
      OBVIOUS
    <3>1. i + 1 = j + 1
      BY <1>3 DEF ShareInv, QueueInv
    <3> QED BY <3>1
  <2> QED BY <1>3, <2>1, <2>2 DEF QueueInv
<1>9. RetryInv'
  BY <1>1, <1>3, <1>4 DEF ShareInv, RetryInv
<1>10. ASSUME NEW s \in found
       PROVE  /\ s = cmd' => Waits(s) /\ ~Waits(s)'
              /\ s # cmd' => (Waits(s)' <=> Waits(s))
              /\ s # cmd
  <2>1. s # NULL
    BY DeliveryAssumption DEF ShareTypes
  <2>2. ASSUME s = cmd' PROVE Waits(s) /\ ~Waits(s)'
    <3>1. \A i \in 1..Len(tq) : tq[i] = s => i = 1
      BY <1>3, <1>4, <2>1, <2>2 DEF ShareInv, QueueInv
    <3>2. \A i \in 1..Len(tq') : tq'[i] # s
      BY <1>3, <3>1
    <3> QED BY <1>3, <1>4, <2>2, <3>2 DEF Waits
  <2>3. ASSUME s # cmd' PROVE Waits(s)' <=> Waits(s)
    <3>1. ASSUME Waits(s)' PROVE Waits(s)
      BY <1>3, <3>1 DEF Waits
    <3>2. ASSUME Waits(s) PROVE Waits(s)'
      BY <1>3, <1>4, <2>3, <3>2 DEF Waits
    <3> QED BY <3>1, <3>2
  <2> QED BY <1>1, <2>1, <2>2, <2>3
<1>11. Apart'
  BY <1>1, <1>10 DEF ShareInv, Apart
<1>12. Somewhere'
  BY <1>1, <1>10 DEF ShareInv, Somewhere
<1> QED BY <1>6, <1>7, <1>8, <1>9, <1>11, <1>12 DEF ShareInv

\* The share being handled is dealt with.
LEMMA ResolveShares ==
  ASSUME ShareTypes, ShareInv, wpc \in {"check", "send"}, Resolve,
         UNCHANGED <<opt_retries, spurious, queueVars, found>>
  PROVE  ShareTypes' /\ ShareInv'
<1>1. /\ resolved' = resolved \cup {cmd} /\ cmd' = NULL /\ tries' = 0 /\ wpc' = "pop"
      /\ UNCHANGED <<opt_retries, spurious, tq, frozen, found>>
  BY DEF Resolve, queueVars
<1>2. cmd \in found /\ \A s \in found : s # NULL
  BY DeliveryAssumption DEF ShareTypes, ShareInv, CmdInv
<1>3. ShareTypes' /\ CmdInv' /\ FreshInv' /\ QueueInv' /\ RetryInv'
  BY <1>1, <1>2 DEF ShareTypes, ShareInv, CmdInv, FreshInv, QueueInv, RetryInv
<1>4. Apart' /\ Somewhere'
  BY <1>1, <1>2 DEF ShareInv, Apart, Somewhere, Waits
<1> QED BY <1>3, <1>4 DEF ShareInv

\* The workio thread goes on, or to its end, with the share it has.
LEMMA WorkioMoves ==
  ASSUME ShareTypes, ShareInv, UNCHANGED <<opt_retries, cmd, tq, found, resolved>>,
         frozen' \in BOOLEAN, frozen => frozen', spurious' \in BOOLEAN, tries' \in Nat,
         wpc' \in {"check", "send", "end", "dead", "exited"},
         wpc' \in {"check", "send"} => wpc \in {"check", "send"},
         opt_retries = -1 => spurious' \/ wpc' \in {"check", "send"}
  PROVE  ShareTypes' /\ ShareInv'
<1>1. ShareTypes' /\ CmdInv' /\ FreshInv' /\ QueueInv' /\ RetryInv'
  BY DEF ShareTypes, ShareInv, CmdInv, FreshInv, QueueInv, RetryInv
<1>2. Apart' /\ Somewhere'
  BY DEF ShareInv, Apart, Somewhere, Waits
<1> QED BY <1>1, <1>2 DEF ShareInv

LEMMA NextIInv == IInv /\ [Next]_vars => IInv'
<1> SUFFICES ASSUME IInv, [Next]_vars PROVE IInv'
  OBVIOUS
<1>1. MachineTypes /\ ShareTypes /\ ShareInv
  BY TypesSplit
<1>2. MachineTypes'
  BY <1>1, MachineNext
<1>3. IInv' <=> MachineTypes' /\ ShareTypes' /\ ShareInv'
  BY TypesSplit, PTL
<1>4. CASE HandshakeFails
  BY <1>1, <1>2, <1>3, <1>4, HandshakeFailsShares
<1>5. ASSUME NEW t \in Threads, FindShare(t) PROVE IInv'
  BY <1>1, <1>2, <1>3, <1>5, FindShareShares
<1>6. CASE tq_pop
  BY <1>1, <1>2, <1>3, <1>6, PopShares
<1>7. CASE CheckStale
  <2>1. PICK isStale \in StaleSeen(cmd) :
          IF isStale THEN Resolve ELSE wpc' = "send" /\ UNCHANGED <<cmd, tries, resolved>>
    BY <1>7 DEF CheckStale
  <2>2. wpc = "check" /\ UNCHANGED <<opt_retries, spurious, queueVars, found>>
    BY <1>7 DEF CheckStale
  <2>3. CASE Resolve
    BY <1>1, <1>2, <1>3, <2>2, <2>3, ResolveShares
  <2>4. CASE wpc' = "send" /\ UNCHANGED <<cmd, tries, resolved>>
    <3>1. frozen' \in BOOLEAN /\ (frozen => frozen') /\ tries' \in Nat /\ spurious' \in BOOLEAN
      BY <1>1, <2>2, <2>4 DEF ShareTypes, queueVars
    <3> QED BY <1>1, <1>2, <1>3, <2>2, <2>4, <3>1, WorkioMoves DEF queueVars
  <2> QED BY <2>1, <2>3, <2>4
<1>8. CASE SendShare
  BY <1>1, <1>2, <1>3, <1>8, ResolveShares DEF SendShare
<1>9. CASE SendFails
  <2>1. /\ UNCHANGED <<opt_retries, cmd, tq, found, resolved, frozen, spurious>>
        /\ wpc = "send" /\ wpc' \in {"end", "check"} /\ tries' \in Nat
        /\ opt_retries = -1 => wpc' = "check"
    <3>1. tries' \in Nat
      BY <1>1, <1>9 DEF SendFails, CountFailure, ShareTypes
    <3>2. opt_retries = -1 => ~GivesUp(tries)
      BY DEF GivesUp
    <3> QED BY <1>9, <3>1, <3>2 DEF SendFails, queueVars, shareVars
  <2>2. frozen' \in BOOLEAN /\ (frozen => frozen') /\ spurious' \in BOOLEAN
    BY <1>1, <2>1 DEF ShareTypes
  <2> QED BY <1>1, <1>2, <1>3, <2>1, <2>2, WorkioMoves
<1>10. CASE SpuriousWakeup
  BY <1>1, <1>2, <1>3, <1>10, WorkioMoves DEF SpuriousWakeup, ShareTypes, queueVars, shareVars
<1>11. CASE tq_freeze \/ Exit
  <2>1. /\ UNCHANGED <<opt_retries, cmd, tq, found, resolved, tries, spurious>>
        /\ wpc \in {"end", "dead"} /\ wpc' \in {"dead", "exited"}
        /\ frozen' = frozen \/ frozen' = TRUE
    BY <1>11 DEF tq_freeze, Exit, queueVars, shareVars
  <2>2. frozen' \in BOOLEAN /\ (frozen => frozen') /\ spurious' \in BOOLEAN /\ tries' \in Nat
    <3>1. CASE frozen' = frozen
      BY <1>1, <2>1, <3>1 DEF ShareTypes
    <3>2. CASE frozen' = TRUE
      BY <1>1, <2>1, <3>2 DEF ShareTypes
    <3> QED BY <2>1, <3>1, <3>2
  <2>3. opt_retries = -1 => spurious'
    BY <1>1, <2>1 DEF ShareInv, RetryInv
  <2> QED BY <1>1, <1>2, <1>3, <2>1, <2>2, <2>3, WorkioMoves
<1>12. ASSUME UNCHANGED <<opt_retries, queueVars, workioVars, shareVars>> PROVE IInv'
  BY <1>1, <1>2, <1>3, <1>12, SharesUndisturbed
<1>13. CASE \/ StratumTop \/ Dial \/ stratum_connect \/ stratum_subscribe \/ stratum_authorize
            \/ Connected \/ BeginWork \/ FinishWork \/ Receive
            \/ PoolInitializes \/ ConnectionLost \/ remote_seturl \/ UNCHANGED vars
  BY <1>12, <1>13
  DEF StratumTop, Dial, stratum_connect, stratum_subscribe, stratum_authorize, Connected,
      BeginWork, FinishWork, Receive, stratum_notify, OtherLine, ReceiveFails,
      PoolInitializes, ConnectionLost, remote_seturl, vars
<1>14. ASSUME NEW t \in Threads, TakeWork(t) \/ BeginRegenerate(t) \/ Regenerate(t) PROVE IInv'
  BY <1>12, <1>14 DEF TakeWork, BeginRegenerate, Regenerate
<1> QED BY <1>4, <1>5, <1>6, <1>7, <1>8, <1>9, <1>10, <1>11, <1>13, <1>14
        DEF Next, StratumStep, WorkioStep, MinerStep

LEMMA InductiveInvariant == Spec => []IInv
BY InitIInv, NextIInv, PTL DEF Spec

\* The variables keep their types; the workio thread is never asked to send
\* anything but a share that was found.
THEOREM TypeCorrect == Spec => []TypeOK
BY IInvImplies, InductiveInvariant, PTL

\* Until the workio thread has ended, every share found is in exactly one place:
\* waiting, being handled, or resolved.
THEOREM NoShareLostOrDoubled == Spec => []SharesConserved
BY IInvImplies, InductiveInvariant, PTL

\* "default: retry indefinitely" is true of the workio and the stratum thread: no
\* number of failures ends them, only a spurious wakeup of tq_pop does.
THEOREM RetriesNeverEnd == Spec => []RetriesIndefinitely
BY IInvImplies, InductiveInvariant, PTL
=============================================================================
