-------------------------- MODULE ProofSubmission ---------------------------
(***************************************************************************)
(* submitProof of ComptoRpcService: verifyProof, mineComptokens (with the  *)
(* capacity increase and its one retry) and processFees, for shares that   *)
(* are submitted concurrently, together with the part of the chain that    *)
(* they talk to.                                                           *)
(*                                                                         *)
(* A transaction is sent, executed or refused by the program, and then     *)
(* reported; a call may also fail while its transaction is still under     *)
(* way, or after it was executed.  What is under way when the pool stops   *)
(* waiting, by an error or by a crash, is late: it may still land.         *)
(***************************************************************************)
EXTENDS Integers, FiniteSets

CONSTANTS
  Shares,          \* calls of submitProof
  Proofs,          \* proofs: shares of one proof are resubmissions of it
  ProofOf,         \* share -> proof
  Fee,             \* FEE of the configuration, in hundredths of COMP
  Capacity,        \* proofs the user data account holds at first
  MoreCapacity     \* additionalCapacity

MineAmount == 10000

ASSUME ShareAssumption ==
  /\ IsFiniteSet(Shares)
  /\ IsFiniteSet(Proofs)
  /\ ProofOf \in [Shares -> Proofs]
ASSUME FeeAssumption == Fee \in 0 .. MineAmount
ASSUME CapacityAssumption == Capacity \in Nat /\ MoreCapacity \in Nat

VARIABLES
  pc,         \* share -> what its call of submitProof awaits
  tx,         \* share -> fate of the transaction that the call awaits
  want,       \* share -> newCapacity of its increaseUserDataCapacity
  result,     \* share -> what submitProof returned
  late,       \* transactions nobody waits for any more
  minted,     \* chain: shares whose submitMiningProof was executed
  paid,       \* chain: share -> transfers executed for it
  stored,     \* chain: proofs in the user data account
  capacity    \* chain: capacity of that account

chain == <<minted, paid, stored, capacity>>
vars == <<pc, tx, want, result, late, chain>>

Mining == {"minting", "retrying"}
Awaiting == Mining \cup {"fetching", "resizing", "preparing", "paying"}
Kinds == {"mint", "pay", "resize"}
PCs == Awaiting \cup {"new", "done", "lost"}
Fates == {"none", "sent", "landed", "full", "refused"}
Results == {"none", "ok", "low", "error", "thrown"}

Init ==
  /\ pc = [s \in Shares |-> "new"]
  /\ tx = [s \in Shares |-> "none"]
  /\ want = [s \in Shares |-> 0]
  /\ result = [s \in Shares |-> "none"]
  /\ late = {}
  /\ minted = {} /\ paid = [s \in Shares |-> 0] /\ stored = {}
  /\ capacity = Capacity

-----------------------------------------------------------------------------
(* The chain (external).  The program takes a proof once: its hash is      *)
(* outdated by the time the account is cleared.                            *)

Unspent(s) == \A t \in minted : ProofOf[t] # ProofOf[s]
HasRoom == Cardinality(stored) < capacity

\* The comptoken program executes submitMiningProof.
MintOnChain(s) ==
  /\ Unspent(s) /\ HasRoom
  /\ minted' = minted \cup {s}
  /\ stored' = stored \cup {ProofOf[s]}
  /\ UNCHANGED <<paid, capacity>>

\* The token program executes the transfer from the pool's wallet.
PayOnChain(s) ==
  /\ paid' = [paid EXCEPT ![s] = @ + 1]
  /\ UNCHANGED <<minted, stored, capacity>>

\* The comptoken program executes resizeUserDataAccount.
ResizeOnChain(s) ==
  /\ want[s] >= Cardinality(stored)
  /\ capacity' = want[s]
  /\ UNCHANGED <<minted, paid, stored>>

\* A transaction that is awaited is executed or refused.
Execute(s) ==
  /\ tx[s] = "sent"
  /\ \/ /\ pc[s] \in Mining
        /\ MintOnChain(s)
        /\ tx' = [tx EXCEPT ![s] = "landed"]
     \/ /\ pc[s] \in Mining /\ ~HasRoom
        /\ tx' = [tx EXCEPT ![s] = "full"]
        /\ UNCHANGED chain
     \/ /\ pc[s] = "paying"
        /\ PayOnChain(s)
        /\ tx' = [tx EXCEPT ![s] = "landed"]
     \/ /\ pc[s] = "resizing"
        /\ ResizeOnChain(s)
        /\ tx' = [tx EXCEPT ![s] = "landed"]
     \/ /\ tx' = [tx EXCEPT ![s] = "refused"]
        /\ UNCHANGED chain
  /\ UNCHANGED <<pc, want, result, late>>

\* A transaction that nobody awaits is executed, or expires.
LateLands(t) ==
  /\ late' = late \ {t}
  /\ \/ t[1] = "mint" /\ MintOnChain(t[2])
     \/ t[1] = "pay" /\ PayOnChain(t[2])
     \/ t[1] = "resize" /\ ResizeOnChain(t[2])
     \/ UNCHANGED chain
  /\ UNCHANGED <<pc, tx, want, result>>

\* A new block: updateUserData of the poller clears out old proofs.
Collect ==
  /\ stored # {}
  /\ stored' = {}
  /\ UNCHANGED <<pc, tx, want, result, late, minted, paid, capacity>>

-----------------------------------------------------------------------------
(* submitProof.                                                            *)

\* The kind of transaction a call sends at state p.
KindOf(p) == IF p \in Mining THEN "mint" ELSE IF p = "paying" THEN "pay" ELSE "resize"

\* The transaction that s awaits, if it may still land.
UnderWay(s) == IF tx[s] = "sent" THEN {<<KindOf(pc[s]), s>>} ELSE {}

\* The call goes on to await at state p, or sends a transaction there.
Await(s, p) ==
  /\ pc' = [pc EXCEPT ![s] = p]
  /\ tx' = [tx EXCEPT ![s] = "none"]
  /\ UNCHANGED <<result, late>>
Send(s, p) ==
  /\ pc' = [pc EXCEPT ![s] = p]
  /\ tx' = [tx EXCEPT ![s] = "sent"]
  /\ UNCHANGED <<result, late>>

\* The call returns; a transaction still under way is left alone.
Return(s, res) ==
  /\ pc' = [pc EXCEPT ![s] = "done"]
  /\ tx' = [tx EXCEPT ![s] = "none"]
  /\ result' = [result EXCEPT ![s] = res]
  /\ late' = late \cup UnderWay(s)

\* verifyProof, and sending the proof; without a hash it throws.
Verify(s) ==
  /\ pc[s] = "new"
  /\ \/ Send(s, "minting")
     \/ Return(s, "low")
     \/ Return(s, "thrown")
  /\ UNCHANGED <<want, chain>>

\* Mutant of userPayoutAmount: the fee is added.
userPayoutPlusFee == MineAmount + Fee

\* What processFees transfers.
userPayoutAmount == MineAmount - Fee

\* The proof was mined: processFees, unless there is nothing to pay.
Mined(s) ==
  /\ pc[s] \in Mining /\ tx[s] = "landed"
  /\ IF userPayoutAmount <= 0 THEN Return(s, "ok") ELSE Await(s, "preparing")
  /\ UNCHANGED <<want, chain>>

\* submitMiningProof fails: refused, or not confirmed whatever became of it;
\* at the retry also for lack of capacity.  The code tells an error by its message,
\* which is assumed not to be empty.
MineFails(s) ==
  /\ pc[s] \in Mining
  /\ tx[s] = "full" => pc[s] = "retrying"
  /\ Return(s, "error")
  /\ UNCHANGED <<want, chain>>

\* UserDataProofsCapacityExceeded: increaseUserDataCapacity.
CapacityExceeded(s) ==
  /\ pc[s] = "minting" /\ tx[s] = "full"
  /\ Await(s, "fetching")
  /\ UNCHANGED <<want, chain>>

\* Mutant of newCapacity: the sign is wrong.
lessCapacity(length) == length - MoreCapacity

newCapacity(length) == length + MoreCapacity

\* The user data account is fetched, and its resize sent.
Fetched(s) ==
  /\ pc[s] = "fetching"
  /\ \/ /\ want' = [want EXCEPT ![s] = newCapacity(Cardinality(stored))]
        /\ Send(s, "resizing")
     \/ Return(s, "error") /\ UNCHANGED want
  /\ UNCHANGED chain

\* resizeUserDataAccount is confirmed: the proof is sent again.
Resized(s) ==
  /\ pc[s] = "resizing" /\ tx[s] = "landed"
  /\ Send(s, "retrying")
  /\ UNCHANGED <<want, chain>>

\* It is refused, or not confirmed whatever became of it.
ResizeFails(s) ==
  /\ pc[s] = "resizing"
  /\ Return(s, "error")
  /\ UNCHANGED <<want, chain>>

\* createTransferCheckedWithTransferHookInstruction, outside of tryWithLog.
Prepared(s) ==
  /\ pc[s] = "preparing"
  /\ Send(s, "paying") \/ Return(s, "thrown")
  /\ UNCHANGED <<want, chain>>

\* The transfer is confirmed.
Paid(s) ==
  /\ pc[s] = "paying" /\ tx[s] = "landed"
  /\ Return(s, "ok")
  /\ UNCHANGED <<want, chain>>

\* Mutant of PayFails: the error of processFees is not looked at.
PayFailsUnnoticed(s) ==
  /\ pc[s] = "paying"
  /\ Return(s, "ok")
  /\ UNCHANGED <<want, chain>>

\* Mutant of PayFails: a transfer that is not confirmed is sent again.
PayFailsRetried(s) ==
  /\ pc[s] = "paying"
  /\ Send(s, "paying")
  /\ UNCHANGED <<want, chain>>

\* The transfer is refused, or not confirmed whatever became of it.
PayFails(s) ==
  /\ pc[s] = "paying"
  /\ Return(s, "error")
  /\ UNCHANGED <<want, chain>>

\* The process dies: no call goes on, and no record of any is kept.
Crash ==
  /\ \E s \in Shares : pc[s] \in Awaiting
  /\ pc' = [s \in Shares |-> IF pc[s] \in Awaiting THEN "lost" ELSE pc[s]]
  /\ tx' = [s \in Shares |-> "none"]
  /\ late' = late \cup UNION {UnderWay(s) : s \in Shares}
  /\ UNCHANGED <<want, result, chain>>

SubmitStep(s) ==
  \/ Verify(s) \/ Mined(s) \/ MineFails(s) \/ CapacityExceeded(s)
  \/ Fetched(s) \/ Resized(s) \/ ResizeFails(s) \/ Prepared(s) \/ Paid(s) \/ PayFails(s)

Next ==
  \/ \E s \in Shares : SubmitStep(s) \/ Execute(s)
  \/ \E t \in late : LateLands(t)
  \/ Collect
  \/ Crash

Spec == Init /\ [][Next]_vars

-----------------------------------------------------------------------------
(* What is checked.                                                        *)

\* The states of the calls and of the chain; the capacity asked for never
\* goes below zero.
TypeOK ==
  /\ pc \in [Shares -> PCs]
  /\ tx \in [Shares -> Fates]
  /\ want \in [Shares -> Nat]
  /\ result \in [Shares -> Results]
  /\ late \subseteq Kinds \X Shares
  /\ minted \subseteq Shares /\ paid \in [Shares -> Nat]
  /\ stored \subseteq Proofs
  /\ capacity \in Nat

Ledger == INSTANCE PayoutLedger
            WITH Shares <- Shares, ProofOf <- ProofOf, minted <- minted, paid <- paid

\* submitProof implements the ledger: no proof is minted twice, a transfer is
\* executed only for a minted share and only once, with late transactions,
\* resubmitted proofs, retries and crashes.
LedgerSpec == Ledger!Spec

\* The miner is told the truth as far as the pool knows: 'ok' means minted and
\* paid out, and a share of too low difficulty was never minted.
ResultIsTruthful ==
  \A s \in Shares :
     /\ result[s] = "ok" => s \in minted /\ (userPayoutAmount > 0 => paid[s] > 0)
     /\ result[s] = "low" => s \notin minted

\* The transfers executed: the first, second, ... one of each share.
Transfers == UNION {{s} \X (1 .. paid[s]) : s \in Shares}

\* The transfers never exceed what was minted, at any fee.
PoolSolvent ==
  userPayoutAmount * Cardinality(Transfers) <= MineAmount * Cardinality(minted)
=============================================================================
