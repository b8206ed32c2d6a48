---------------------------- MODULE PayoutLedger ----------------------------
(***************************************************************************)
(* What the pool promises about money: a share is minted at most once, and *)
(* no proof twice; a share is paid out only after it was minted, and at    *)
(* most once.  ProofSubmission implements it.                              *)
(***************************************************************************)
EXTENDS Naturals

CONSTANTS
  Shares,   \* submissions handed to submitProof
  ProofOf   \* share -> the proof it is about

VARIABLES
  minted,   \* shares whose proof was minted to the pool's wallet
  paid      \* share -> transfers of its reward to the miner

Init == minted = {} /\ paid = [s \in Shares |-> 0]

Mint(s) ==
  /\ \A t \in minted : ProofOf[t] # ProofOf[s]
  /\ minted' = minted \cup {s}
  /\ paid' = paid

Pay(s) ==
  /\ s \in minted /\ paid[s] = 0
  /\ paid' = [paid EXCEPT ![s] = 1]
  /\ minted' = minted

Next == \E s \in Shares : Mint(s) \/ Pay(s)

Spec == Init /\ [][Next]_<<minted, paid>>
=============================================================================
