----------------------- MODULE ProofSubmissionProofs ------------------------
(***************************************************************************)
(* ProofSubmission implements PayoutLedger, and what it returns is true,   *)
(* for any shares, proofs, fee and capacities.                             *)
(*                                                                         *)
(* The invariant says, for each share, which of its transactions may still *)
(* be executed: a transfer that is awaited or late belongs to a minted     *)
(* share that was not paid yet, and there is at most one of them, because  *)
(* a call that returns or dies hands its transaction over to late and      *)
(* never sends another.                                                    *)
(***************************************************************************)
EXTENDS ProofSubmission, FiniteSetTheorems, TLAPS

\* Before the transfer is sent, nothing was paid and no transfer is late.
BeforePayment ==
  \A s \in Shares :
     pc[s] \in {"new", "minting", "retrying", "fetching", "resizing", "preparing"}
       => paid[s] = 0 /\ <<"pay", s>> \notin late

\* The transfer is awaited for a minted share, and executed when it landed.
DuringPayment ==
  \A s \in Shares :
     /\ pc[s] \in {"preparing", "paying"} => s \in minted
     /\ pc[s] \in Mining /\ tx[s] = "landed" => s \in minted
     /\ pc[s] = "paying" => <<"pay", s>> \notin late
     /\ pc[s] = "paying" /\ tx[s] = "sent" => paid[s] = 0
     /\ pc[s] = "paying" /\ tx[s] = "landed" => paid[s] > 0

\* A late transfer is the only one of a minted share.
LatePayment ==
  \A s \in Shares : <<"pay", s>> \in late => s \in minted /\ paid[s] = 0

\* Shares that were never sent, or were refused by verifyProof.
NeverSent ==
  \A s \in Shares :
     /\ pc[s] = "new" \/ result[s] = "low" => s \notin minted /\ <<"mint", s>> \notin late
     /\ pc[s] = "new" => tx[s] = "none"
     /\ result[s] # "none" => pc[s] = "done"
     /\ pc[s] \in {"done", "lost"} => tx[s] = "none"

IInv ==
  /\ TypeOK
  /\ BeforePayment
  /\ DuringPayment
  /\ LatePayment
  /\ NeverSent
  /\ ResultIsTruthful

-----------------------------------------------------------------------------
LEMMA InitIInv == Init => IInv
  BY CapacityAssumption
     DEF Init, IInv, TypeOK, BeforePayment, DuringPayment, LatePayment, NeverSent,
         ResultIsTruthful, PCs, Awaiting, Mining, Fates, Results

\* A call that goes on to send or await something touches only its own state.
LEMMA AwaitPreserves ==
  ASSUME IInv, NEW s \in Shares, NEW p \in Awaiting, NEW f \in {"none", "sent"},
         pc[s] \notin {"done", "lost", "paying"},
         p \in {"preparing", "paying"} => s \in minted,
         pc' = [pc EXCEPT ![s] = p], tx' = [tx EXCEPT ![s] = f],
         UNCHANGED <<result, late, chain>>, want' \in [Shares -> Nat]
  PROVE  IInv'
<1>1. /\ TypeOK /\ pc \in [Shares -> PCs] /\ tx \in [Shares -> Fates]
      /\ result' = result /\ late' = late /\ minted' = minted /\ paid' = paid
      /\ stored' = stored /\ capacity' = capacity
      /\ p \in PCs /\ f \in Fates
  BY DEF IInv, TypeOK, chain, PCs, Fates
<1>2. TypeOK'
  BY <1>1 DEF TypeOK
<1>3. paid[s] = 0 /\ <<"pay", s>> \notin late /\ result[s] = "none"
  BY <1>1 DEF IInv, BeforePayment, NeverSent, PCs, Awaiting, Mining, TypeOK
<1>4. BeforePayment'
  BY <1>1, <1>3 DEF IInv, BeforePayment
<1>5. DuringPayment'
  BY <1>1, <1>3 DEF IInv, DuringPayment
<1>6. LatePayment'
  BY <1>1 DEF IInv, LatePayment
<1>7. NeverSent'
  BY <1>1, <1>3 DEF IInv, NeverSent, Awaiting, Mining
<1>8. ResultIsTruthful'
  BY <1>1 DEF IInv, ResultIsTruthful
<1> QED BY <1>2, <1>4, <1>5, <1>6, <1>7, <1>8 DEF IInv

\* What a call hands over to late when it stops waiting.
LEMMA UnderWayProperties ==
  ASSUME IInv, NEW s \in Shares
  PROVE  /\ UnderWay(s) \subseteq Kinds \X Shares
         /\ \A q \in Shares : <<"pay", q>> \in UnderWay(s) =>
              q = s /\ pc[s] \notin Mining /\ (pc[s] = "paying") /\ tx[s] = "sent"
         /\ \A q \in Shares : <<"mint", q>> \in UnderWay(s) => q = s /\ tx[s] = "sent"
<1>1. ASSUME tx[s] = "sent"
      PROVE  UnderWay(s) = {<<KindOf(pc[s]), s>>} /\ KindOf(pc[s]) \in Kinds
  BY <1>1 DEF UnderWay, KindOf, Kinds
<1>2. ASSUME tx[s] # "sent" PROVE UnderWay(s) = {}
  BY <1>2 DEF UnderWay
<1>3. KindOf(pc[s]) = "pay" => pc[s] \notin Mining /\ pc[s] = "paying"
  BY DEF KindOf
<1>4. \A q \in Shares, k \in Kinds :
        <<k, q>> \in UnderWay(s) => k = KindOf(pc[s]) /\ q = s /\ tx[s] = "sent"
  BY <1>1, <1>2
<1> QED BY <1>1, <1>2, <1>3, <1>4 DEF Kinds

\* A call returns.
LEMMA ReturnPreserves ==
  ASSUME IInv, NEW s \in Shares, NEW res \in Results \ {"none"}, Return(s, res),
         pc[s] \notin {"done", "lost"},
         res = "ok" => s \in minted /\ (userPayoutAmount > 0 => paid[s] > 0),
         res = "low" => pc[s] = "new",
         want' = want, UNCHANGED chain
  PROVE  IInv'
<1>1. /\ pc \in [Shares -> PCs] /\ tx \in [Shares -> Fates]
      /\ result \in [Shares -> Results] /\ late \subseteq Kinds \X Shares
      /\ minted' = minted /\ paid' = paid /\ stored' = stored /\ capacity' = capacity
  BY DEF IInv, TypeOK, chain
<1>2. /\ pc' = [pc EXCEPT ![s] = "done"] /\ tx' = [tx EXCEPT ![s] = "none"]
      /\ result' = [result EXCEPT ![s] = res] /\ late' = late \cup UnderWay(s)
  BY DEF Return
<1>3. "done" \in PCs /\ "none" \in Fates
  BY DEF PCs, Fates
<1>4. /\ UnderWay(s) \subseteq Kinds \X Shares
      /\ \A q \in Shares : <<"pay", q>> \in UnderWay(s) =>
           q = s /\ pc[s] = "paying" /\ tx[s] = "sent"
      /\ \A q \in Shares : <<"mint", q>> \in UnderWay(s) => q = s /\ tx[s] = "sent"
  BY UnderWayProperties
<1>5. TypeOK'
  BY <1>1, <1>2, <1>3, <1>4 DEF IInv, TypeOK
<1>6. BeforePayment'
  BY <1>1, <1>2, <1>4 DEF IInv, BeforePayment
<1>7. DuringPayment'
  BY <1>1, <1>2, <1>4 DEF IInv, DuringPayment, Mining
<1>8. LatePayment'
  BY <1>1, <1>2, <1>4 DEF IInv, LatePayment, DuringPayment
<1>9. NeverSent'
  <2>1. pc[s] = "new" => s \notin minted /\ <<"mint", s>> \notin late'
    BY <1>2, <1>4 DEF IInv, NeverSent
  <2>2. \A q \in Shares \ {s} :
          (pc[q] = "new" \/ result[q] = "low") => q \notin minted /\ <<"mint", q>> \notin late'
    BY <1>2, <1>4 DEF IInv, NeverSent
  <2> QED BY <1>1, <1>2, <2>1, <2>2 DEF IInv, NeverSent
<1>10. ResultIsTruthful'
  <2>1. res = "low" => s \notin minted
    BY DEF IInv, NeverSent
  <2>2. ASSUME NEW q \in Shares
        PROVE  /\ result'[q] = "ok" => q \in minted /\ (userPayoutAmount > 0 => paid[q] > 0)
               /\ result'[q] = "low" => q \notin minted
    BY <1>1, <1>2, <2>1 DEF IInv, ResultIsTruthful
  <2> QED BY <2>2, <1>1 DEF ResultIsTruthful, userPayoutAmount
<1> QED BY <1>5, <1>6, <1>7, <1>8, <1>9, <1>10 DEF IInv

\* The process dies.
LEMMA CrashPreserves ==
  ASSUME IInv, Crash
  PROVE  IInv'
<1>1. /\ pc \in [Shares -> PCs] /\ late \subseteq Kinds \X Shares
      /\ result' = result /\ want' = want
      /\ minted' = minted /\ paid' = paid /\ stored' = stored /\ capacity' = capacity
      /\ tx' = [q \in Shares |-> "none"]
      /\ late' = late \cup UNION {UnderWay(q) : q \in Shares}
  BY DEF IInv, TypeOK, chain, Crash
<1>2. pc' = [q \in Shares |-> IF pc[q] \in Awaiting THEN "lost" ELSE pc[q]]
  BY DEF Crash
<1>3. \A q \in Shares : pc'[q] \in {"new", "done", "lost"} /\ (pc'[q] # "lost" => pc'[q] = pc[q])
  BY <1>1, <1>2 DEF PCs
<1>4. /\ UNION {UnderWay(q) : q \in Shares} \subseteq Kinds \X Shares
      /\ \A q \in Shares : <<"pay", q>> \in late' =>
           <<"pay", q>> \in late \/ (pc[q] = "paying" /\ tx[q] = "sent")
      /\ \A q \in Shares : <<"mint", q>> \in late' => <<"mint", q>> \in late \/ tx[q] = "sent"
  BY <1>1, UnderWayProperties
<1>5. TypeOK'
  <2>1. pc' \in [Shares -> PCs] /\ tx' \in [Shares -> Fates]
    BY <1>1, <1>2 DEF PCs, Fates
  <2> QED BY <2>1, <1>1, <1>4 DEF IInv, TypeOK
<1>6. BeforePayment'
  BY <1>1, <1>3, <1>4 DEF IInv, BeforePayment
<1>7. DuringPayment'
  BY <1>1, <1>3 DEF DuringPayment, Mining
<1>8. LatePayment'
  BY <1>1, <1>4 DEF IInv, LatePayment, DuringPayment
<1>9. NeverSent'
  <2>1. ASSUME NEW q \in Shares, result[q] # "none" PROVE pc'[q] = "done"
    BY <2>1, <1>1, <1>2 DEF IInv, NeverSent, Awaiting, Mining
  <2>2. \A q \in Shares : pc[q] = "new" \/ result[q] = "low" => tx[q] = "none"
    BY DEF IInv, NeverSent
  <2> QED BY <1>1, <1>3, <1>4, <2>1, <2>2 DEF IInv, NeverSent
<1>10. ResultIsTruthful'
  BY <1>1 DEF IInv, ResultIsTruthful
<1> QED BY <1>5, <1>6, <1>7, <1>8, <1>9, <1>10 DEF IInv

\* An awaited transaction is executed or refused.
LEMMA ExecutePreserves ==
  ASSUME IInv, NEW s \in Shares, Execute(s)
  PROVE  IInv'
<1>1. /\ pc \in [Shares -> PCs] /\ tx \in [Shares -> Fates] /\ paid \in [Shares -> Nat]
      /\ want \in [Shares -> Nat] /\ ProofOf[s] \in Proofs
      /\ pc' = pc /\ want' = want /\ result' = result /\ late' = late
      /\ tx[s] = "sent" /\ pc[s] \notin {"new", "done", "lost"} /\ result[s] = "none"
  BY ShareAssumption DEF IInv, TypeOK, NeverSent, Execute
<1>2. PICK f \in {"landed", "full", "refused"} : tx' = [tx EXCEPT ![s] = f]
  BY DEF Execute
<1>3. f \in Fates /\ f # "sent"
  BY DEF Fates
<1>4. CASE pc[s] \in Mining /\ MintOnChain(s)
  <2>1. /\ minted' = minted \cup {s} /\ stored' = stored \cup {ProofOf[s]}
        /\ paid' = paid /\ capacity' = capacity
    BY <1>4 DEF MintOnChain
  <2>2. TypeOK'
    BY <1>1, <1>2, <1>3, <2>1 DEF IInv, TypeOK
  <2>3. BeforePayment' /\ DuringPayment' /\ LatePayment'
    BY <1>1, <1>2, <1>4, <2>1
       DEF IInv, BeforePayment, DuringPayment, LatePayment, Mining
  <2>4. NeverSent' /\ ResultIsTruthful'
    BY <1>1, <1>2, <2>1 DEF IInv, NeverSent, ResultIsTruthful
  <2> QED BY <2>2, <2>3, <2>4 DEF IInv
<1>5. CASE pc[s] = "paying" /\ PayOnChain(s)
  <2>1. /\ paid' = [paid EXCEPT ![s] = paid[s] + 1]
        /\ minted' = minted /\ stored' = stored /\ capacity' = capacity
    BY <1>5 DEF PayOnChain
  <2>2. paid' \in [Shares -> Nat] /\ paid'[s] > 0 /\ \A q \in Shares \ {s} : paid'[q] = paid[q]
    BY <1>1, <2>1
  <2>3. TypeOK'
    BY <1>1, <1>2, <1>3, <2>1, <2>2 DEF IInv, TypeOK
  <2>4. BeforePayment' /\ DuringPayment' /\ LatePayment'
    BY <1>1, <1>2, <1>5, <2>1, <2>2
       DEF IInv, BeforePayment, DuringPayment, LatePayment, Mining
  <2>5. NeverSent' /\ ResultIsTruthful'
    BY <1>1, <1>2, <2>1, <2>2 DEF IInv, NeverSent, ResultIsTruthful
  <2> QED BY <2>3, <2>4, <2>5 DEF IInv
<1>6. CASE pc[s] = "resizing" /\ ResizeOnChain(s)
  <2>1. capacity' = want[s] /\ minted' = minted /\ paid' = paid /\ stored' = stored
    BY <1>6 DEF ResizeOnChain
  <2>2. TypeOK'
    BY <1>1, <1>2, <1>3, <2>1 DEF IInv, TypeOK
  <2>3. BeforePayment' /\ DuringPayment' /\ LatePayment'
    BY <1>1, <1>2, <1>6, <2>1
       DEF IInv, BeforePayment, DuringPayment, LatePayment, Mining
  <2>4. NeverSent' /\ ResultIsTruthful'
    BY <1>1, <1>2, <2>1 DEF IInv, NeverSent, ResultIsTruthful
  <2> QED BY <2>2, <2>3, <2>4 DEF IInv
<1>7. CASE UNCHANGED chain /\ tx' = [tx EXCEPT ![s] = "refused"]
  <2>1. capacity' = capacity /\ minted' = minted /\ paid' = paid /\ stored' = stored
    BY <1>7 DEF chain
  <2>2. TypeOK'
    BY <1>1, <1>2, <1>3, <2>1 DEF IInv, TypeOK
  <2>3. BeforePayment' /\ DuringPayment' /\ LatePayment' /\ NeverSent' /\ ResultIsTruthful'
    BY <1>1, <1>7, <2>1
       DEF IInv, BeforePayment, DuringPayment, LatePayment, NeverSent, ResultIsTruthful
  <2> QED BY <2>2, <2>3 DEF IInv
<1>8. CASE UNCHANGED chain /\ tx' = [tx EXCEPT ![s] = "full"]
  <2>1. capacity' = capacity /\ minted' = minted /\ paid' = paid /\ stored' = stored
    BY <1>8 DEF chain
  <2>2. TypeOK'
    BY <1>1, <1>8, <2>1 DEF IInv, TypeOK, Fates
  <2>3. BeforePayment' /\ DuringPayment' /\ LatePayment' /\ NeverSent' /\ ResultIsTruthful'
    BY <1>1, <1>8, <2>1
       DEF IInv, BeforePayment, DuringPayment, LatePayment, NeverSent, ResultIsTruthful
  <2> QED BY <2>2, <2>3 DEF IInv
<1> QED BY <1>4, <1>5, <1>6, <1>7, <1>8 DEF Execute

\* A transaction that nobody awaits lands or expires.
LEMMA LateLandsPreserves ==
  ASSUME IInv, NEW t \in late, LateLands(t)
  PROVE  IInv'
<1>1. /\ t \in Kinds \X Shares /\ t[2] \in Shares /\ t = <<t[1], t[2]>>
      /\ late \subseteq Kinds \X Shares
      /\ paid \in [Shares -> Nat] /\ want \in [Shares -> Nat] /\ ProofOf[t[2]] \in Proofs
      /\ pc' = pc /\ tx' = tx /\ want' = want /\ result' = result /\ late' = late \ {t}
  BY ShareAssumption DEF IInv, TypeOK, LateLands
<1> DEFINE s == t[2]
<1>2. CASE t[1] = "mint" /\ MintOnChain(s)
  <2>1. /\ minted' = minted \cup {s} /\ stored' = stored \cup {ProofOf[s]}
        /\ paid' = paid /\ capacity' = capacity
    BY <1>2 DEF MintOnChain
  <2>2. <<"mint", s>> \in late
    BY <1>1, <1>2
  <2>3. pc[s] # "new" /\ result[s] # "low"
    BY <1>1, <2>2 DEF IInv, NeverSent
  <2> HIDE DEF s
  <2>4. TypeOK'
    BY <1>1, <2>1 DEF IInv, TypeOK, s
  <2>5. BeforePayment' /\ DuringPayment' /\ LatePayment'
    BY <1>1, <2>1 DEF IInv, BeforePayment, DuringPayment, LatePayment
  <2>6. NeverSent' /\ ResultIsTruthful'
    BY <1>1, <2>1, <2>3 DEF IInv, NeverSent, ResultIsTruthful
  <2> QED BY <2>4, <2>5, <2>6 DEF IInv
<1>3. CASE t[1] = "pay" /\ PayOnChain(s)
  <2>1. /\ paid' = [paid EXCEPT ![s] = paid[s] + 1]
        /\ minted' = minted /\ stored' = stored /\ capacity' = capacity
    BY <1>3 DEF PayOnChain
  <2>2. t = <<"pay", s>> /\ <<"pay", s>> \in late /\ s \in Shares
    BY <1>1, <1>3
  <2> HIDE DEF s
  <2>3. paid' \in [Shares -> Nat] /\ paid'[s] > 0 /\ \A q \in Shares \ {s} : paid'[q] = paid[q]
    BY <1>1, <2>1, <2>2
  <2>4. <<"pay", s>> \notin late'
    BY <1>1, <2>2
  <2>5. TypeOK'
    BY <1>1, <2>1, <2>3 DEF IInv, TypeOK
  <2>6. BeforePayment'
    BY <1>1, <2>1, <2>2, <2>3 DEF IInv, BeforePayment
  <2>7. DuringPayment'
    BY <1>1, <2>1, <2>2, <2>3 DEF IInv, DuringPayment
  <2>8. LatePayment'
    BY <1>1, <2>1, <2>3, <2>4 DEF IInv, LatePayment
  <2>9. NeverSent' /\ ResultIsTruthful'
    BY <1>1, <2>1, <2>3 DEF IInv, NeverSent, ResultIsTruthful
  <2> QED BY <2>5, <2>6, <2>7, <2>8, <2>9 DEF IInv
<1>4. CASE t[1] = "resize" /\ ResizeOnChain(s)
  <2>1. capacity' = want[s] /\ minted' = minted /\ paid' = paid /\ stored' = stored
    BY <1>4 DEF ResizeOnChain
  <2>2. TypeOK'
    BY <1>1, <2>1 DEF IInv, TypeOK
  <2>3. BeforePayment' /\ DuringPayment' /\ LatePayment' /\ NeverSent' /\ ResultIsTruthful'
    BY <1>1, <2>1
       DEF IInv, BeforePayment, DuringPayment, LatePayment, NeverSent, ResultIsTruthful
  <2> QED BY <2>2, <2>3 DEF IInv
<1>5. CASE UNCHANGED chain
  <2>1. capacity' = capacity /\ minted' = minted /\ paid' = paid /\ stored' = stored
    BY <1>5 DEF chain
  <2>2. TypeOK'
    BY <1>1, <2>1 DEF IInv, TypeOK
  <2>3. BeforePayment' /\ DuringPayment' /\ LatePayment' /\ NeverSent' /\ ResultIsTruthful'
    BY <1>1, <2>1
       DEF IInv, BeforePayment, DuringPayment, LatePayment, NeverSent, ResultIsTruthful
  <2> QED BY <2>2, <2>3 DEF IInv
<1> QED BY <1>2, <1>3, <1>4, <1>5 DEF LateLands

\* One step of a call of submitProof.
LEMMA SubmitStepPreserves ==
  ASSUME IInv, NEW s \in Shares, SubmitStep(s)
  PROVE  IInv'
<1> USE DEF Awaiting, Mining, Results
<1>1. want \in [Shares -> Nat] /\ tx \in [Shares -> Fates]
  BY DEF IInv, TypeOK
<1>2. CASE Verify(s)
  <2>1. CASE Send(s, "minting")
    BY <1>1, <1>2, <2>1, AwaitPreserves DEF Verify, Send
  <2>2. CASE Return(s, "low")
    BY <1>2, <2>2, ReturnPreserves DEF Verify
  <2>3. CASE Return(s, "thrown")
    BY <1>2, <2>3, ReturnPreserves DEF Verify
  <2> QED BY <1>2, <2>1, <2>2, <2>3 DEF Verify
<1>3. CASE Mined(s)
  <2>1. s \in minted /\ want' = want /\ UNCHANGED chain /\ pc[s] \notin {"done", "lost", "paying"}
    BY <1>3 DEF Mined, IInv, DuringPayment
  <2>2. CASE userPayoutAmount <= 0
    <3>1. Return(s, "ok") /\ ~(userPayoutAmount > 0)
      BY <1>3, <2>2, FeeAssumption DEF Mined, userPayoutAmount, MineAmount
    <3> QED BY <2>1, <3>1, ReturnPreserves
  <2>3. CASE ~(userPayoutAmount <= 0)
    <3>1. Await(s, "preparing")
      BY <1>3, <2>3 DEF Mined
    <3> QED BY <1>1, <2>1, <3>1, AwaitPreserves DEF Await
  <2> QED BY <2>2, <2>3
<1>4. CASE MineFails(s)
  BY <1>4, ReturnPreserves DEF MineFails
<1>5. CASE CapacityExceeded(s)
  BY <1>1, <1>5, AwaitPreserves DEF CapacityExceeded, Await
<1>6. CASE Fetched(s)
  <2>1. CASE Return(s, "error") /\ UNCHANGED want
    BY <1>6, <2>1, ReturnPreserves DEF Fetched
  <2>2. CASE Send(s, "resizing") /\ want' = [want EXCEPT ![s] = newCapacity(Cardinality(stored))]
    <3>1. newCapacity(Cardinality(stored)) \in Nat
      <4>1. IsFiniteSet(stored)
        BY ShareAssumption, FS_Subset DEF IInv, TypeOK
      <4>2. Cardinality(stored) \in Nat
        BY <4>1, FS_CardinalityType
      <4> QED BY <4>2, CapacityAssumption DEF newCapacity
    <3>2. want' \in [Shares -> Nat]
      BY <1>1, <2>2, <3>1
    <3> QED BY <1>6, <2>2, <3>2, AwaitPreserves DEF Fetched, Send
  <2> QED BY <1>6, <2>1, <2>2 DEF Fetched
<1>7. CASE Resized(s)
  BY <1>1, <1>7, AwaitPreserves DEF Resized, Send
<1>8. CASE ResizeFails(s)
  BY <1>8, ReturnPreserves DEF ResizeFails
<1>9. CASE Prepared(s)
  <2>1. s \in minted
    BY <1>9 DEF Prepared, IInv, DuringPayment
  <2>2. CASE Send(s, "paying")
    BY <1>1, <1>9, <2>1, <2>2, AwaitPreserves DEF Prepared, Send
  <2>3. CASE Return(s, "thrown")
    BY <1>9, <2>3, ReturnPreserves DEF Prepared
  <2> QED BY <1>9, <2>2, <2>3 DEF Prepared
<1>10. CASE Paid(s)
  <2>1. s \in minted /\ paid[s] > 0
    BY <1>10 DEF Paid, IInv, DuringPayment
  <2> QED BY <1>10, <2>1, ReturnPreserves DEF Paid
<1>11. CASE PayFails(s)
  BY <1>11, ReturnPreserves DEF PayFails
<1> QED BY <1>2, <1>3, <1>4, <1>5, <1>6, <1>7, <1>8, <1>9, <1>10, <1>11 DEF SubmitStep

LEMMA NextPreserves == IInv /\ [Next]_vars => IInv'
<1> SUFFICES ASSUME IInv, [Next]_vars PROVE IInv'
  OBVIOUS
<1>1. CASE UNCHANGED vars
  BY <1>1 DEF vars, chain, IInv, TypeOK, BeforePayment, DuringPayment, LatePayment,
       NeverSent, ResultIsTruthful
<1>2. ASSUME NEW s \in Shares, SubmitStep(s) PROVE IInv'
  BY <1>2, SubmitStepPreserves
<1>3. ASSUME NEW s \in Shares, Execute(s) PROVE IInv'
  BY <1>3, ExecutePreserves
<1>4. ASSUME NEW t \in late, LateLands(t) PROVE IInv'
  BY <1>4, LateLandsPreserves
<1>5. CASE Collect
  BY <1>5 DEF Collect, IInv, TypeOK, BeforePayment, DuringPayment, LatePayment,
       NeverSent, ResultIsTruthful
<1>6. CASE Crash
  BY <1>6, CrashPreserves
<1> QED BY <1>1, <1>2, <1>3, <1>4, <1>5, <1>6 DEF Next

-----------------------------------------------------------------------------
\* Every reachable state satisfies the inductive invariant.
THEOREM InductiveInvariant == Spec => []IInv
  BY InitIInv, NextPreserves, PTL DEF Spec

\* The calls and the chain stay within their types: in particular, no capacity
\* that increaseUserDataCapacity asks for is negative.
THEOREM TypeCorrect == Spec => []TypeOK
<1>1. IInv => TypeOK
  BY DEF IInv
<1> QED BY <1>1, InductiveInvariant, PTL

\* submitProof tells the miner the truth: a result means minted and paid out, a
\* low difficulty that nothing was minted, at every fee and after any crash.
THEOREM TruthfulResults == Spec => []ResultIsTruthful
<1>1. IInv => ResultIsTruthful
  BY DEF IInv
<1> QED BY <1>1, InductiveInvariant, PTL

\* Steps that leave minted and paid alone are stutters of the ledger.
LEMMA StepRefines ==
  ASSUME IInv, [Next]_vars
  PROVE  [Ledger!Next]_<<minted, paid>>
<1>1. ASSUME NEW s \in Shares, MintOnChain(s) PROVE Ledger!Mint(s)
  BY <1>1 DEF MintOnChain, Unspent, Ledger!Mint
<1>2. ASSUME NEW s \in Shares, s \in minted, paid[s] = 0, PayOnChain(s) PROVE Ledger!Pay(s)
  BY <1>2 DEF PayOnChain, Ledger!Pay
<1>3. CASE UNCHANGED <<minted, paid>>
  BY <1>3
<1>4. CASE UNCHANGED vars
  BY <1>4 DEF vars, chain
<1>5. ASSUME NEW s \in Shares, SubmitStep(s) PROVE UNCHANGED <<minted, paid>>
  BY <1>5 DEF SubmitStep, Verify, Mined, MineFails, CapacityExceeded, Fetched, Resized,
       ResizeFails, Prepared, Paid, PayFails, chain
<1>6. ASSUME NEW s \in Shares, Execute(s) PROVE [Ledger!Next]_<<minted, paid>>
  <2>1. CASE MintOnChain(s)
    BY <1>1, <2>1 DEF Ledger!Next
  <2>2. CASE pc[s] = "paying" /\ PayOnChain(s)
    <3>1. tx[s] = "sent"
      BY <1>6 DEF Execute
    <3>2. s \in minted /\ paid[s] = 0
      BY <2>2, <3>1 DEF IInv, DuringPayment
    <3> QED BY <1>2, <2>2, <3>2 DEF Ledger!Next
  <2>3. CASE ResizeOnChain(s)
    BY <2>3 DEF ResizeOnChain
  <2>4. CASE UNCHANGED chain
    BY <2>4 DEF chain
  <2> QED BY <1>6, <2>1, <2>2, <2>3, <2>4 DEF Execute
<1>7. ASSUME NEW t \in late, LateLands(t) PROVE [Ledger!Next]_<<minted, paid>>
  <2>1. t[2] \in Shares /\ t = <<t[1], t[2]>>
    BY <1>7 DEF IInv, TypeOK
  <2>2. CASE MintOnChain(t[2])
    BY <1>1, <2>1, <2>2 DEF Ledger!Next
  <2>3. CASE t[1] = "pay" /\ PayOnChain(t[2])
    <3>1. t[2] \in minted /\ paid[t[2]] = 0
      BY <1>7, <2>1, <2>3 DEF IInv, LatePayment
    <3> QED BY <1>2, <2>1, <2>3, <3>1 DEF Ledger!Next
  <2>4. CASE ResizeOnChain(t[2])
    BY <2>4 DEF ResizeOnChain
  <2>5. CASE UNCHANGED chain
    BY <2>5 DEF chain
  <2> QED BY <1>7, <2>2, <2>3, <2>4, <2>5 DEF LateLands
<1>8. CASE Collect \/ Crash
  BY <1>8 DEF Collect, Crash, chain
<1> QED BY <1>3, <1>4, <1>5, <1>6, <1>7, <1>8 DEF Next

\* The pool implements the ledger: no proof is minted twice and no share paid
\* twice or without a mint, for any number of shares, of the same or different
\* proofs, with late transactions, capacity retries and crashes.
THEOREM ImplementsLedger == Spec => LedgerSpec
<1>1. Init => Ledger!Init
  BY DEF Init, Ledger!Init
<1>2. IInv /\ [Next]_vars => [Ledger!Next]_<<minted, paid>>
  BY StepRefines
<1>3. Spec => Ledger!Spec
  BY <1>1, <1>2, InductiveInvariant, PTL DEF Spec, Ledger!Spec
<1> QED BY <1>3 DEF LedgerSpec

\* What follows from the ledger alone: no share is paid twice, or unminted.
Funded ==
  /\ minted \subseteq Shares /\ paid \in [Shares -> {0, 1}]
  /\ \A s \in Shares : paid[s] = 1 => s \in minted

LEMMA LedgerFunded == LedgerSpec => []Funded
<1>1. Ledger!Init => Funded
  BY DEF Ledger!Init, Funded
<1>2. ASSUME Funded, [Ledger!Next]_<<minted, paid>> PROVE Funded'
  <2>1. ASSUME NEW s \in Shares, Ledger!Mint(s) PROVE Funded'
    BY <1>2, <2>1 DEF Funded, Ledger!Mint
  <2>2. ASSUME NEW s \in Shares, Ledger!Pay(s) PROVE Funded'
    BY <1>2, <2>2 DEF Funded, Ledger!Pay
  <2>3. CASE UNCHANGED <<minted, paid>>
    BY <1>2, <2>3 DEF Funded
  <2> QED BY <1>2, <2>1, <2>2, <2>3 DEF Ledger!Next
<1>3. Ledger!Spec => []Funded
  BY <1>1, <1>2, PTL DEF Ledger!Spec
<1> QED BY <1>3 DEF LedgerSpec

\* Of two sums the one of fewer and smaller amounts is not larger.
LEMMA ProductsGrow ==
  ASSUME NEW a \in Nat, NEW b \in Nat, a <= b, NEW m \in Nat, NEW n \in Nat, m <= n
  PROVE  a * m <= b * n
<1>1. PICK d \in Nat : b = a + d
  <2>1. b - a \in Nat /\ b = a + (b - a)
    OBVIOUS
  <2> QED BY <2>1
<1>2. PICK e \in Nat : n = m + e
  <2>1. n - m \in Nat /\ n = m + (n - m)
    OBVIOUS
  <2> QED BY <2>1
<1>3. (a + d) * (m + e) = a * m + a * e + d * m + d * e
  OBVIOUS
<1>4. a * m \in Nat /\ a * e \in Nat /\ d * m \in Nat /\ d * e \in Nat
  OBVIOUS
<1> QED BY <1>1, <1>2, <1>3, <1>4

\* The transfers of processFees never exceed what submitMiningProof minted, for
\* any shares and at any fee from nothing to the whole reward.
THEOREM Solvency == Spec => []PoolSolvent
<1>1. ASSUME Funded PROVE PoolSolvent
  <2>1. IsFiniteSet(minted) /\ Cardinality(minted) \in Nat
    BY <1>1, ShareAssumption, FS_Subset, FS_CardinalityType DEF Funded
  <2> DEFINE f == [x \in Transfers |-> x[1]]
  <2>2. ASSUME NEW x \in Transfers PROVE x[1] \in minted /\ x = <<x[1], 1>>
    <3>1. PICK s \in Shares : x \in {s} \X (1 .. paid[s])
      BY DEF Transfers
    <3>2. x = <<x[1], x[2]>> /\ x[1] = s /\ x[2] \in 1 .. paid[s]
      BY <3>1
    <3>3. paid[s] = 1 /\ x[2] = 1
      BY <1>1, <3>2 DEF Funded
    <3> QED BY <1>1, <3>2, <3>3 DEF Funded
  <2>3. f \in Injection(Transfers, minted)
    <3>1. f \in [Transfers -> minted]
      BY <2>2
    <3>2. ASSUME NEW x \in Transfers, NEW y \in Transfers, f[x] = f[y] PROVE x = y
      <4>1. x[1] = y[1]
        BY <3>2
      <4> QED BY <2>2, <4>1
    <3> QED BY <3>1, <3>2 DEF Injection, IsInjective
  <2>4. /\ IsFiniteSet(Transfers) /\ Cardinality(Transfers) <= Cardinality(minted)
        /\ Cardinality(Transfers) \in Nat
    BY <2>1, <2>3, FS_Injection, FS_CardinalityType
  <2>5. userPayoutAmount \in Nat /\ MineAmount \in Nat /\ userPayoutAmount <= MineAmount
    BY FeeAssumption DEF userPayoutAmount, MineAmount
  <2> QED BY <2>1, <2>4, <2>5, ProductsGrow DEF PoolSolvent
<1> QED BY <1>1, LedgerFunded, ImplementsLedger, PTL
=============================================================================
