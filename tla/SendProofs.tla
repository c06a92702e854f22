----------------------------- MODULE SendProofs -----------------------------
(***************************************************************************)
(* Theorems about sending: of the contract's arithmetic (FeeInBounds,      *)
(* PreviewClose, PaidByShares), and of every behaviour of SendFlow.        *)
(***************************************************************************)
EXTENDS SendFlow, TLAPS

-----------------------------------------------------------------------------
(***************************************************************************)
(* The fee.                                                                *)
(***************************************************************************)

\* A quotient rounded down is the greatest whole number of parts that fit.
LEMMA DivBounds ==
    ASSUME NEW x \in Nat, NEW e \in Nat \ {0}, NEW r \in Nat
    PROVE  /\ x \div e \in Nat
           /\ r * e <= x => r <= x \div e
           /\ x < (r + 1) * e => x \div e <= r
           /\ (x \div e) * e <= x
           /\ x < (x \div e + 1) * e
<1> DEFINE q == x \div e
<1>1. q \in Nat /\ q * e <= x /\ x < (q + 1) * e
  BY SMTT(30)
<1> HIDE DEF q
<1>2. ASSUME r > q, r * e <= x PROVE FALSE
  <2>1. PICK t \in Nat : r = q + 1 + t
    <3>1. r - q - 1 \in Nat /\ r = q + 1 + (r - q - 1)
      BY <1>1, <1>2
    <3> QED BY <3>1
  <2>2. r * e = (q + 1) * e + t * e /\ t * e >= 0
    BY <2>1, <1>1, SMTT(30)
  <2> QED BY <2>2, <1>1, <1>2, SMTT(30)
<1>3. ASSUME q > r, x < (r + 1) * e PROVE FALSE
  <2>1. PICK t \in Nat : q = r + 1 + t
    <3>1. q - r - 1 \in Nat /\ q = r + 1 + (q - r - 1)
      BY <1>1, <1>3
    <3> QED BY <3>1
  <2>2. q * e = (r + 1) * e + t * e /\ t * e >= 0
    BY <2>1, <1>1, SMTT(30)
  <2> QED BY <2>2, <1>1, <1>3, SMTT(30)
<1> QED BY <1>1, <1>2, <1>3 DEF q

\* More or less of both keeps the quotient, or moves it to the side of the
\* greater factor.
LEMMA Scaled ==
    ASSUME NEW y \in Nat, NEW d \in Nat \ {0}, NEW k \in Nat \ {0}, NEW p \in Nat
    PROVE  /\ (y * p) \div (d * k) \in Nat
           /\ p >= k => y \div d <= (y * p) \div (d * k)
           /\ p <= k => (y * p) \div (d * k) <= y \div d
<1> DEFINE r == y \div d
           x == y * p
           e == d * k
<1>1. r \in Nat /\ r * d <= y /\ y < (r + 1) * d
  BY DivBounds
<1> HIDE DEF r
<1>2. x \in Nat /\ e \in Nat \ {0}
  BY SMTT(30)
<1>3. ASSUME p >= k PROVE r * e <= x
  <2>1. r * e = (r * d) * k
    BY <1>1, SMTT(30)
  <2>2. (r * d) * k <= y * k
    BY <1>1, SMTT(30)
  <2>3. y * k <= y * p
    BY <1>3, SMTT(30)
  <2> QED BY <2>1, <2>2, <2>3, <1>1, <1>2, SMTT(30)
<1>4. ASSUME p <= k PROVE x < (r + 1) * e
  <2>1. (r + 1) * e = ((r + 1) * d) * k
    BY <1>1, SMTT(30)
  <2>2. y * k < ((r + 1) * d) * k
    BY <1>1, SMTT(30)
  <2>3. y * p <= y * k
    BY <1>4, SMTT(30)
  <2> QED BY <2>1, <2>2, <2>3, <1>1, <1>2, SMTT(30)
<1> HIDE DEF x, e
<1>5. x \div e \in Nat /\ (r * e <= x => r <= x \div e) /\ (x < (r + 1) * e => x \div e <= r)
  BY <1>1, <1>2, DivBounds
<1> QED BY <1>3, <1>4, <1>5 DEF r, x, e

\* The fee of any amount is between the two bounds of the contract.
THEOREM FeeInBounds ==
    ASSUME NEW amount \in Nat
    PROVE  Fee(amount) \in MinFee .. MaxFee
<1>1. amount * Bps \in Nat /\ Denom \in Nat \ {0}
  BY FeeAssumption DEF FeeAssumption
<1>2. (amount * Bps) \div Denom \in Nat
  BY <1>1, DivBounds
<1> QED
  BY <1>2, FeeAssumption DEF Fee, Clamp, FeeAssumption

\* The contract refuses as too small (FeeTooHigh, RicePayTransferPull.sol:60)
\* exactly the amounts below the minimum fee: no amount that could pay for itself.
THEOREM MinimumIsTheLimit ==
    ASSUME NEW amount \in Nat
    PROVE  Fee(amount) <= amount <=> MinFee <= amount
<1> DEFINE raw == (amount * Bps) \div Denom
<1>1. raw \in Nat /\ raw <= amount
  <2>1. amount * Bps \in Nat /\ Denom \in Nat \ {0} BY FeeAssumption DEF FeeAssumption
  <2>2. amount * Bps < (amount + 1) * Denom BY FeeAssumption, SMTT(30) DEF FeeAssumption
  <2> HIDE DEF raw
  <2> QED BY <2>1, <2>2, DivBounds DEF raw
<1>2. Fee(amount) = Clamp(raw) BY DEF Fee
<1> HIDE DEF raw
<1> QED BY <1>1, <1>2, FeeAssumption DEF Clamp, FeeAssumption

\* Who sends more pays no less, and no less arrives (_calcFee,
\* RicePayTransferPull.sol:88): rounding and bounds make no amount worth avoiding.
THEOREM MoreArrives ==
    ASSUME NEW less \in Nat, NEW more \in Nat, less <= more
    PROVE  Fee(less) <= Fee(more) /\ Net(less) <= Net(more)
<1> DEFINE p == (less * Bps) \div Denom
           q == (more * Bps) \div Denom
<1>1. p \in Nat /\ q \in Nat /\ p <= q /\ q <= p + (more - less)
  <2> DEFINE x == less * Bps
             y == more * Bps
             more1 == more - less
  <2>1. /\ x \in Nat /\ y \in Nat /\ Denom \in Nat \ {0} /\ Bps \in Nat /\ Bps <= Denom
        /\ more1 \in Nat /\ more = less + more1
    BY FeeAssumption DEF FeeAssumption
  <2>2. y = x + more1 * Bps /\ more1 * Bps <= more1 * Denom /\ more1 * Bps \in Nat
    BY <2>1, SMTT(30)
  <2> HIDE DEF x, y, more1
  <2>3. /\ x \div Denom \in Nat /\ (x \div Denom) * Denom <= x
        /\ x < (x \div Denom + 1) * Denom
    BY <2>1, DivBounds
  <2> DEFINE k == x \div Denom
  <2> HIDE DEF k
  <2>4. k \in Nat /\ k * Denom <= x /\ x < (k + 1) * Denom BY <2>3 DEF k
  <2>5. k * Denom <= y BY <2>1, <2>2, <2>4, SMTT(30)
  <2>6. y < (k + more1 + 1) * Denom
    <3>1. (k + more1 + 1) * Denom = (k + 1) * Denom + more1 * Denom BY <2>1, <2>4, SMTT(30)
    <3> QED BY <2>1, <2>2, <2>4, <3>1, SMTT(30)
  <2>7. k <= y \div Denom /\ y \div Denom <= k + more1 /\ y \div Denom \in Nat
    <3>1. k + more1 \in Nat BY <2>1, <2>4
    <3> QED BY <2>1, <2>4, <2>5, <2>6, <3>1, DivBounds
  <2> QED BY <2>4, <2>7 DEF k, x, y, more1
<1>2. Fee(less) = Clamp(p) /\ Fee(more) = Clamp(q) BY DEF Fee
<1> HIDE DEF p, q
<1>3. Fee(less) <= Fee(more) /\ Fee(more) <= Fee(less) + (more - less) /\ Fee(less) \in Nat
      /\ Fee(more) \in Nat
  BY <1>1, <1>2, FeeAssumption DEF Clamp, FeeAssumption
<1> QED BY <1>3 DEF Net

\* The preview of the API is no less than the contract's fee while a USDC is
\* quoted at par or above, and at most one unit more at par or below.
THEOREM PreviewClose ==
    ASSUME NEW amount \in Nat, NEW price \in Price,
           NEW p \in PreviewFees(amount, price)
    PROVE  /\ p \in Nat
           /\ price >= Par => Fee(amount) <= p
           /\ price <= Par => p - 1 <= Fee(amount)
<1> DEFINE y == amount * Bps
           q == y \div Denom
           r == (y * price) \div (Denom * Par)
<1>1. /\ y \in Nat /\ Denom \in Nat \ {0}
      /\ Par \in Nat \ {0} /\ price \in Nat
  BY FeeAssumption DEF FeeAssumption
<1>2. q \in Nat
  BY <1>1, DivBounds
<1>3. p \in {Clamp(r), Clamp(r + 1)}
  BY DEF PreviewFees
<1>4. Fee(amount) = Clamp(q)
  BY DEF Fee
<1> HIDE DEF y
<1>5. r \in Nat /\ (price >= Par => q <= r) /\ (price <= Par => r <= q)
  BY <1>1, Scaled
<1> HIDE DEF q, r
<1> QED
  BY <1>1, <1>2, <1>3, <1>4, <1>5, FeeAssumption DEF Clamp, FeeAssumption

\* The pull and the two hand-outs of transferWithFee come to one payment,
\* and nobody ends with less than nothing.
THEOREM PaidByShares ==
    ASSUME NEW b \in [Account -> Nat], NEW to \in Account, NEW amount \in Nat,
           Owner \in Account, Fee(amount) <= amount, amount <= b[Owner]
    PROVE  /\ Paid(b, Owner, to, amount) \in [Account -> Nat]
           /\ Paid(b, Owner, to, amount) =
                [a \in Account |-> b[a] + Promise!Share(a, to, amount, Fee(amount))]
<1> DEFINE fee == Fee(amount)
           c == Paid(b, Owner, to, amount)
           b1 == Moved(b, Owner, Rpt, amount)
           b2 == Moved(b1, Rpt, to, amount - fee)
           b3 == Moved(b2, Rpt, FeeRecipient, fee)
<1>1. fee \in Nat /\ fee <= amount
  BY FeeInBounds, FeeAssumption DEF FeeAssumption
<1>2. c = b3
  BY <1>1 DEF Paid, Net
<1>3. Rpt \in Account /\ FeeRecipient \in Account
  BY AccountAssumption DEF AccountAssumption
<1> HIDE DEF fee, c
<1>4. /\ b1 \in [Account -> Int]
      /\ \A a \in Account : b1[a] =
           b[a] + (IF a = Rpt THEN amount ELSE 0) - (IF a = Owner THEN amount ELSE 0)
  BY <1>3 DEF Moved
<1> HIDE DEF b1
<1>5. /\ b2 \in [Account -> Int]
      /\ \A a \in Account : b2[a] =
           b1[a] + (IF a = to THEN amount - fee ELSE 0) - (IF a = Rpt THEN amount - fee ELSE 0)
  BY <1>1, <1>3, <1>4 DEF Moved
<1> HIDE DEF b2
<1>6. /\ b3 \in [Account -> Int]
      /\ \A a \in Account : b3[a] =
           b2[a] + (IF a = FeeRecipient THEN fee ELSE 0) - (IF a = Rpt THEN fee ELSE 0)
  BY <1>1, <1>3, <1>5 DEF Moved
<1> HIDE DEF b3
<1>7. ASSUME NEW a \in Account
      PROVE  c[a] = b[a] + Promise!Share(a, to, amount, fee) /\ c[a] \in Nat
  BY <1>1, <1>2, <1>4, <1>5, <1>6 DEF Promise!Share
<1>8. c \in [Account -> Nat]
  BY <1>2, <1>6, <1>7
<1>9. c = [a \in Account |-> b[a] + Promise!Share(a, to, amount, fee)]
  BY <1>7, <1>8
<1> QED
  BY <1>8, <1>9 DEF c, fee

-----------------------------------------------------------------------------
(***************************************************************************)
(* The inductive invariant.                                                *)
(***************************************************************************)

IsTransfer(n) == n \in 1 .. sent /\ tx[n].kind = "transfer"

\* Nothing of the wallet was paid since the estimate: what it found holds.
NothingPaidSince(est) == \A m \in Nonce : est < m /\ m <= settled => ~PaidTransfer(m)
StillOk(est, sum) == NothingPaidSince(est) => TransferOk(Owner, sum)

NonceOK(n) ==
    /\ n <= sent => /\ tx[n].kind \in {"approve", "transfer"}
                    /\ tx[n].est < n /\ tx[n].est <= settled
    /\ n > sent => tx[n].kind = "none"
    /\ n > settled => tx[n].fate = "pool"
    /\ PaidTransfer(n) => Fee(tx[n].sum) <= tx[n].sum
    /\ IsTransfer(n) /\ n > settled => StillOk(tx[n].est, tx[n].sum)

FormOK(s) ==
    /\ s.press.pc = "wait" => IsTransfer(s.press.n)
    /\ s.press.pc \in {"post", "answer"} => IsTransfer(s.press.n) /\ s.press.n <= settled
    /\ s.press.pc = "sign" => s.press.est <= settled /\ StillOk(s.press.est, s.press.sum)
    /\ s.view.n # 0 =>
          /\ IsTransfer(s.view.n)
          /\ s.view.status = "success" =>
                s.view.n <= settled /\ tx[s.view.n].fate # "reverted"
          /\ s.view.status = "failed" => tx[s.view.n].fate = "reverted"
    /\ s.hash # 0 => IsTransfer(s.hash) /\ s.hash <= settled

SendIInv ==
    /\ SendTypeOK
    /\ \A n \in Nonce : NonceOK(n)
    /\ \A f \in Form : FormOK(form[f])
    /\ \A n \in posted : IsTransfer(n)
    /\ RevertsNeedRace

LEMMA SendInit == Init => SendIInv
<1> SUFFICES ASSUME Init PROVE SendIInv
  OBVIOUS
<1>1. SendTypeOK
  <2>1. NewForm \in FormState /\ NoTx \in Tx
    BY SendAssumption DEF SendAssumption, NewForm, FormState, Press, Idle, View, NoTx, Tx
  <2>2. PICK l \in Leftover : allowance = [a \in Account |-> IF a = Owner THEN l ELSE 0]
    BY DEF Init
  <2>3. allowance \in [Account -> 0 .. MaxUint]
    BY <2>2, SendAssumption, FeeAssumption DEF SendAssumption, FeeAssumption
  <2> QED
    BY <2>1, <2>3, SendAssumption DEF Init, SendTypeOK, SendAssumption
<1>2. \A n \in Nonce : NonceOK(n)
  BY DEF Init, NonceOK, NoTx, PaidTransfer, IsTransfer, Nonce
<1>3. \A f \in Form : FormOK(form[f])
  BY DEF Init, FormOK, NewForm, Idle
<1>4. RevertsNeedRace
  BY DEF Init, RevertsNeedRace, NoTx
<1> QED
  BY <1>1, <1>2, <1>3, <1>4 DEF SendIInv, Init

\* A step of a tab that leaves the wallet and the ledger alone.
LEMMA TabStep ==
    ASSUME SendIInv, NEW f \in Form, UNCHANGED <<ledger, tx, sent, settled>>,
           form' \in [Form -> FormState], \A g \in Form \ {f} : form'[g] = form[g],
           FormOK(form'[f]),
           posted' \subseteq 1 .. settled, \A n \in posted' : IsTransfer(n)
    PROVE  SendIInv'
<1>1. SendTypeOK'
  BY DEF SendIInv, SendTypeOK, ledger
<1>2. \A n \in Nonce : NonceOK(n)'
  BY DEF SendIInv, NonceOK, IsTransfer, PaidTransfer, StillOk, NothingPaidSince,
         TransferOk, ledger
<1>3. ASSUME NEW g \in Form PROVE FormOK(form[g])'
  <2>1. FormOK(form'[g])
    BY DEF SendIInv
  <2> QED
    BY <2>1 DEF FormOK, IsTransfer, StillOk, NothingPaidSince, PaidTransfer, TransferOk, ledger
<1>4. RevertsNeedRace'
  BY DEF SendIInv, RevertsNeedRace, PaidTransfer
<1>5. \A n \in posted' : IsTransfer(n)'
  BY DEF IsTransfer
<1> QED
  BY <1>1, <1>2, <1>3, <1>4, <1>5 DEF SendIInv

\* The steps of a tab that change nothing outside it, or record a hash.
LEMMA TabSteps ==
    ASSUME SendIInv, NEW f \in Form,
           \/ PressSend(f) \/ Throw(f) \/ Close(f) \/ PreflightPasses(f)
           \/ PreflightBlocks(f) \/ CheckFunds(f) \/ ApproveSettled(f) \/ Estimate(f)
           \/ Receipt(f) \/ PostRecorded(f) \/ PostRefused(f) \/ PostAnswered(f)
    PROVE  SendIInv'
<1> DEFINE p == form[f].press
<1>a. /\ form \in [Form -> FormState] /\ form[f] \in FormState
      /\ FormOK(form[f])
      /\ sent \in Nat /\ settled \in Nat /\ settled <= sent /\ sent <= MaxSent
      /\ MaxSent \in Nat
      /\ posted \subseteq 1 .. settled /\ \A n \in posted : IsTransfer(n)
  BY SendAssumption DEF SendIInv, SendTypeOK, SendAssumption
<1>b. ASSUME Local, form' \in [Form -> FormState],
             \A g \in Form \ {f} : form'[g] = form[g], FormOK(form'[f])
      PROVE  SendIInv'
  BY <1>a, <1>b, TabStep DEF Local
<1>c. Idle \in Press
  BY <1>a, SendAssumption DEF Idle, Press, SendAssumption
<1>1. CASE PressSend(f)
  <2>1. PICK to \in To, amt \in Amount : form' = [form EXCEPT ![f].press = Started(to, amt)]
    BY <1>1 DEF PressSend
  <2>2. Started(to, amt) \in Press
    BY <1>c, SendAssumption DEF Started, Idle, Press, SendAssumption
  <2> QED
    BY <1>1, <1>a, <1>b, <2>1, <2>2
       DEF PressSend, Local, FormState, FormOK, Started, Idle
<1>2. CASE Throw(f)
  <2>1. [status |-> "failed", n |-> 0] \in View
    BY <1>a DEF View
  <2>2. form' \in [Form -> FormState] /\ \A g \in Form \ {f} : form'[g] = form[g]
    BY <1>2, <1>a, <1>c, <2>1 DEF Throw, FormState, Press, View, Idle
  <2>3. FormOK(form'[f])
    BY <1>2, <1>a DEF Throw, FormState, FormOK, Idle
  <2> QED
    BY <1>2, <1>b, <2>2, <2>3 DEF Throw
<1>3. CASE Close(f)
  BY <1>3, <1>a, <1>b, <1>c DEF Close, Local, FormState, FormOK, NewForm, Idle, View
<1>4. CASE PreflightPasses(f)
  BY <1>4, <1>a, <1>b DEF PreflightPasses, Go, At, Local, FormState, Press, FormOK
<1>5. CASE PreflightBlocks(f)
  <2>1. form' \in [Form -> FormState] /\ \A g \in Form \ {f} : form'[g] = form[g]
    BY <1>5, <1>a, <1>c DEF PreflightBlocks, Return, FormState, Press, Idle
  <2>2. FormOK(form'[f])
    BY <1>5, <1>a DEF PreflightBlocks, Return, FormState, FormOK, Idle
  <2> QED
    BY <1>5, <1>b, <2>1, <2>2 DEF PreflightBlocks
<1>6. CASE CheckFunds(f)
  BY <1>6, <1>a, <1>b DEF CheckFunds, Go, At, Local, FormState, Press, FormOK
<1>7. CASE ApproveSettled(f)
  BY <1>7, <1>a, <1>b DEF ApproveSettled, Go, At, Local, FormState, Press, FormOK
<1>8. CASE Estimate(f)
  <2>1. form' \in [Form -> FormState] /\ \A g \in Form \ {f} : form'[g] = form[g]
    BY <1>8, <1>a DEF Estimate, FormState, Press
  <2>2. FormOK(form'[f])
    BY <1>8, <1>a DEF Estimate, FormState, Press, FormOK, StillOk
  <2> QED
    BY <1>8, <1>b, <2>1, <2>2 DEF Estimate
<1>9. CASE Receipt(f)
  <2>1. IsTransfer(p.n) /\ p.n <= settled /\ p.n \in 0 .. MaxSent
    BY <1>9, <1>a DEF Receipt, Waiting, At, FormOK, FormState, Press, IsTransfer
  <2>2. [status |-> ReceiptStatus(p.n), n |-> p.n] \in View
    BY <2>1 DEF ReceiptStatus, View
  <2>3. form' \in [Form -> FormState] /\ \A g \in Form \ {f} : form'[g] = form[g]
    BY <1>9, <1>a, <2>2 DEF Receipt, FormState, Press
  <2>4. FormOK(form'[f])
    BY <1>9, <1>a, <2>1 DEF Receipt, ReceiptStatus, FormState, Press, FormOK
  <2> QED
    BY <1>9, <1>b, <2>3, <2>4 DEF Receipt
<1>10. CASE PostRecorded(f)
  <2>1. IsTransfer(p.n) /\ p.n <= settled
    BY <1>10, <1>a DEF PostRecorded, At, FormOK
  <2>2. posted' \subseteq 1 .. settled /\ \A n \in posted' : IsTransfer(n)
    <3>1. posted' = posted \cup {p.n} /\ p.n \in 1 .. settled
      BY <1>10, <1>a, <2>1 DEF PostRecorded, IsTransfer
    <3> QED
      BY <3>1, <2>1, <1>a
  <2>3. /\ form' = [form EXCEPT ![f].press.pc = "answer"]
        /\ UNCHANGED <<ledger, tx, sent, settled>>
    BY <1>10 DEF PostRecorded, Go
  <2>4. form' \in [Form -> FormState] /\ \A g \in Form \ {f} : form'[g] = form[g]
    BY <1>a, <2>3 DEF FormState, Press
  <2>5. FormOK(form'[f])
    BY <1>a, <2>1, <2>3 DEF FormState, Press, FormOK
  <2> QED
    BY <2>2, <2>3, <2>4, <2>5, TabStep
<1>11. CASE PostRefused(f)
  BY <1>11, <1>a, <1>b DEF PostRefused, Go, At, Local, FormState, Press, FormOK
<1>12. CASE PostAnswered(f)
  BY <1>12, <1>a, <1>b, <1>c
     DEF PostAnswered, Return, At, Local, FormState, Press, Idle, FormOK, IsTransfer
<1> QED
  BY <1>1, <1>2, <1>3, <1>4, <1>5, <1>6, <1>7, <1>8, <1>9, <1>10, <1>11, <1>12

\* What every step of a wallet keeps: a transaction signed is appended.
LEMMA BroadcastStep ==
    ASSUME SendIInv, NEW f \in Form, NEW t \in Tx, NEW pc \in {"approving", "wait"},
           Broadcast(f, t, pc), t.fate = "pool", t.est <= settled,
           \/ pc = "approving" /\ t.kind = "approve"
           \/ pc = "wait" /\ t.kind = "transfer" /\ StillOk(t.est, t.sum)
    PROVE  SendIInv'
<1>a. /\ form \in [Form -> FormState] /\ form[f] \in FormState
      /\ tx \in [Nonce -> Tx]
      /\ sent \in Nat /\ settled \in Nat /\ settled <= sent
      /\ MaxSent \in Nat
      /\ posted \subseteq 1 .. settled
  BY SendAssumption DEF SendIInv, SendTypeOK, SendAssumption
<1>c. PICK n \in Nonce : n = sent + 1 /\ n <= MaxSent
  BY <1>a DEF Broadcast, Nonce
<1>b. /\ sent' = n
      /\ UNCHANGED <<ledger, settled, posted>>
      /\ tx' = [tx EXCEPT ![n] = t]
      /\ form' = [form EXCEPT ![f].press.pc = pc, ![f].press.n = n,
                              ![f].view = IF pc = "wait"
                                            THEN [status |-> "pending", n |-> n] ELSE @]
  BY <1>a, <1>c DEF Broadcast, Nonce
<1>1. /\ tx' \in [Nonce -> Tx] /\ tx'[n] = t
      /\ \A m \in Nonce \ {n} : tx'[m] = tx[m]
  BY <1>a, <1>b
<1>2. /\ form' \in [Form -> FormState]
      /\ \A g \in Form \ {f} : form'[g] = form[g]
  <2>1. pc = "wait" => [status |-> "pending", n |-> n] \in View
    BY <1>a, <1>b, <1>c DEF View
  <2>2. n \in 0 .. MaxSent /\ pc \in {"approving", "wait"}
    BY <1>a, <1>c
  <2>3. CASE pc = "wait"
    BY <1>a, <1>b, <2>1, <2>2, <2>3 DEF FormState, Press
  <2>4. CASE pc = "approving"
    BY <1>a, <1>b, <2>2, <2>4 DEF FormState, Press
  <2> QED
    BY <2>2, <2>3, <2>4
<1>3. SendTypeOK'
  BY <1>a, <1>b, <1>c, <1>1, <1>2 DEF SendIInv, SendTypeOK, ledger
<1>4. \A m \in 1 .. sent : IsTransfer(m) <=> IsTransfer(m)'
  BY <1>a, <1>b, <1>c, <1>1 DEF IsTransfer, Nonce
<1>5. \A est, sum : StillOk(est, sum) => StillOk(est, sum)'
  BY <1>a, <1>b, <1>c, <1>1
     DEF StillOk, NothingPaidSince, PaidTransfer, TransferOk, ledger, Nonce
<1>6. ASSUME NEW m \in Nonce PROVE NonceOK(m)'
  <2>1. CASE m = n
    <3>1. /\ tx'[m] = t /\ m = sent' /\ t.kind \in {"approve", "transfer"}
          /\ t.est < m /\ t.est <= settled'
      BY <2>1, <1>a, <1>b, <1>c, <1>1 DEF Tx
    <3>2. t.kind = "transfer" => StillOk(t.est, t.sum)'
      BY <1>5
    <3>3. IsTransfer(m)' => t.kind = "transfer"
      BY <3>1 DEF IsTransfer
    <3>4. ~PaidTransfer(m)'
      BY <3>1 DEF PaidTransfer
    <3>5. sent' \in Nat
      BY <1>b, <1>c, <1>a
    <3> QED
      BY <3>1, <3>2, <3>3, <3>4, <3>5 DEF NonceOK, PaidTransfer
  <2>2. CASE m # n
    <3>1. tx'[m] = tx[m] /\ NonceOK(m) /\ (m <= sent' => m <= sent) /\ settled' = settled
      BY <2>2, <1>a, <1>b, <1>c, <1>1 DEF SendIInv, Nonce
    <3>2. IsTransfer(m)' => IsTransfer(m)
      BY <3>1 DEF IsTransfer, Nonce
    <3>3. m > sent' => m > sent
      BY <1>a, <1>b, <1>c DEF Nonce
    <3> QED
      BY <3>1, <3>2, <3>3, <1>5 DEF NonceOK, PaidTransfer
  <2> QED
    BY <2>1, <2>2
<1>7. ASSUME NEW g \in Form PROVE FormOK(form[g])'
  <2>1. \A m : IsTransfer(m) => IsTransfer(m)' /\ tx'[m] = tx[m]
    BY <1>a, <1>b, <1>c, <1>1 DEF IsTransfer, Nonce
  <2>2. FormOK(form[g]) /\ settled' = settled
    BY <1>b DEF SendIInv
  <2>3. CASE g # f
    BY <2>1, <2>2, <2>3, <1>2, <1>5 DEF FormOK
  <2>4. CASE g = f /\ pc = "approving"
    <3>1. /\ form'[f].press.pc = "approving"
          /\ form'[f].view = form[f].view /\ form'[f].hash = form[f].hash
      BY <2>4, <1>a, <1>b DEF FormState, Press
    <3> QED
      BY <2>1, <2>2, <2>4, <3>1 DEF FormOK
  <2>5. CASE g = f /\ pc = "wait"
    <3>1. /\ form'[f].press.pc = "wait" /\ form'[f].press.n = n
          /\ form'[f].view = [status |-> "pending", n |-> n]
          /\ form'[f].hash = form[f].hash
      BY <2>5, <1>a, <1>b DEF FormState, Press
    <3>2. IsTransfer(n)'
      BY <2>5, <1>a, <1>b, <1>c, <1>1 DEF IsTransfer
    <3> QED
      BY <2>1, <2>2, <2>5, <3>1, <3>2 DEF FormOK
  <2> QED
    BY <2>3, <2>4, <2>5
<1>8. \A m \in posted' : IsTransfer(m)'
  BY <1>a, <1>b, <1>4 DEF SendIInv
<1>9. RevertsNeedRace'
  <2> SUFFICES ASSUME NEW m \in Nonce, tx'[m].fate = "reverted"
               PROVE  \E k \in (tx'[m].est + 1) .. (m - 1) : PaidTransfer(k)'
    BY DEF RevertsNeedRace
  <2>1. m # n /\ tx'[m] = tx[m]
    BY <1>1
  <2>2. m <= settled
    BY <2>1, <1>a DEF SendIInv, NonceOK, Nonce
  <2>3. PICK k \in (tx[m].est + 1) .. (m - 1) : PaidTransfer(k)
    BY <2>1 DEF SendIInv, RevertsNeedRace
  <2>4. tx[m].est \in Nat
    BY <1>a DEF Tx
  <2>5. k \in Nonce /\ k # n
    BY <1>a, <1>c, <2>2, <2>3, <2>4 DEF Nonce
  <2> QED
    BY <2>1, <2>3, <2>5, <1>1 DEF PaidTransfer
<1> QED
  BY <1>3, <1>6, <1>7, <1>8, <1>9 DEF SendIInv

LEMMA SignSteps ==
    ASSUME SendIInv, NEW f \in Form, SignApprove(f) \/ SignTransfer(f)
    PROVE  SendIInv'
<1> DEFINE p == form[f].press
<1>a. p \in Press /\ settled \in Nat /\ Owner \in Account
  BY SendAssumption DEF SendIInv, SendTypeOK, FormState, SendAssumption
<1>1. CASE SignApprove(f)
  <2> DEFINE t == [NoTx EXCEPT !.kind = "approve"]
  <2>1. t \in Tx /\ t.fate = "pool" /\ t.est <= settled /\ t.kind = "approve"
    <3>1. NoTx \in Tx /\ NoTx.fate = "pool" /\ NoTx.est = 0
      BY <1>a DEF NoTx, Tx
    <3> QED
      BY <1>a, <3>1 DEF Tx
  <2>2. Broadcast(f, t, "approving")
    BY <1>1 DEF SignApprove
  <2> HIDE DEF t
  <2> QED
    BY <2>1, <2>2, BroadcastStep
<1>2. CASE SignTransfer(f)
  <2> DEFINE t == [NoTx EXCEPT !.kind = "transfer", !.to = p.to, !.sum = p.sum,
                               !.est = p.est]
  <2>1. t \in Tx /\ t.fate = "pool" /\ t.kind = "transfer" /\ t.est = p.est /\ t.sum = p.sum
    BY <1>a DEF NoTx, Tx, Press
  <2>2. Broadcast(f, t, "wait")
    BY <1>2 DEF SignTransfer
  <2>3. p.est <= settled /\ StillOk(p.est, p.sum)
    BY <1>2 DEF SignTransfer, At, SendIInv, FormOK
  <2> HIDE DEF t, p
  <2> QED
    BY <2>1, <2>2, <2>3, BroadcastStep
<1> QED
  BY <1>1, <1>2

-----------------------------------------------------------------------------
\* A block settles the wallet's next transaction.  What is left to show for
\* each outcome: what it does to the ledger.
LEMMA SettleStep ==
    ASSUME SendIInv, NEW n \in Nonce, NEW fate \in {"ok", "reverted", "cancelled"},
           NEW kept \in BOOLEAN, Settle(n, fate, kept),
           balance' \in [Account -> Nat], allowance' \in [Account -> 0 .. MaxUint],
           fate = "ok" /\ tx[n].kind = "transfer" => Fee(tx[n].sum) <= tx[n].sum,
           \/ fate = "ok" /\ tx[n].kind = "transfer"
           \/ \A sum \in Nat : TransferOk(Owner, sum) => TransferOk(Owner, sum)',
           fate = "reverted" => tx[n].kind = "transfer" /\ ~TransferOk(Owner, tx[n].sum)
    PROVE  SendIInv'
<1>a. /\ form \in [Form -> FormState]
      /\ tx \in [Nonce -> Tx]
      /\ sent \in Nat /\ settled \in Nat /\ sent <= MaxSent /\ MaxSent \in Nat
      /\ posted \subseteq 1 .. settled
  BY SendAssumption DEF SendIInv, SendTypeOK, SendAssumption
<1>b. /\ settled' = n /\ n = settled + 1 /\ n <= sent
      /\ UNCHANGED <<form, sent, posted>>
      /\ tx' = [tx EXCEPT ![n].fate = fate, ![n].kept = kept]
  BY <1>a DEF Settle
<1>1. /\ tx' \in [Nonce -> Tx]
      /\ \A m \in Nonce \ {n} : tx'[m] = tx[m]
      /\ tx'[n].kind = tx[n].kind /\ tx'[n].est = tx[n].est /\ tx'[n].sum = tx[n].sum
      /\ tx'[n].fate = fate
  BY <1>a, <1>b DEF Tx
<1>2. SendTypeOK'
  BY <1>a, <1>b, <1>1 DEF SendIInv, SendTypeOK
<1>3. /\ \A m : IsTransfer(m) <=> IsTransfer(m)'
      /\ \A m \in 1 .. settled : tx'[m] = tx[m]
  BY <1>a, <1>b, <1>1 DEF IsTransfer, Nonce
<1>4. PaidTransfer(n)' <=> fate = "ok" /\ tx[n].kind = "transfer"
  BY <1>1 DEF PaidTransfer
<1>5. \A m \in Nonce : m # n => (PaidTransfer(m)' <=> PaidTransfer(m))
  BY <1>1 DEF PaidTransfer
<1>6. ASSUME NEW est \in Nat, NEW sum \in Nat, est <= settled, StillOk(est, sum)
      PROVE  StillOk(est, sum)'
  <2> SUFFICES ASSUME NothingPaidSince(est)' PROVE TransferOk(Owner, sum)'
    BY DEF StillOk
  <2>1. est < n /\ n <= settled'
    BY <1>6, <1>a, <1>b
  <2>2. ~PaidTransfer(n)'
    BY <2>1 DEF NothingPaidSince
  <2>3. NothingPaidSince(est)
    BY <1>a, <1>b, <1>5 DEF NothingPaidSince, Nonce
  <2>4. TransferOk(Owner, sum)
    BY <2>3, <1>6 DEF StillOk
  <2> QED
    BY <2>2, <2>4, <1>4
<1>7. ASSUME NEW m \in Nonce PROVE NonceOK(m)'
  <2>a. NonceOK(m) /\ tx[m].est \in Nat /\ tx[m].sum \in Nat /\ m \in Nat
    <3>1. tx[m] \in Tx /\ NonceOK(m)
      BY <1>a DEF SendIInv
    <3>2. m \in Nat
      BY <1>a DEF Nonce
    <3> QED
      BY <3>1, <3>2 DEF Tx
  <2>1. CASE m = n
    <3>1. ~(m > settled') /\ ~(m > sent')
      BY <2>1, <1>a, <1>b
    <3>2. PaidTransfer(m)' => Fee(tx'[m].sum) <= tx'[m].sum
      BY <2>1, <1>1, <1>4
    <3>3. /\ tx'[m].kind \in {"approve", "transfer"}
          /\ tx'[m].est < m /\ tx'[m].est <= settled'
      BY <2>1, <2>a, <1>a, <1>b, <1>1 DEF NonceOK
    <3> QED
      BY <3>1, <3>2, <3>3 DEF NonceOK
  <2>2. CASE m # n
    <3>1. tx'[m] = tx[m] /\ (PaidTransfer(m)' => PaidTransfer(m)) /\ sent' = sent
      BY <2>2, <1>1, <1>5, <1>b
    <3>2. /\ m > settled' => m > settled
          /\ m <= sent => tx[m].est <= settled'
      BY <1>a, <1>b, <2>a DEF NonceOK
    <3>3. ASSUME IsTransfer(m)', m > settled' PROVE StillOk(tx[m].est, tx[m].sum)'
      <4>1. PICK est \in Nat, sum \in Nat : est = tx[m].est /\ sum = tx[m].sum
        BY <2>a
      <4>2. IsTransfer(m)
        BY <3>3, <1>3
      <4>3. est <= settled /\ StillOk(est, sum)
        BY <2>a, <3>2, <3>3, <4>1, <4>2 DEF NonceOK, IsTransfer
      <4>4. StillOk(est, sum)'
        BY <4>3, <1>6
      <4> QED
        BY <4>1, <4>4, <3>1
    <3> QED
      BY <2>a, <3>1, <3>2, <3>3 DEF NonceOK
  <2> QED
    BY <2>1, <2>2
<1>8. ASSUME NEW f \in Form PROVE FormOK(form[f])'
  <2>a. FormOK(form[f]) /\ form' = form /\ form[f].press \in Press /\ form[f].view \in View
        /\ settled \in Nat
    BY <1>a, <1>b DEF SendIInv, FormState
  <2>1. ASSUME form[f].press.pc = "sign"
        PROVE  StillOk(form[f].press.est, form[f].press.sum)'
    <3>1. PICK est \in Nat, sum \in Nat : est = form[f].press.est /\ sum = form[f].press.sum
      BY <2>a DEF Press
    <3>2. est <= settled /\ StillOk(est, sum)
      BY <2>a, <2>1, <3>1 DEF FormOK
    <3>3. StillOk(est, sum)'
      BY <3>2, <1>6
    <3> QED
      BY <2>a, <3>1, <3>3
  <2>2. \A m \in Nat : m <= settled => m <= settled'
    BY <1>a, <1>b
  <2>3. ASSUME NEW m, IsTransfer(m), m <= settled \/ tx[m].fate = "reverted"
        PROVE  tx'[m] = tx[m]
    BY <2>3, <1>a, <1>b, <1>1 DEF IsTransfer, Nonce, SendIInv, NonceOK
  <2>4. /\ form[f].press.est \in Nat /\ form[f].press.n \in Nat
        /\ form[f].view.n \in Nat /\ form[f].hash \in Nat
    BY <1>a DEF FormState, Press, View
  <2>5. /\ form'[f].press.pc = "wait" => IsTransfer(form[f].press.n)'
        /\ form'[f].press.pc \in {"post", "answer"} =>
             IsTransfer(form[f].press.n)' /\ form'[f].press.n <= settled'
    BY <2>a, <2>2, <2>4, <1>3 DEF FormOK
  <2>6. form'[f].view.n # 0 =>
          /\ IsTransfer(form[f].view.n)'
          /\ form'[f].view.status = "success" =>
                form'[f].view.n <= settled' /\ tx'[form'[f].view.n].fate # "reverted"
          /\ form'[f].view.status = "failed" => tx'[form'[f].view.n].fate = "reverted"
    BY <2>a, <2>2, <2>3, <2>4, <1>3 DEF FormOK
  <2>7. form'[f].hash # 0 => IsTransfer(form[f].hash)' /\ form'[f].hash <= settled'
    BY <2>a, <2>2, <2>4, <1>3 DEF FormOK
  <2>8. form'[f].press.pc = "sign" => form'[f].press.est <= settled'
    BY <2>a, <2>2, <2>4 DEF FormOK
  <2> QED
    BY <2>a, <2>1, <2>5, <2>6, <2>7, <2>8 DEF FormOK
<1>9. \A m \in posted' : IsTransfer(m)'
  BY <1>b, <1>3 DEF SendIInv
<1>10. RevertsNeedRace'
  <2> SUFFICES ASSUME NEW m \in Nonce, tx'[m].fate = "reverted"
               PROVE  \E k \in (tx'[m].est + 1) .. (m - 1) : PaidTransfer(k)'
    BY DEF RevertsNeedRace
  <2>a. tx[m].est \in Nat /\ m \in Nat /\ tx'[m].est = tx[m].est
    <3>1. tx[m] \in Tx /\ tx'[m].est = tx[m].est
      BY <1>a, <1>1
    <3>2. m \in Nat
      BY <1>a DEF Nonce
    <3> QED
      BY <3>1, <3>2 DEF Tx
  <2>1. PICK k \in (tx[m].est + 1) .. (m - 1) : PaidTransfer(k)
    <3>1. CASE m = n
      <4>1. IsTransfer(n) /\ n > settled /\ ~TransferOk(Owner, tx[n].sum)
        BY <3>1, <1>a, <1>b, <1>1 DEF IsTransfer
      <4>2. ~NothingPaidSince(tx[n].est)
        BY <4>1 DEF SendIInv, NonceOK, StillOk
      <4>3. PICK k \in Nonce : tx[n].est < k /\ k <= settled /\ PaidTransfer(k)
        BY <4>2 DEF NothingPaidSince
      <4> QED
        BY <3>1, <4>3, <1>a, <1>b, <2>a DEF Nonce
    <3>2. CASE m # n
      BY <3>2, <1>1 DEF SendIInv, RevertsNeedRace
    <3> QED
      BY <3>1, <3>2
  <2>2. k \in Nonce
    BY <1>a, <2>a, <2>1 DEF Nonce
  <2>3. k # n
    BY <1>a, <1>b, <2>1, <2>2 DEF SendIInv, NonceOK, PaidTransfer
  <2> QED
    BY <2>a, <2>1, <2>2, <2>3, <1>5
<1> QED
  BY <1>2, <1>7, <1>8, <1>9, <1>10 DEF SendIInv

LEMMA ChainSteps == SendIInv /\ ChainStep => SendIInv'
<1> SUFFICES ASSUME SendIInv,
                    NEW n \in Nonce,
                    \/ ApprovalMined(n) \/ TransferMined(n)
                    \/ TransferReverts(n) \/ Cancelled(n)
             PROVE  SendIInv'
  BY DEF ChainStep
<1>a. /\ balance \in [Account -> Nat] /\ allowance \in [Account -> 0 .. MaxUint]
      /\ Owner \in Account /\ MaxUint \in Nat /\ MinFee \in Nat /\ MaxFee \in Nat
      /\ tx[n] \in Tx
  BY SendAssumption, FeeAssumption DEF SendIInv, SendTypeOK, SendAssumption, FeeAssumption
<1>b. Kept \subseteq BOOLEAN
  BY DEF Kept
<1>1. CASE ApprovalMined(n)
  <2>1. PICK kept \in BOOLEAN : Settle(n, "ok", kept)
    BY <1>1, <1>b DEF ApprovalMined
  <2>2. /\ balance' = balance /\ allowance' = [allowance EXCEPT ![Owner] = MaxUint]
        /\ tx[n].kind = "approve"
    BY <1>1 DEF ApprovalMined, Approve
  <2>3. allowance' \in [Account -> 0 .. MaxUint] /\ allowance[Owner] <= allowance'[Owner]
        /\ allowance[Owner] \in Nat /\ allowance'[Owner] \in Nat
    BY <1>a, <2>2
  <2>4. \A sum \in Nat : TransferOk(Owner, sum) => TransferOk(Owner, sum)'
    BY <2>2, <2>3 DEF TransferOk
  <2> QED
    BY <1>a, <2>1, <2>2, <2>3, <2>4, SettleStep
<1>2. CASE TransferMined(n)
  <2>1. PICK kept \in BOOLEAN : Settle(n, "ok", kept)
    BY <1>2, <1>b DEF TransferMined
  <2>2. /\ TransferWithFee(Owner, tx[n].to, tx[n].sum) /\ tx[n].kind = "transfer"
        /\ tx[n].to \in Account /\ tx[n].sum \in Nat
    BY <1>2, <1>a DEF TransferMined, Tx
  <2>3. /\ Fee(tx[n].sum) <= tx[n].sum /\ tx[n].sum <= balance[Owner]
        /\ tx[n].sum <= allowance[Owner]
    BY <2>2 DEF TransferWithFee, TransferOk
  <2>4. balance' \in [Account -> Nat]
    BY <1>a, <2>2, <2>3, PaidByShares DEF TransferWithFee
  <2>5. allowance' \in [Account -> 0 .. MaxUint]
    BY <1>a, <2>2, <2>3 DEF TransferWithFee, Spent
  <2> QED
    BY <2>1, <2>2, <2>3, <2>4, <2>5, SettleStep
<1>3. CASE TransferReverts(n)
  <2>1. PICK kept \in BOOLEAN : Settle(n, "reverted", kept)
    BY <1>3, <1>b DEF TransferReverts
  <2>2. /\ UNCHANGED ledger /\ tx[n].kind = "transfer" /\ ~TransferOk(Owner, tx[n].sum)
    BY <1>3 DEF TransferReverts
  <2>3. \A sum \in Nat : TransferOk(Owner, sum) => TransferOk(Owner, sum)'
    BY <2>2 DEF TransferOk, ledger
  <2> QED
    BY <1>a, <2>1, <2>2, <2>3, SettleStep DEF ledger
<1>4. CASE Cancelled(n)
  <2>1. Settle(n, "cancelled", FALSE) /\ UNCHANGED ledger
    BY <1>4 DEF Cancelled
  <2>2. \A sum \in Nat : TransferOk(Owner, sum) => TransferOk(Owner, sum)'
    BY <2>1 DEF TransferOk, ledger
  <2> QED
    BY <1>a, <2>1, <2>2, SettleStep DEF ledger
<1> QED
  BY <1>1, <1>2, <1>3, <1>4

LEMMA SendStutters == SendIInv /\ UNCHANGED vars => SendIInv'
  BY DEF SendIInv, vars, ledger, SendTypeOK, NonceOK, FormOK, IsTransfer, PaidTransfer,
         StillOk, NothingPaidSince, TransferOk, RevertsNeedRace

LEMMA SendNext == SendIInv /\ [Next]_vars => SendIInv'
<1> SUFFICES ASSUME SendIInv, [Next]_vars PROVE SendIInv'
  OBVIOUS
<1>1. ASSUME NEW f \in Form, FormStep(f) PROVE SendIInv'
  BY <1>1, TabSteps, SignSteps DEF FormStep
<1> QED
  BY <1>1, ChainSteps, SendStutters DEF Next

-----------------------------------------------------------------------------
(***************************************************************************)
(* The theorems.                                                           *)
(***************************************************************************)

\* In every behaviour, for any number of tabs, amounts and fees: what an
\* estimate found holds until something of the wallet is paid, and what a tab
\* shows, follows or reports is a transfer it has seen settled.
THEOREM SendInvariance == Spec => []SendIInv
  BY SendInit, SendNext, PTL DEF Spec

\* Nobody's balance is ever negative, and every tab is where it can be.
THEOREM SendTypeCorrect == Spec => []SendTypeOK
<1>1. SendIInv => SendTypeOK
  BY DEF SendIInv
<1> QED
  BY <1>1, SendInvariance, PTL

\* A transfer whose gas was estimated reverts only because another transfer of
\* the wallet was paid since.
THEOREM NoVainTransfers == Spec => []RevertsNeedRace
<1>1. SendIInv => RevertsNeedRace
  BY DEF SendIInv
<1> QED
  BY <1>1, SendInvariance, PTL

\* The status on the screen agrees with the transaction it names.
THEOREM ScreensAgree == Spec => []ScreenAgrees
<1>1. SendIInv => ScreenAgrees
  BY DEF SendIInv, ScreenAgrees, FormOK, IsTransfer
<1> QED
  BY <1>1, SendInvariance, PTL

\* A hash that is followed or recorded belongs to a settled transfer.
THEOREM RecordsAreSettled == Spec => []RecordedAreSettled
<1>1. SendIInv => RecordedAreSettled
  BY DEF SendIInv, SendTypeOK, RecordedAreSettled, FormOK, IsTransfer
<1> QED
  BY <1>1, SendInvariance, PTL

\* A paid transfer costs its receiver the fee of the preview, or one unit less.
THEOREM PreviewsHold == Spec => []PreviewHolds
<1>1. SendIInv => PreviewHolds
  <2> SUFFICES ASSUME SendIInv, NEW n \in Nonce, PaidTransfer(n),
                      NEW price \in Price, NEW p \in PreviewFees(tx[n].sum, price)
               PROVE  LET cost == tx[n].sum - Net(tx[n].sum) IN
                      /\ price >= Par => cost <= p
                      /\ price <= Par => p - 1 <= cost
    BY DEF PreviewHolds
  <2>1. tx[n].sum \in Nat /\ Fee(tx[n].sum) <= tx[n].sum
    BY DEF SendIInv, SendTypeOK, Tx, NonceOK
  <2>2. PICK sum \in Nat : sum = tx[n].sum
    BY <2>1
  <2>3. /\ price >= Par => Fee(sum) <= p
        /\ price <= Par => p - 1 <= Fee(sum)
        /\ Fee(sum) \in Nat
    BY <2>2, PreviewClose, FeeInBounds, FeeAssumption DEF FeeAssumption
  <2>4. sum - Net(sum) = Fee(sum)
    BY <2>1, <2>2, <2>3 DEF Net
  <2> QED
    BY <2>2, <2>3, <2>4
<1> QED
  BY <1>1, SendInvariance, PTL

-----------------------------------------------------------------------------
(***************************************************************************)
(* The refinement: signing a transfer places a payment, settling it pays   *)
(* it or makes it void, and all the rest is stuttering.                    *)
(***************************************************************************)

PaymentsNow == [n \in Nonce |-> Payment(n)]

LEMMA SamePayments ==
    ASSUME UNCHANGED balance, \A n \in Nonce : Payment(n)' = Payment(n)
    PROVE  UNCHANGED <<balance, PaymentsNow>>
  BY DEF PaymentsNow

LEMMA OnePayment ==
    ASSUME NEW n \in Nonce, NEW t, tx \in [Nonce -> Tx], tx' = [tx EXCEPT ![n] = t]
    PROVE  /\ \A m \in Nonce : m # n => Payment(m)' = Payment(m)
           /\ PaymentsNow' = [PaymentsNow EXCEPT ![n] = PaymentsNow'[n]]
<1>1. \A m \in Nonce : m # n => Payment(m)' = Payment(m)
  BY DEF Payment
<1> QED
  BY <1>1 DEF PaymentsNow

\* Signing a transfer places a payment; signing an approval is no payment.
LEMMA SigningPlaces ==
    ASSUME SendIInv, NEW f \in Form, SignApprove(f) \/ SignTransfer(f)
    PROVE  Promise!Next \/ UNCHANGED <<balance, PaymentsNow>>
<1>a. /\ tx \in [Nonce -> Tx] /\ form[f].press \in Press
      /\ sent \in Nat /\ MaxSent \in Nat
  BY SendAssumption DEF SendIInv, SendTypeOK, FormState, SendAssumption
<1>1. PICK n \in Nonce : n = sent + 1
  BY <1>a DEF SignApprove, SignTransfer, Broadcast, Nonce
<1>2. tx[n].kind = "none"
  BY <1>a, <1>1 DEF SendIInv, NonceOK
<1>3. Payment(n) = Promise!NoPayment
  BY <1>2 DEF Payment, Promise!NoPayment
<1>4. CASE SignApprove(f)
  <2>1. tx' = [tx EXCEPT ![n] = [NoTx EXCEPT !.kind = "approve"]] /\ UNCHANGED balance
    BY <1>1, <1>4 DEF SignApprove, Broadcast, ledger
  <2>2. tx'[n].kind = "approve"
    BY <1>a, <2>1 DEF NoTx
  <2>3. Payment(n)' = Payment(n)
    BY <1>2, <2>2 DEF Payment
  <2> QED
    BY <1>a, <2>1, <2>3, OnePayment, SamePayments
<1>5. CASE SignTransfer(f)
  <2> DEFINE p == form[f].press
             t == [NoTx EXCEPT !.kind = "transfer", !.to = p.to, !.sum = p.sum,
                               !.est = p.est]
  <2>1. tx' = [tx EXCEPT ![n] = t] /\ UNCHANGED balance
    BY <1>1, <1>5 DEF SignTransfer, Broadcast, ledger
  <2>2. /\ tx'[n].kind = "transfer" /\ tx'[n].fate = "pool"
        /\ tx'[n].to = p.to /\ tx'[n].sum = p.sum
        /\ p.to \in Account /\ p.sum \in Nat
    BY <1>a, <2>1 DEF NoTx, Press
  <2>3. PaymentsNow'[n] = [to |-> p.to, sum |-> p.sum, state |-> "open"]
    BY <2>2 DEF PaymentsNow, Payment
  <2>4. PaymentsNow'[n] \in [to : Account, sum : Nat, state : {"open"}]
    BY <2>2, <2>3
  <2>5. PaymentsNow' = [PaymentsNow EXCEPT ![n] = PaymentsNow'[n]]
    <3> HIDE DEF t, p
    <3> QED
      BY <1>a, <2>1, OnePayment
  <2>6. PaymentsNow[n] = Promise!NoPayment
    BY <1>3 DEF PaymentsNow
  <2>7. Promise!Place(n)
    BY <2>1, <2>4, <2>5, <2>6 DEF Promise!Place, PaymentsNow
  <2> QED
    BY <2>7 DEF Promise!Next
<1> QED
  BY <1>4, <1>5

\* Settling a transfer pays or voids its payment.
LEMMA SettlingSettles ==
    ASSUME SendIInv, NEW n \in Nonce,
           \/ ApprovalMined(n) \/ TransferMined(n) \/ TransferReverts(n) \/ Cancelled(n)
    PROVE  Promise!Next \/ UNCHANGED <<balance, PaymentsNow>>
<1>a. /\ tx \in [Nonce -> Tx] /\ tx[n] \in Tx /\ balance \in [Account -> Nat]
      /\ Owner \in Account /\ settled \in Nat /\ MaxSent \in Nat
  BY SendAssumption DEF SendIInv, SendTypeOK, SendAssumption
<1>1. PICK fate \in {"ok", "reverted", "cancelled"}, kept \in BOOLEAN :
        tx' = [tx EXCEPT ![n].fate = fate, ![n].kept = kept] /\ n = settled + 1
  BY DEF ApprovalMined, TransferMined, TransferReverts, Cancelled, Settle, Kept
<1> DEFINE t == [tx[n] EXCEPT !.fate = fate, !.kept = kept]
<1>2. /\ tx' = [tx EXCEPT ![n] = t]
      /\ tx'[n].kind = tx[n].kind /\ tx'[n].to = tx[n].to /\ tx'[n].sum = tx[n].sum
      /\ tx'[n].fate = fate
  BY <1>a, <1>1 DEF Tx
<1>3. tx[n].fate = "pool"
  BY <1>a, <1>1 DEF SendIInv, NonceOK
<1>4. /\ \A m \in Nonce : m # n => Payment(m)' = Payment(m)
      /\ PaymentsNow' = [PaymentsNow EXCEPT ![n] = PaymentsNow'[n]]
  <2>1. PICK u : tx' = [tx EXCEPT ![n] = u]
    BY <1>2
  <2> QED
    BY <1>a, <2>1, OnePayment
<1> HIDE DEF t
<1>5. CASE tx[n].kind # "transfer"
  <2>1. UNCHANGED balance
    BY <1>5 DEF ApprovalMined, TransferMined, TransferReverts, Cancelled, Approve, ledger
  <2>2. Payment(n)' = Payment(n)
    BY <1>2, <1>5 DEF Payment
  <2> QED
    BY <2>1, <2>2, <1>4, SamePayments
<1>6. CASE tx[n].kind = "transfer"
  <2>1. PaymentsNow[n] = [to |-> tx[n].to, sum |-> tx[n].sum, state |-> "open"]
    BY <1>3, <1>6 DEF PaymentsNow, Payment
  <2>2. CASE TransferMined(n)
    <3>1. fate = "ok"
      <4>1. PICK k \in BOOLEAN : Settle(n, "ok", k)
        BY <2>2 DEF TransferMined, Kept
      <4>2. tx'[n].fate = "ok"
        BY <4>1, <1>a DEF Settle, Tx
      <4> QED
        BY <4>2, <1>2
    <3>2. PaymentsNow'[n] = [to |-> tx[n].to, sum |-> tx[n].sum, state |-> "paid"]
      BY <3>1, <1>2, <1>6 DEF PaymentsNow, Payment
    <3>3. PaymentsNow' = [PaymentsNow EXCEPT ![n].state = "paid"]
      BY <1>4, <2>1, <3>2
    <3>4. PICK sum \in Nat, to \in Account : sum = tx[n].sum /\ to = tx[n].to
      BY <1>a DEF Tx
    <3>5. /\ Fee(sum) <= sum /\ sum <= balance[Owner]
          /\ balance' = Paid(balance, Owner, to, sum)
      BY <2>2, <3>4 DEF TransferMined, TransferWithFee, TransferOk
    <3>6. balance' = [a \in Account |-> balance[a] + Promise!Share(a, to, sum, Fee(sum))]
      BY <1>a, <3>5, PaidByShares
    <3>7. Fee(sum) \in MinFee .. MaxFee
      BY FeeInBounds
    <3>8. Promise!Pay(n)
      BY <2>1, <3>3, <3>4, <3>5, <3>6, <3>7 DEF Promise!Pay, PaymentsNow
    <3> QED
      BY <3>8 DEF Promise!Next
  <2>3. CASE TransferReverts(n) \/ Cancelled(n)
    <3>1. fate # "ok" /\ UNCHANGED balance
      <4>1. PICK g \in {"reverted", "cancelled"}, k \in BOOLEAN : Settle(n, g, k)
        BY <2>3 DEF TransferReverts, Cancelled, Kept
      <4>2. tx'[n].fate = g
        BY <4>1, <1>a DEF Settle, Tx
      <4>3. UNCHANGED balance
        BY <2>3 DEF TransferReverts, Cancelled, ledger
      <4> QED
        BY <4>2, <4>3, <1>2
    <3>2. PaymentsNow'[n] = [to |-> tx[n].to, sum |-> tx[n].sum, state |-> "void"]
      BY <3>1, <1>1, <1>2, <1>6 DEF PaymentsNow, Payment
    <3>3. PaymentsNow' = [PaymentsNow EXCEPT ![n].state = "void"]
      BY <1>4, <2>1, <3>2
    <3>4. Promise!Void(n)
      BY <2>1, <3>1, <3>3 DEF Promise!Void, PaymentsNow
    <3> QED
      BY <3>4 DEF Promise!Next
  <2> QED
    BY <2>2, <2>3, <1>6 DEF ApprovalMined
<1> QED
  BY <1>5, <1>6

\* Sending from tabs with approvals, estimates, refusals and replacements
\* implements plain payments: each is placed once, paid or void once, and
\* balances change by whole payments only.
THEOREM PaymentsImplemented == Spec => ImplementsPayments
<1>1. Init => Promise!Init
  <2> SUFFICES ASSUME Init PROVE Promise!Init
    OBVIOUS
  <2>1. \A n \in Nonce : Payment(n) = Promise!NoPayment
    BY DEF Init, Payment, NoTx, Promise!NoPayment
  <2> QED
    BY <2>1, SendAssumption DEF Init, Promise!Init, SendAssumption
<1>2. SendIInv /\ [Next]_vars => [Promise!Next]_(Promise!vars)
  <2> SUFFICES ASSUME SendIInv, [Next]_vars
               PROVE  Promise!Next \/ UNCHANGED <<balance, PaymentsNow>>
    BY DEF Promise!vars, PaymentsNow
  <2>1. ASSUME UNCHANGED <<ledger, tx>> PROVE UNCHANGED <<balance, PaymentsNow>>
    BY <2>1, SamePayments DEF ledger, Payment
  <2>2. CASE UNCHANGED vars
    BY <2>1, <2>2 DEF vars
  <2>3. ASSUME NEW f \in Form, FormStep(f)
        PROVE  Promise!Next \/ UNCHANGED <<balance, PaymentsNow>>
    <3>1. CASE SignApprove(f) \/ SignTransfer(f)
      BY <3>1, SigningPlaces
    <3>2. CASE ~(SignApprove(f) \/ SignTransfer(f))
      <4>1. UNCHANGED <<ledger, tx>>
        BY <2>3, <3>2
           DEF FormStep, PressSend, Throw, Close, PreflightPasses, PreflightBlocks,
               CheckFunds, ApproveSettled, Estimate, Receipt, PostRecorded, PostRefused,
               PostAnswered, Local
      <4> QED
        BY <4>1, <2>1
    <3> QED
      BY <3>1, <3>2
  <2>4. CASE ChainStep
    BY <2>4, SettlingSettles DEF ChainStep
  <2> QED
    BY <2>2, <2>3, <2>4 DEF Next
<1> QED
  BY <1>1, <1>2, SendInvariance, PTL DEF Spec, ImplementsPayments, Promise!Spec
=============================================================================
