------------------------------ MODULE SendFlow ------------------------------
(***************************************************************************)
(* Sending USDC from the browser: the form (SendUSDCForm.tsx), transfer    *)
(* (useUSDC.ts) and sendUsdcWithFeePull, open in several tabs over one     *)
(* wallet, one contract and one API.  A press of Send is a process; each   *)
(* of its steps ends at an await, where the other tabs, the wallet's owner *)
(* and the chain go on.                                                    *)
(*                                                                         *)
(* The wallet numbers its transactions: a nonce is known here by the hash  *)
(* that the wallet first answered for it.  The owner may have the wallet   *)
(* replace a waiting transaction, by the same call at a higher price       *)
(* (another hash, kept = FALSE) or by an empty one (cancelled).            *)
(***************************************************************************)
EXTENDS TransferPull

CONSTANTS
    Form,         \* the tabs with a form
    Owner,        \* the wallet's account
    To,           \* the receivers that may be typed
    Amount,       \* the amounts that may be typed
    MinAmount,    \* MIN_AMOUNT of the form
    Funds,        \* what everybody owns at first
    Leftover,     \* what earlier approvals may have left
    Replaces,     \* how the owner may replace a waiting transaction
    MaxSent       \* bound: the transactions the wallet signs

ASSUME SendAssumption ==
    /\ Owner \in Account /\ To \subseteq Account
    /\ Amount \subseteq Nat /\ MinAmount \in Nat
    /\ Funds \in [Account -> Nat]
    /\ Leftover \subseteq 0 .. MaxUint
    /\ Replaces \subseteq {"repriced", "cancelled"}
    /\ MaxSent \in Nat

Nonce == 1 .. MaxSent

VARIABLES
    form,         \* each tab: the press under way and what is shown
    tx,           \* the wallet's transactions, by nonce
    sent,         \* how many it has signed
    settled,      \* how many of them a block has settled
    posted        \* the nonces whose first hash POST /tx recorded

vars == <<ledger, form, tx, sent, settled, posted>>

-----------------------------------------------------------------------------
NoTx == [kind |-> "none", to |-> Owner, sum |-> 0, est |-> 0,
         fate |-> "pool", kept |-> TRUE]
\* est: how many of the wallet's transactions were settled when the gas of
\* this one was estimated.  kept: whether a block has the first hash, if any.
Tx == [kind : {"none", "approve", "transfer"}, to : Account, sum : Nat, est : Nat,
       fate : {"pool", "ok", "reverted", "cancelled"}, kept : BOOLEAN]

\* The locals of a press: n is the nonce it waits for or reports.
Idle == [pc |-> "idle", to |-> Owner, sum |-> 0, est |-> 0, n |-> 0]
Press == [pc : {"idle", "preflight", "check", "approve", "approving", "estimate",
                "sign", "wait", "post", "answer"},
          to : Account, sum : Nat, est : Nat, n : 0 .. MaxSent]
\* txState: a status and the transaction it is about, 0 for none.
View == [status : {"none", "pending", "success", "failed"}, n : 0 .. MaxSent]
\* press is the send under way, view txState, hash what useTxStatus follows.
FormState == [press : Press, view : View, hash : 0 .. MaxSent]

NewForm == [press |-> Idle, view |-> [status |-> "none", n |-> 0], hash |-> 0]

SendTypeOK ==
    /\ balance \in [Account -> Nat]
    /\ allowance \in [Account -> 0 .. MaxUint]
    /\ form \in [Form -> FormState]
    /\ tx \in [Nonce -> Tx]
    /\ sent \in 0 .. MaxSent
    /\ settled \in 0 .. sent
    /\ posted \subseteq 1 .. settled

Init ==
    /\ balance = Funds
    /\ allowance \in {[a \in Account |-> IF a = Owner THEN l ELSE 0] : l \in Leftover}
    /\ form = [f \in Form |-> NewForm]
    /\ tx = [n \in Nonce |-> NoTx]
    /\ sent = 0 /\ settled = 0
    /\ posted = {}

-----------------------------------------------------------------------------
At(f, pc) == form[f].press.pc = pc
Go(f, pc) == form' = [form EXCEPT ![f].press.pc = pc]
Waiting(n) == n > settled

\* Nothing outside the tab changes.
Local == UNCHANGED <<ledger, tx, sent, settled, posted>>

\* transfer returns: onSend stores the hash and unlocks the button.  What
\* txState says stays.
Return(f, n) == form' = [form EXCEPT ![f].press = Idle, ![f].hash = n]

-----------------------------------------------------------------------------
\* The button goes by the amount as it was when the typing last paused
\* (useDebounce, 400 ms), the transfer by the amount as it is: both are the
\* user's, and may differ.
ButtonEnabled(debounced) == debounced >= MinAmount

Started(to, amt) == [Idle EXCEPT !.pc = "preflight", !.to = to, !.sum = amt]

\* While a send is under way the button of its tab is locked.
PressSend(f) ==
    /\ At(f, "idle")
    /\ \E debounced \in Amount : ButtonEnabled(debounced)
    /\ \E to \in To, amt \in Amount :
         form' = [form EXCEPT ![f].press = Started(to, amt)]
    /\ Local

\* Any call may throw, and the wallet's owner may decline to sign: the catch
\* of transfer shows "failed" and there is no hash to follow, whatever has
\* happened until then.  A wait that times out throws as well.
Throw(f) ==
    /\ ~At(f, "idle")
    /\ form' = [form EXCEPT ![f].press = Idle, ![f].hash = 0,
                            ![f].view = [status |-> "failed", n |-> 0]]
    /\ Local

\* The tab is closed or loaded anew, with a send under way or without.
Close(f) ==
    /\ form' = [form EXCEPT ![f] = NewForm]
    /\ Local

PreflightPasses(f) ==
    /\ At(f, "preflight")
    /\ Go(f, "check")
    /\ Local

PreflightBlocks(f) ==
    /\ At(f, "preflight")
    /\ Return(f, 0)
    /\ Local

\* Balance and allowance are read.  Too little USDC throws.  The quote is
\* asked as well, and its FEE_TOO_HIGH is caught where it is thrown: it stops
\* nothing.
CheckFunds(f) ==
    /\ At(f, "check")
    /\ form[f].press.sum <= balance[Owner]
    /\ Go(f, IF allowance[Owner] < form[f].press.sum THEN "approve" ELSE "estimate")
    /\ Local

\* The wallet signs and broadcasts; pc is where the press goes on.
Broadcast(f, t, pc) ==
    /\ sent < MaxSent
    /\ sent' = sent + 1
    /\ tx' = [tx EXCEPT ![sent + 1] = t]
    /\ form' = [form EXCEPT ![f].press.pc = pc, ![f].press.n = sent + 1,
                            ![f].view = IF pc = "wait"
                                          THEN [status |-> "pending", n |-> sent + 1] ELSE @]
    /\ UNCHANGED <<ledger, settled, posted>>

SignApprove(f) ==
    /\ At(f, "approve")
    /\ Broadcast(f, [NoTx EXCEPT !.kind = "approve"], "approving")

\* The receipt of the approval, or of what replaced it, has come; its status
\* is not looked at.
ApproveSettled(f) ==
    /\ At(f, "approving") /\ ~Waiting(form[f].press.n)
    /\ Go(f, "estimate")
    /\ Local

\* mutant: the gas limit is a constant, nothing is simulated
FixedGas(f) ==
    /\ At(f, "estimate")
    /\ form' = [form EXCEPT ![f].press.pc = "sign", ![f].press.est = settled]
    /\ Local
\* estimateContractGas runs the transfer on the present state and throws if
\* it reverts.
Estimate(f) ==
    /\ At(f, "estimate")
    /\ TransferOk(Owner, form[f].press.sum)
    /\ form' = [form EXCEPT ![f].press.pc = "sign", ![f].press.est = settled]
    /\ Local

SignTransfer(f) ==
    /\ At(f, "sign")
    /\ LET p == form[f].press IN
         Broadcast(f, [NoTx EXCEPT !.kind = "transfer", !.to = p.to,
                                   !.sum = p.sum, !.est = p.est], "wait")

\* mutant: the status of the receipt is not looked at
AnySuccess(n) == "success"
\* waitForTransactionReceipt follows the nonce: it answers the receipt of the
\* transaction a block has, whichever hash that is.
ReceiptStatus(n) == IF tx[n].fate = "reverted" THEN "failed" ELSE "success"

\* mutant: reported as soon as the wallet has answered
ReportAtOnce(f) ==
    /\ At(f, "wait")
    /\ LET n == form[f].press.n IN
         form' = [form EXCEPT ![f].press.pc = "post",
                              ![f].view = [status |-> ReceiptStatus(n), n |-> n]]
    /\ Local
\* One confirmation: the summary goes on the screen.
Receipt(f) ==
    /\ At(f, "wait") /\ ~Waiting(form[f].press.n)
    /\ LET n == form[f].press.n IN
         form' = [form EXCEPT ![f].press.pc = "post",
                              ![f].view = [status |-> ReceiptStatus(n), n |-> n]]
    /\ Local

\* POST /tx reaches the API: recorded, or refused by the compliance guard.
PostRecorded(f) ==
    /\ At(f, "post")
    /\ posted' = posted \cup {form[f].press.n}
    /\ Go(f, "answer")
    /\ UNCHANGED <<ledger, tx, sent, settled>>

PostRefused(f) ==
    /\ At(f, "post")
    /\ Go(f, "answer")
    /\ Local

\* Either answer ends the send with the hash.
PostAnswered(f) ==
    /\ At(f, "answer")
    /\ Return(f, form[f].press.n)
    /\ Local

FormStep(f) ==
    \/ PressSend(f) \/ Throw(f) \/ Close(f)
    \/ PreflightPasses(f) \/ PreflightBlocks(f) \/ CheckFunds(f)
    \/ SignApprove(f) \/ ApproveSettled(f) \/ Estimate(f) \/ SignTransfer(f)
    \/ Receipt(f) \/ PostRecorded(f) \/ PostRefused(f) \/ PostAnswered(f)

-----------------------------------------------------------------------------
\* The chain settles the wallet's transactions in the order of their nonces:
\* external.  n is the next one.
Settle(n, fate, kept) ==
    /\ settled < sent /\ n = settled + 1
    /\ settled' = n
    /\ tx' = [tx EXCEPT ![n].fate = fate, ![n].kept = kept]
    /\ UNCHANGED <<form, sent, posted>>

Kept == IF "repriced" \in Replaces THEN BOOLEAN ELSE {TRUE}

ApprovalMined(n) ==
    /\ tx[n].kind = "approve"
    /\ \E kept \in Kept : Settle(n, "ok", kept)
    /\ Approve(Owner)

TransferMined(n) ==
    /\ tx[n].kind = "transfer"
    /\ \E kept \in Kept : Settle(n, "ok", kept)
    /\ TransferWithFee(Owner, tx[n].to, tx[n].sum)

TransferReverts(n) ==
    /\ tx[n].kind = "transfer"
    /\ ~TransferOk(Owner, tx[n].sum)
    /\ \E kept \in Kept : Settle(n, "reverted", kept)
    /\ UNCHANGED ledger

Cancelled(n) ==
    /\ "cancelled" \in Replaces
    /\ Settle(n, "cancelled", FALSE)
    /\ UNCHANGED ledger

ChainStep == \E n \in Nonce :
    ApprovalMined(n) \/ TransferMined(n) \/ TransferReverts(n) \/ Cancelled(n)

Next == (\E f \in Form : FormStep(f)) \/ ChainStep

Spec == Init /\ [][Next]_vars

-----------------------------------------------------------------------------
PaidTransfer(n) == tx[n].kind = "transfer" /\ tx[n].fate = "ok"

\* A transfer that the gas estimate has simulated reverts only if another
\* transfer of the wallet was paid in between: by another tab, or by a send
\* of the same tab whose wait broke off.  So no funds are risked on a call
\* that could not work.
RevertsNeedRace ==
    \A n \in Nonce : tx[n].fate = "reverted" =>
        \E m \in (tx[n].est + 1) .. (n - 1) : PaidTransfer(m)

\* The status on the screen is that of the transaction it names: success is
\* never shown for a transfer that waits or has reverted, failed never for one
\* that was paid.
ScreenAgrees ==
    \A f \in Form : LET v == form[f].view IN
        v.n # 0 =>
            /\ tx[v.n].kind = "transfer"
            /\ v.status = "success" => v.n <= settled /\ tx[v.n].fate # "reverted"
            /\ v.status = "failed" => tx[v.n].fate = "reverted"

\* Whoever follows a hash, or finds it recorded, follows a transfer whose
\* nonce a block has settled: the tracking's row never precedes the block.
RecordedAreSettled ==
    LET known == posted \cup {form[f].hash : f \in Form} IN
        \A n \in known \ {0} : n <= settled /\ tx[n].kind = "transfer"

\* What a paid transfer cost its receiver is not more than the preview
\* announced while a USDC was quoted at a dollar or above, and at most one unit
\* less while it was quoted at a dollar or below: at par the two agree but for
\* the rounding, which goes up in the API and down in the contract.
PreviewHolds ==
    \A n \in Nonce : PaidTransfer(n) =>
        \A price \in Price : \A p \in PreviewFees(tx[n].sum, price) :
            LET cost == tx[n].sum - Net(tx[n].sum) IN
            /\ price >= Par => cost <= p
            /\ price <= Par => p - 1 <= cost

\* The pages, approvals and estimates above implement plain payments.
Payment(n) ==
    IF tx[n].kind # "transfer"
      THEN [to |-> Owner, sum |-> 0, state |-> "none"]
      ELSE [to |-> tx[n].to, sum |-> tx[n].sum,
            state |-> CASE tx[n].fate = "pool" -> "open"
                        [] tx[n].fate = "ok" -> "paid"
                        [] OTHER -> "void"]
Promise == INSTANCE Payments WITH payment <- [n \in Nonce |-> Payment(n)]
ImplementsPayments == Promise!Spec

-----------------------------------------------------------------------------
\* "5) wait for 1 confirmation" and only then "7) record in the transaction
\* table" (useUSDC.ts:96, 131): what is recorded is a transaction that a block
\* has.
RecordedHaveConfirmation == \A n \in posted : tx[n].kept
=============================================================================
