---------------------------- MODULE TransferPull ----------------------------
(***************************************************************************)
(* The fee contract RicePayTransferPull.sol over the USDC token, and the   *)
(* fee preview the API computes for the same transfer (fees.service.ts).   *)
(* A contract call is atomic: it runs to its end or changes nothing.       *)
(*                                                                         *)
(* Amounts are in the token's unit, the sixth decimal.  A transfer of 0    *)
(* changes no balance, so that the contract's "if (net > 0)" needs no case *)
(* of its own.                                                             *)
(***************************************************************************)
EXTENDS Integers

CONSTANTS
    Account,       \* whoever may own USDC
    Rpt,           \* the contract itself
    FeeRecipient,  \* FEE_RECIPIENT
    Bps, Denom,    \* FEE_BPS_2DEC, BPS_2DEC_DENOM: the rate of the fee
    MinFee,        \* MIN_FEE_USDC
    MaxFee,        \* MAX_FEE_USDC
    MaxUint,       \* 2^256 - 1, or smaller for TLC
    Par,           \* one US dollar, in the unit of Price
    Price          \* what a USDC may be quoted at (prices.service.ts)

ASSUME AccountAssumption == Rpt \in Account /\ FeeRecipient \in Account
ASSUME FeeAssumption ==
    /\ {Bps, MinFee, MaxFee, MaxUint} \subseteq Nat
    /\ Denom \in Nat \ {0}
    /\ MinFee <= MaxFee /\ Bps <= Denom
    /\ Par \in Nat \ {0} /\ Price \subseteq Nat

VARIABLES
    balance,       \* USDC of each account
    allowance      \* what the contract may pull from each account

ledger == <<balance, allowance>>

-----------------------------------------------------------------------------
Clamp(raw) == IF raw < MinFee THEN MinFee ELSE IF raw > MaxFee THEN MaxFee ELSE raw

\* mutant: the minimum on top of the rate
FeeAndMinimum(amount) == (amount * Bps) \div Denom + MinFee
\* _calcFee: the rate rounded down, then clamped.  It may exceed the amount.
Fee(amount) == Clamp((amount * Bps) \div Denom)
Net(amount) == IF Fee(amount) > amount THEN 0 ELSE amount - Fee(amount)

\* The product of _calcFee fits the word: otherwise the call reverts.
FeeFits(amount) == amount * Bps <= MaxUint

\* fees.service.ts: the amount's worth in USD times the rate, clamped, and
\* taken for an amount of USDC, with the contract's rate and bounds as policy.
\* It is rounded up, but as a floating-point number may come out on the other
\* side of a whole one.
PreviewFees(amount, price) ==
    LET raw == (amount * Bps * price) \div (Denom * Par)
    IN  {Clamp(raw), Clamp(raw + 1)}

-----------------------------------------------------------------------------
\* USDC's own bookkeeping: external.
Moved(b, from, to, sum) ==
    LET debited == [b EXCEPT ![from] = @ - sum]
    IN  [debited EXCEPT ![to] = @ + sum]

\* An allowance at the top of the range means "unlimited" and stays.
Spent(al, owner, sum) ==
    [al EXCEPT ![owner] = IF @ = MaxUint THEN @ ELSE @ - sum]

Approve(owner) ==
    /\ allowance' = [allowance EXCEPT ![owner] = MaxUint]
    /\ UNCHANGED balance

-----------------------------------------------------------------------------
\* Whether transferWithFee would go through now.
TransferOk(owner, amount) ==
    /\ amount # 0
    /\ FeeFits(amount)
    /\ Fee(amount) <= amount
    /\ amount <= balance[owner]
    /\ amount <= allowance[owner]

\* mutant: the whole amount handed on, the fee on top
PaidGross(b, owner, to, amount) ==
    Moved(Moved(Moved(b, owner, Rpt, amount), Rpt, to, amount), Rpt, FeeRecipient, Fee(amount))
\* The pull of the whole amount, then the two parts handed on.
Paid(b, owner, to, amount) ==
    Moved(Moved(Moved(b, owner, Rpt, amount), Rpt, to, Net(amount)),
          Rpt, FeeRecipient, Fee(amount))

TransferWithFee(owner, to, amount) ==
    /\ TransferOk(owner, amount)
    /\ balance' = Paid(balance, owner, to, amount)
    /\ allowance' = Spent(allowance, owner, amount)
=============================================================================
