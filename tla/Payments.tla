------------------------------ MODULE Payments ------------------------------
(***************************************************************************)
(* What sending USDC promises of money, whatever pages, wallets and        *)
(* approvals do on the way: a payment is placed once, then paid or void    *)
(* once and for ever, and balances change by whole payments only: the      *)
(* payer loses the sum, the fee wallet gains a fee between the two bounds, *)
(* the receiver gains the rest, and nothing stays in between.              *)
(***************************************************************************)
EXTENDS Integers

CONSTANTS Nonce, Account, Owner, FeeRecipient, MinFee, MaxFee

VARIABLES balance, payment

vars == <<balance, payment>>

NoPayment == [to |-> Owner, sum |-> 0, state |-> "none"]

Init ==
    /\ balance \in [Account -> Nat]
    /\ payment = [n \in Nonce |-> NoPayment]

Place(n) ==
    /\ payment[n] = NoPayment
    /\ payment'[n] \in [to : Account, sum : Nat, state : {"open"}]
    /\ payment' = [payment EXCEPT ![n] = payment'[n]]
    /\ UNCHANGED balance

\* What account a gains by the payment of sum to to, less the fee.
Share(a, to, sum, fee) ==
    (IF a = to THEN sum - fee ELSE 0)
      + (IF a = FeeRecipient THEN fee ELSE 0)
      - (IF a = Owner THEN sum ELSE 0)

Pay(n) ==
    /\ payment[n].state = "open"
    /\ payment[n].sum <= balance[Owner]
    /\ \E fee \in MinFee .. MaxFee :
         /\ fee <= payment[n].sum
         /\ balance' = [a \in Account |->
                          balance[a] + Share(a, payment[n].to, payment[n].sum, fee)]
    /\ payment' = [payment EXCEPT ![n].state = "paid"]

Void(n) ==
    /\ payment[n].state = "open"
    /\ payment' = [payment EXCEPT ![n].state = "void"]
    /\ UNCHANGED balance

Next == \E n \in Nonce : Place(n) \/ Pay(n) \/ Void(n)

Spec == Init /\ [][Next]_vars
=============================================================================
