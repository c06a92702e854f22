------------------------------- MODULE MCSend -------------------------------
(***************************************************************************)
(* Two tabs and two amounts, one below every fee and one whose fee is the  *)
(* rate.  A USDC is quoted at 3/4 of a dollar, at par, or at 5/4.          *)
(***************************************************************************)
EXTENDS SendFlow, TLC

CONSTANTS f1, f2, alice, bob, ricepay, rpt

SomeFunds == [a \in Account |-> IF a = alice THEN 10 ELSE 0]
Tabs == Permutations(Form)
=============================================================================
