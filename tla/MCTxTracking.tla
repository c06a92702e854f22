---------------------------- MODULE MCTxTracking ----------------------------
(***************************************************************************)
(* Small instances of TxTracking: one or two transactions, and the webhook *)
(* payloads that matter for them.                                          *)
(***************************************************************************)
EXTENDS TxTracking, TLC

CONSTANTS h1, h2, e1, e2, e3, d1, half

AllLegs == {"incoming", "outgoingToUser", "feeLeg"}
Says(hashes, status, legs) ==
    [hashes |-> hashes, status |-> status, legs |-> legs,
     hasId |-> TRUE, hasBlock |-> TRUE]
Legs(ls) == [h \in Hash |-> ls]

\* A transfer reported without a block number, so that its row has no count, and
\* under a new event id at every delivery.
BareReport ==
    e1 :> [Says(<<h1>>, "CONFIRMED", Legs({"incoming"}))
              EXCEPT !.hasId = FALSE, !.hasBlock = FALSE]

\* One event that reports two transactions of a block, then one without a fee
\* leg for the first of them.
SharedReport ==
    e1 :> Says(<<h1, h2>>, "CONFIRMED", Legs({"incoming"}))
    @@ e2 :> Says(<<h1>>, "CONFIRMED", Legs({"incoming", "outgoingToUser"}))

\* What may become of a transfer; only the confirmation has a block number.
Verdicts ==
    e1 :> Says(<<h1>>, "CONFIRMED", Legs(AllLegs))
    @@ e2 :> [Says(<<h1>>, "FAILED", Legs({"incoming"})) EXCEPT !.hasBlock = FALSE]
    @@ e3 :> [Says(<<h1>>, "DROPPED_REPLACED", Legs({"incoming"})) EXCEPT !.hasBlock = FALSE]

\* Without a cleanup nothing looks at the age of a row.
NoClock == aged = 0

Symmetry == Permutations(Poster) \cup Permutations(Hook)
=============================================================================
