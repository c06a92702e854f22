---------------------------- MODULE TxLifecycle ----------------------------
(***************************************************************************)
(* What the tracking of transactions promises its users, whatever handlers *)
(* and jobs do the work and however they interleave:                       *)
(*   - a transaction is PENDING at most once, before anything is known of  *)
(*     it, and CONFIRMED, FAILED or DROPPED_REPLACED only when the chain   *)
(*     says so;                                                            *)
(*   - it gets at most one receipt, for complete details that somebody     *)
(*     submitted for that very transaction, and the receipt never changes. *)
(* Tracking is best effort: an unfinished transaction may be given up      *)
(* (EXPIRED) and a receipt may never be issued.                            *)
(***************************************************************************)
CONSTANTS Hash, Details, Complete, None

VARIABLES fate,     \* what became of each transaction on the chain
          status,   \* the status the service shows
          posted,   \* the details submitted so far
          issued    \* the details on the receipt

vars == <<fate, status, posted, issued>>

Init ==
    /\ fate = [h \in Hash |-> "pool"]
    /\ status = [h \in Hash |-> "NONE"]
    /\ posted = {}
    /\ issued = [h \in Hash |-> None]

\* The chain decides about transactions, each once.
Decide ==
    /\ fate' \in [Hash -> {"pool", "ok", "failed", "dropped"}]
    /\ \A h \in Hash : fate[h] # "pool" => fate'[h] = fate[h]
    /\ UNCHANGED <<status, posted, issued>>

Submit(h, d) ==
    /\ posted' = posted \cup {<<h, d>>}
    /\ status' = [status EXCEPT ![h] = IF @ = "NONE" THEN "PENDING" ELSE @]
    /\ UNCHANGED <<fate, issued>>

Verdict(f) == CASE f = "ok" -> "CONFIRMED"
                [] f = "failed" -> "FAILED"
                [] f = "dropped" -> "DROPPED_REPLACED"
                [] OTHER -> "none yet"

Settle(h) ==
    /\ fate[h] # "pool"
    /\ status' = [status EXCEPT ![h] = Verdict(fate[h])]
    /\ UNCHANGED <<fate, posted, issued>>

GiveUp(h) ==
    /\ status[h] # "NONE"
    /\ status' = [status EXCEPT ![h] = "EXPIRED"]
    /\ UNCHANGED <<fate, posted, issued>>

Issue(h, d) ==
    /\ status[h] # "NONE"
    /\ issued[h] = None
    /\ <<h, d>> \in posted
    /\ d \in Complete
    /\ issued' = [issued EXCEPT ![h] = d]
    /\ UNCHANGED <<fate, status, posted>>

Next ==
    \/ Decide
    \/ \E h \in Hash :
         \/ \E d \in Details : Submit(h, d) \/ Issue(h, d)
         \/ Settle(h)
         \/ GiveUp(h)

Spec == Init /\ [][Next]_vars
=============================================================================
