------------------------------ MODULE ShareLink ------------------------------
(***************************************************************************)
(* What the share link of a receipt promises: each request takes effect at *)
(* one instant between its call and its answer, the answer is true of that *)
(* instant, and a link that has ended never lives again.  A request that   *)
(* fails has no effect.                                                    *)
(***************************************************************************)
EXTENDS Naturals

CONSTANTS Request,   \* the requests in flight at a time
          Owner      \* those made by the sender or the receiver

VARIABLES live,      \* the token of the link, 0 when there is none
          past,      \* every token that has ever been live
          call       \* what each request asks, and its answer once it has one

vars == <<live, past, call>>

Idle == [kind |-> "idle"]

Init == live = 0 /\ past = {} /\ call = [r \in Request |-> Idle]

Asked == [kind : {"issue", "rotate", "revoke"}, expected : Nat, dryRun : BOOLEAN,
          reason : {"none"}, token : {0}]
Call(r) ==
    /\ call[r] = Idle
    /\ call'[r] \in Asked
    /\ call' = [call EXCEPT ![r] = call'[r]]
    /\ UNCHANGED <<live, past>>

Open(r, kind) == call[r].kind = kind /\ call[r].reason = "none"

Answer(r, reason, token) ==
    call' = [call EXCEPT ![r].reason = reason, ![r].token = token]

\* A new link takes the place of the one before, if any.
Create ==
    /\ live' \in Nat \ ({0} \cup past)
    /\ past' = past \cup {live'}

Issue(r) ==
    /\ Open(r, "issue") /\ r \in Owner
    /\ \/ live # 0 /\ Answer(r, "token", live) /\ UNCHANGED <<live, past>>
       \/ live = 0 /\ Create /\ Answer(r, "token", live')

Rotate(r) ==
    /\ Open(r, "rotate") /\ r \in Owner
    /\ Create /\ Answer(r, "token", live')

\* With an expected token only that one is revoked.
Meant(r) == call[r].expected \in {0, live}
Revoke(r) ==
    /\ Open(r, "revoke") /\ r \in Owner
    /\ UNCHANGED past
    /\ \/ live = 0 /\ Answer(r, "noop", 0) /\ UNCHANGED live
       \/ live # 0 /\ ~ Meant(r) /\ Answer(r, "stale", 0) /\ UNCHANGED live
       \/ live # 0 /\ Meant(r) /\ Answer(r, "revoked", 0)
             /\ live' = IF call[r].dryRun THEN live ELSE 0

\* Even one that only has to say that there was nothing to revoke.
Fail(r) ==
    /\ call[r] # Idle
    /\ call[r].reason \in {"none", "noop"}
    /\ Answer(r, "error", 0)
    /\ UNCHANGED <<live, past>>

Return(r) ==
    /\ call[r] # Idle
    /\ call[r].reason # "none"
    /\ call' = [call EXCEPT ![r] = Idle]
    /\ UNCHANGED <<live, past>>

Next ==
    \E r \in Request :
        \/ Call(r)
        \/ Issue(r) \/ Rotate(r) \/ Revoke(r)
        \/ Fail(r) \/ Return(r)

Spec == Init /\ [][Next]_vars
=============================================================================
