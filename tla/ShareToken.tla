----------------------------- MODULE ShareToken -----------------------------
(***************************************************************************)
(* The share link of one receipt on the server: the requests of            *)
(* ReceiptController (issueShare, revokeShare) and ReceiptService's        *)
(* ensureShareToken and revokeShareToken.  A request reads the receipt,    *)
(* then writes under a condition on shareToken, then perhaps reads again;  *)
(* other requests come in between.                                         *)
(*                                                                         *)
(* Tokens are random and never repeat: here, numbered as they are drawn.   *)
(* Addresses of a receipt never change.  Nonce and signature are of one    *)
(* request only, so checking and spending them is part of its first step,  *)
(* or makes it fail.  Audit rows have no effect.                           *)
(***************************************************************************)
EXTENDS Naturals

CONSTANTS Request,   \* the requests in flight at a time
          Owner,     \* those signed by the receipt's sender or receiver
          MaxDraws   \* bound: tokens drawn in a behaviour

ASSUME RequestAssumption == Owner \subseteq Request /\ MaxDraws \in Nat

VARIABLES live,      \* the shareToken column, 0 for null
          past,      \* history: every token that has been in the column
          draws,     \* how many tokens have been drawn
          req        \* each request

serverVars == <<live, past, draws, req>>

\* expected, dryRun: options of a revoke; new: the token an issue or a
\* rotation drew; reason, token: the answer at "done".
Draws == {"issue", "rotate"}
Kind == Draws \cup {"revoke", "load"}
Reason == {"none", "token", "error", "revoked", "noop", "stale"}
Busy == {q \in [pc : {"read", "write", "again", "done"}, kind : Kind, expected : Nat,
                dryRun : BOOLEAN, new : Nat, reason : Reason, token : Nat] :
            q.new # 0 <=> q.kind \in Draws}
IdleReq == [pc |-> "idle"]

ServerTypeOK ==
    /\ live \in Nat
    /\ past \in SUBSET Nat
    /\ draws \in Nat
    /\ req \in [Request -> Busy \cup {IdleReq}]

ServerInit ==
    /\ live = 0
    /\ past = {}
    /\ draws = 0
    /\ req = [r \in Request |-> IdleReq]

-----------------------------------------------------------------------------
NewToken(kind) == IF kind \in Draws THEN draws + 1 ELSE 0
\* A request comes in; its token is drawn ahead, unseen until it is written.
Begin(r, kind, expected, dryRun) ==
    /\ req[r] = IdleReq
    /\ kind \in Draws => draws < MaxDraws
    /\ draws' = IF kind \in Draws THEN draws + 1 ELSE draws
    /\ req' = [req EXCEPT ![r] =
                 [pc |-> "read", kind |-> kind, expected |-> expected,
                  dryRun |-> dryRun, reason |-> "none", token |-> 0,
                  new |-> NewToken(kind)]]
    /\ UNCHANGED <<live, past>>

Answer(r, reason, token) ==
    req' = [req EXCEPT ![r].pc = "done", ![r].reason = reason, ![r].token = token]
Proceed(r, pc) == req' = [req EXCEPT ![r].pc = pc]

SetToken(t) == live' = t /\ past' = past \cup {t}
ClearToken == live' = 0 /\ UNCHANGED past
KeepToken == UNCHANGED <<live, past>>

\* The first findUnique.  A receipt page only looks.
ReadForLoad(r) == req[r].kind = "load" /\ Answer(r, "token", live)

\* Without force a live token is returned as it is.
ReadForShare(r) ==
    /\ req[r].kind \in Draws
    /\ \/ r \notin Owner /\ Answer(r, "error", 0)
       \/ r \in Owner /\ req[r].kind = "issue" /\ live # 0 /\ Answer(r, "token", live)
       \/ r \in Owner /\ (req[r].kind = "rotate" \/ live = 0) /\ Proceed(r, "write")

\* A revoke ends here when there is no token, another one than expected, or
\* nothing to be done.
Stale(r) == req[r].expected \notin {0, live}
ReadForRevoke(r) ==
    /\ req[r].kind = "revoke"
    /\ \/ r \notin Owner /\ Answer(r, "error", 0)
       \/ r \in Owner /\ live = 0 /\ Answer(r, "noop", 0)
       \/ r \in Owner /\ live # 0 /\ Stale(r) /\ Answer(r, "stale", live)
       \/ /\ r \in Owner /\ live # 0 /\ ~ Stale(r)
          /\ IF req[r].dryRun THEN Answer(r, "revoked", live) ELSE Proceed(r, "write")

ReadReceipt(r) ==
    /\ req[r].pc = "read"
    /\ ReadForLoad(r) \/ ReadForShare(r) \/ ReadForRevoke(r)
    /\ KeepToken
    /\ UNCHANGED draws

\* updateMany where shareToken is null
FillToken(r) ==
    /\ req[r].pc = "write" /\ req[r].kind = "issue"
    /\ IF live = 0 THEN SetToken(req[r].new) /\ Answer(r, "token", req[r].new)
                   ELSE KeepToken /\ Proceed(r, "again")
    /\ UNCHANGED draws

\* update, whatever the column holds
ReplaceToken(r) ==
    /\ req[r].pc = "write" /\ req[r].kind = "rotate"
    /\ SetToken(req[r].new)
    /\ Answer(r, "token", req[r].new)
    /\ UNCHANGED draws

MatchesAny(r) == live # 0   \* mutant: any token will do
\* updateMany where shareToken is the expected one, or any
Matches(r) == IF req[r].expected = 0 THEN live # 0 ELSE live = req[r].expected
RemoveToken(r) ==
    /\ req[r].pc = "write" /\ req[r].kind = "revoke"
    /\ IF Matches(r) THEN ClearToken /\ Answer(r, "revoked", 0)
                     ELSE KeepToken /\ Proceed(r, "again")
    /\ UNCHANGED draws

OwnToken(r) == req[r].new   \* mutant: the loser of the race answers its own token
FoundToken(r) == live
\* Somebody was faster: the second findUnique.
ReadAgain(r) ==
    /\ req[r].pc = "again"
    /\ \/ req[r].kind = "issue" /\ live = 0 /\ Answer(r, "error", 0)
       \/ req[r].kind = "issue" /\ live # 0 /\ Answer(r, "token", FoundToken(r))
       \/ req[r].kind = "revoke" /\ live = 0 /\ Answer(r, "noop", 0)
       \/ req[r].kind = "revoke" /\ live # 0 /\ Stale(r) /\ Answer(r, "stale", live)
       \/ req[r].kind = "revoke" /\ live # 0 /\ ~ Stale(r) /\ Answer(r, "noop", live)
    /\ KeepToken
    /\ UNCHANGED draws

\* Refused (signature, nonce, no such receipt), or a database error.
Fail(r) ==
    /\ req[r].pc \in {"read", "write", "again"}
    /\ Answer(r, "error", 0)
    /\ KeepToken
    /\ UNCHANGED draws

ServerStep(r) ==
    \/ ReadReceipt(r) \/ FillToken(r) \/ ReplaceToken(r) \/ RemoveToken(r)
    \/ ReadAgain(r) \/ Fail(r)

\* The answer is on its way back, or lost.
Finish(r) ==
    /\ req[r].pc = "done"
    /\ req' = [req EXCEPT ![r] = IdleReq]
    /\ UNCHANGED <<live, past, draws>>
=============================================================================
