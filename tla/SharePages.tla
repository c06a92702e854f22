----------------------------- MODULE SharePages -----------------------------
(***************************************************************************)
(* The receipt pages of a browser (ShareIssueRotateButton with its         *)
(* ShareRevokeButton), open in several places, over the server of          *)
(* ShareToken.  Each page has two buttons with a loading flag of their     *)
(* own: a request of one may be in flight with a request of the other, and *)
(* their answers come back in any order.  The API is called directly too.  *)
(***************************************************************************)
EXTENDS ShareToken

CONSTANTS Page,      \* the pages that show the receipt
          Caller     \* direct calls in flight at a time

LinkButton == Page \X {"link"}
RevokeButton == Page \X {"revoke"}
ASSUME PagesAssumption ==
    /\ Request = LinkButton \cup RevokeButton \cup Caller
    /\ Caller \cap (LinkButton \cup RevokeButton) = {}

VARIABLE shown       \* the token a page shows, 0 for none

vars == <<serverVars, shown>>

Link(p) == <<p, "link">>
Revoke(p) == <<p, "revoke">>

Init == ServerInit /\ shown = [p \in Page |-> 0]

-----------------------------------------------------------------------------
\* The page is opened anew, its requests answered or lost, and asks for the
\* receipt.
Load(p) ==
    /\ req[Revoke(p)] = IdleReq
    /\ Begin(Link(p), "load", 0, FALSE)
    /\ shown' = [shown EXCEPT ![p] = 0]

PressIssue(p) ==
    /\ Begin(Link(p), "issue", 0, FALSE)
    /\ UNCHANGED shown

PressRotate(p) ==
    /\ shown[p] # 0
    /\ Begin(Link(p), "rotate", 0, FALSE)
    /\ UNCHANGED shown

\* The token on the screen goes along.
PressRevoke(p) ==
    /\ shown[p] # 0
    /\ Begin(Revoke(p), "revoke", shown[p], FALSE)
    /\ UNCHANGED shown

\* An answer with a token is shown; a receipt without one leaves the page as
\* it is.
LinkAnswer(p) ==
    /\ Finish(Link(p))
    /\ shown' = IF req[Link(p)].reason = "token" /\ req[Link(p)].token # 0
                  THEN [shown EXCEPT ![p] = req[Link(p)].token] ELSE shown

\* onRevoked clears the page, whatever it shows by now.
RevokeAnswer(p) ==
    /\ Finish(Revoke(p))
    /\ shown' = IF req[Revoke(p)].reason \in {"revoked", "noop"}
                  THEN [shown EXCEPT ![p] = 0] ELSE shown

LoseAnswer(r) == Finish(r) /\ UNCHANGED shown

CallApi(c) ==
    /\ \/ \E kind \in Draws : Begin(c, kind, 0, FALSE)
       \/ \E expected \in past \cup {0}, dryRun \in BOOLEAN :
             Begin(c, "revoke", expected, dryRun)
    /\ UNCHANGED shown

PageStep(p) ==
    \/ Load(p) \/ PressIssue(p) \/ PressRotate(p) \/ PressRevoke(p)
    \/ LinkAnswer(p) \/ RevokeAnswer(p)

Next ==
    \/ \E p \in Page : PageStep(p)
    \/ \E c \in Caller : CallApi(c)
    \/ \E r \in Request : LoseAnswer(r) \/ (ServerStep(r) /\ UNCHANGED shown)

Spec == Init /\ [][Next]_vars

-----------------------------------------------------------------------------
ShareTypeOK == ServerTypeOK /\ shown \in [Page -> Nat]

\* A page never shows a link that never was one, not even the page whose
\* request lost the race to create it.
ShownWasLive == \A p \in Page : shown[p] # 0 => shown[p] \in past

\* Revoking the link on the screen ends that link or none: never the one that
\* somebody else has put in its place meanwhile.
RevokeEndsWhatWasShown ==
    [][\A p \in Page :
          req'[Revoke(p)] # req[Revoke(p)] /\ live' # live =>
              live = req[Revoke(p)].expected /\ live' = 0]_vars

-----------------------------------------------------------------------------
(***************************************************************************)
(* Every request takes effect at one instant.  A request has its answer    *)
(* when it is done; a revoke of any token that found none has it already.  *)
(***************************************************************************)
FoundNone(r) == req[r].pc = "again" /\ req[r].kind = "revoke" /\ req[r].expected = 0

CallOf(r) ==
    IF req[r] = IdleReq THEN [kind |-> "idle"]
    ELSE IF req[r].kind = "load" THEN [kind |-> "idle"]
    ELSE [kind |-> req[r].kind, expected |-> req[r].expected,
          dryRun |-> req[r].dryRun,
          reason |-> IF FoundNone(r) THEN "noop" ELSE req[r].reason,
          token |-> IF req[r].reason = "token" THEN req[r].token ELSE 0]

Promise == INSTANCE ShareLink WITH call <- [r \in Request |-> CallOf(r)]
ImplementsShareLink == Promise!Spec
=============================================================================
