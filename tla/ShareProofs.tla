---------------------------- MODULE ShareProofs ----------------------------
(***************************************************************************)
(* Proofs about SharePages, for every set of pages and callers, whoever    *)
(* owns the receipt, and however many tokens are drawn.                    *)
(***************************************************************************)
EXTENDS SharePages, TLAPS

Started(r) == req[r] # IdleReq

\* Every token is one that was drawn; what has not been written is not in the
\* column, nor ever was; no two requests draw the same.
TokensAreDrawn ==
    /\ past \subseteq 1..draws
    /\ live \in past \cup {0}
DrawsAreFresh ==
    \A r \in Request :
        Started(r) /\ req[r].kind \in Draws =>
            /\ req[r].new \in 1..draws
            /\ req[r].pc # "done" => req[r].new \notin past
DrawsAreDistinct ==
    \A r, s \in Request :
        /\ r # s
        /\ Started(r) /\ req[r].kind \in Draws
        /\ Started(s) /\ req[s].kind \in Draws
        => req[r].new # req[s].new

\* What a request knows at each point of its course.
Course(r) ==
    /\ req[r].pc = "done" <=> req[r].reason # "none"
    /\ req[r].reason = "none" => req[r].token = 0
    /\ req[r].reason = "token" => req[r].token \in past \cup {0}
    /\ req[r].pc \in {"write", "again"} => r \in Owner /\ req[r].kind # "load"
    /\ req[r].pc = "again" => req[r].kind # "rotate"
    /\ req[r].pc \in {"write", "again"} /\ req[r].kind = "revoke" =>
          req[r].dryRun = FALSE /\ req[r].expected \in past \cup {0}
    /\ req[r].pc = "again" /\ req[r].kind = "revoke" /\ req[r].expected # 0 =>
          live # req[r].expected
CoursesAreRight == \A r \in Request : Started(r) => Course(r)

PagesAreRight ==
    \A p \in Page :
        /\ shown[p] \in past \cup {0}
        /\ Started(Revoke(p)) => /\ req[Revoke(p)].kind = "revoke"
                                 /\ req[Revoke(p)].expected # 0

ShareIInv ==
    /\ ShareTypeOK
    /\ TokensAreDrawn
    /\ DrawsAreFresh
    /\ DrawsAreDistinct
    /\ CoursesAreRight
    /\ PagesAreRight

-----------------------------------------------------------------------------
\* An answer, or going on, concerns the request itself and not what it asked.
SameRequest(r) ==
    /\ Started(r) /\ Started(r)'
    /\ req'[r].kind = req[r].kind
    /\ req'[r].new = req[r].new
    /\ req'[r].expected = req[r].expected
    /\ req'[r].dryRun = req[r].dryRun
OthersWait(r) == \A s \in Request : s # r => req'[s] = req[s]

LEMMA AnswerEffect ==
    ASSUME ServerTypeOK, NEW r \in Request, Started(r),
           NEW reason \in Reason, NEW t \in Nat, Answer(r, reason, t)
    PROVE  /\ req' \in [Request -> Busy \cup {IdleReq}]
           /\ SameRequest(r) /\ OthersWait(r)
           /\ req'[r].pc = "done" /\ req'[r].reason = reason /\ req'[r].token = t
  <1>1. req[r] \in Busy
    BY DEF ServerTypeOK, Started
  <1>2. /\ req'[r] = [req[r] EXCEPT !.pc = "done", !.reason = reason, !.token = t]
        /\ OthersWait(r)
        /\ req' = [req EXCEPT ![r] = req'[r]]
    BY DEF Answer, ServerTypeOK, OthersWait
  <1>3. req'[r] \in Busy
    BY <1>1, <1>2 DEF Busy
  <1>4. req'[r] # IdleReq
    BY <1>1, <1>2 DEF Busy, IdleReq
  <1> QED
    BY <1>1, <1>2, <1>3, <1>4 DEF Busy, SameRequest, Started, ServerTypeOK

LEMMA ProceedEffect ==
    ASSUME ServerTypeOK, NEW r \in Request, Started(r),
           NEW pc \in {"write", "again"}, Proceed(r, pc)
    PROVE  /\ req' \in [Request -> Busy \cup {IdleReq}]
           /\ SameRequest(r) /\ OthersWait(r)
           /\ req'[r].pc = pc /\ req'[r].reason = req[r].reason
           /\ req'[r].token = req[r].token
  <1>1. req[r] \in Busy
    BY DEF ServerTypeOK, Started
  <1>2. /\ req'[r] = [req[r] EXCEPT !.pc = pc]
        /\ OthersWait(r)
        /\ req' = [req EXCEPT ![r] = req'[r]]
    BY DEF Proceed, ServerTypeOK, OthersWait
  <1>3. req'[r] \in Busy
    BY <1>1, <1>2 DEF Busy
  <1>4. req'[r] # IdleReq
    BY <1>1, <1>2 DEF Busy, IdleReq
  <1> QED
    BY <1>1, <1>2, <1>3, <1>4 DEF Busy, SameRequest, Started, ServerTypeOK

\* The reads are told apart by what they find.
LEMMA ReadCases ==
    ASSUME NEW r \in Request, ReadReceipt(r)
    PROVE  \/ req[r].kind = "load" /\ Answer(r, "token", live)
           \/ req[r].kind # "load" /\ r \notin Owner /\ Answer(r, "error", 0)
           \/ /\ r \in Owner
              /\ \/ req[r].kind = "issue" /\ live # 0 /\ Answer(r, "token", live)
                 \/ req[r].kind = "revoke" /\ live = 0 /\ Answer(r, "noop", 0)
                 \/ /\ req[r].kind = "revoke" /\ live # 0 /\ Stale(r)
                    /\ Answer(r, "stale", live)
                 \/ /\ req[r].kind = "revoke" /\ live # 0 /\ ~ Stale(r)
                    /\ req[r].dryRun /\ Answer(r, "revoked", live)
                 \/ /\ req[r].kind # "load" /\ Proceed(r, "write")
                    /\ req[r].kind = "revoke" => ~ Stale(r) /\ ~ req[r].dryRun
  BY DEF ReadReceipt, ReadForLoad, ReadForShare, ReadForRevoke, Draws

\* A step of the server is of one request; it keeps the link, or makes its own
\* token the link, or removes the one it is about.
LEMMA ServerEffect ==
    ASSUME ServerTypeOK, NEW r \in Request, ServerStep(r)
    PROVE  /\ ServerTypeOK'
           /\ SameRequest(r) /\ OthersWait(r) /\ draws' = draws
           /\ \/ live' = live /\ past' = past
              \/ /\ req[r].pc = "write" /\ req[r].kind \in Draws
                 /\ live' = req[r].new /\ past' = past \cup {req[r].new}
                 /\ req'[r].pc = "done"
              \/ /\ req[r].pc = "write" /\ req[r].kind = "revoke" /\ Matches(r)
                 /\ live' = 0 /\ past' = past
                 /\ req'[r].pc = "done"
  <1> DEFINE Goal == /\ ServerTypeOK'
                     /\ SameRequest(r) /\ OthersWait(r) /\ draws' = draws
                     /\ \/ live' = live /\ past' = past
                        \/ /\ req[r].pc = "write" /\ req[r].kind \in Draws
                           /\ live' = req[r].new /\ past' = past \cup {req[r].new}
                           /\ req'[r].pc = "done"
                        \/ /\ req[r].pc = "write" /\ req[r].kind = "revoke" /\ Matches(r)
                           /\ live' = 0 /\ past' = past
                           /\ req'[r].pc = "done"
  <1>1. Started(r)
    <2>1. req[r].pc # "idle"
      BY DEF ServerStep, ReadReceipt, FillToken, ReplaceToken, RemoveToken, ReadAgain,
             Fail
    <2> QED
      BY <2>1 DEF Started, IdleReq
  <1>2. req[r] \in Busy /\ req[r].new \in Nat
    BY <1>1 DEF Started, ServerTypeOK, Busy
  <1>3. ASSUME NEW reason \in Reason, NEW t \in Nat, Answer(r, reason, t)
        PROVE  /\ req' \in [Request -> Busy \cup {IdleReq}]
               /\ SameRequest(r) /\ OthersWait(r) /\ req'[r].pc = "done"
    BY <1>1, <1>3, AnswerEffect
  <1>4. ASSUME NEW pc \in {"write", "again"}, Proceed(r, pc)
        PROVE  /\ req' \in [Request -> Busy \cup {IdleReq}]
               /\ SameRequest(r) /\ OthersWait(r)
    BY <1>1, <1>4, ProceedEffect
  <1>5. CASE ReadReceipt(r)
    <2>1. (\E reason \in Reason, t \in Nat : Answer(r, reason, t)) \/ Proceed(r, "write")
      BY <1>5, ReadCases DEF ServerTypeOK, Reason
    <2> QED
      BY <2>1, <1>3, <1>4, <1>5 DEF ReadReceipt, KeepToken, ServerTypeOK
  <1>6. CASE FillToken(r)
    <2>1. CASE live = 0
      BY <1>2, <1>3, <1>6, <2>1 DEF FillToken, SetToken, ServerTypeOK, Draws, Reason
    <2>2. CASE live # 0
      BY <1>4, <1>6, <2>2 DEF FillToken, KeepToken, ServerTypeOK
    <2> QED
      BY <2>1, <2>2
  <1>7. CASE ReplaceToken(r)
    BY <1>2, <1>3, <1>7 DEF ReplaceToken, SetToken, ServerTypeOK, Draws, Reason
  <1>8. CASE RemoveToken(r)
    <2>1. CASE Matches(r)
      <3>1. live' = 0 /\ past' = past /\ Answer(r, "revoked", 0)
        BY <1>8, <2>1 DEF RemoveToken, ClearToken
      <3> QED
        BY <1>3, <1>8, <2>1, <3>1 DEF RemoveToken, ServerTypeOK, Reason
    <2>2. CASE ~ Matches(r)
      BY <1>4, <1>8, <2>2 DEF RemoveToken, KeepToken, ServerTypeOK
    <2> QED
      BY <2>1, <2>2
  <1>9. CASE ReadAgain(r)
    <2>1. \E reason \in Reason, t \in Nat : Answer(r, reason, t)
      BY <1>9 DEF ReadAgain, ServerTypeOK, Reason, FoundToken
    <2> QED
      BY <2>1, <1>3, <1>9 DEF ReadAgain, KeepToken, ServerTypeOK
  <1>10. CASE Fail(r)
    BY <1>3, <1>10 DEF Fail, KeepToken, ServerTypeOK, Reason
  <1> QED
    BY <1>5, <1>6, <1>7, <1>8, <1>9, <1>10 DEF ServerStep

LEMMA BeginEffect ==
    ASSUME ServerTypeOK, NEW r \in Request, NEW kind \in Kind, NEW e \in Nat,
           NEW d \in BOOLEAN, Begin(r, kind, e, d)
    PROVE  /\ ServerTypeOK'
           /\ ~ Started(r) /\ Started(r)' /\ OthersWait(r)
           /\ req'[r] = [pc |-> "read", kind |-> kind, expected |-> e, dryRun |-> d,
                         reason |-> "none", token |-> 0, new |-> NewToken(kind)]
           /\ draws' = IF kind \in Draws THEN draws + 1 ELSE draws
           /\ live' = live /\ past' = past
  <1>1. NewToken(kind) \in Nat /\ (NewToken(kind) # 0 <=> kind \in Draws)
    BY DEF NewToken, ServerTypeOK
  <1>2. [pc |-> "read", kind |-> kind, expected |-> e, dryRun |-> d,
         reason |-> "none", token |-> 0, new |-> NewToken(kind)] \in Busy
    BY <1>1 DEF Busy, Reason
  <1>3. req'[r] # IdleReq
    BY DEF Begin, IdleReq, ServerTypeOK
  <1> QED
    BY <1>1, <1>2, <1>3 DEF Begin, ServerTypeOK, Started, OthersWait

LEMMA FinishEffect ==
    ASSUME ServerTypeOK, NEW r \in Request, Finish(r)
    PROVE  /\ ServerTypeOK'
           /\ Started(r) /\ ~ Started(r)' /\ OthersWait(r)
           /\ live' = live /\ past' = past /\ draws' = draws
  BY DEF Finish, ServerTypeOK, Started, OthersWait, IdleReq

-----------------------------------------------------------------------------
\* A page has two requests of its own.
LEMMA Buttons ==
    ASSUME NEW p \in Page
    PROVE  /\ Link(p) \in Request /\ Revoke(p) \in Request
           /\ \A q \in Page : Link(q) # Revoke(p)
           /\ \A q \in Page : Revoke(q) = Revoke(p) => q = p
           /\ \A c \in Caller : c # Revoke(p) /\ c \in Request
  <1>1. Link(p) \in LinkButton /\ Revoke(p) \in RevokeButton
    BY DEF Link, Revoke, LinkButton, RevokeButton
  <1>2. \A q \in Page : Link(q) # Revoke(p) /\ (Revoke(q) = Revoke(p) => q = p)
    BY DEF Link, Revoke
  <1> QED
    BY <1>1, <1>2, PagesAssumption

\* The steps of the system, seen from the requests and from the pages.
BeginsWell(r, kind, e, d) ==
    /\ Begin(r, kind, e, d)
    /\ \A p \in Page : r = Revoke(p) => kind = "revoke" /\ e # 0

LEMMA StepKinds ==
    ASSUME ShareIInv, Next
    PROVE  /\ shown' \in [Page -> past \cup {0}]
           /\ \/ \E r \in Request : ServerStep(r)
              \/ \E r \in Request, kind \in Kind, e \in past \cup {0}, d \in BOOLEAN :
                    BeginsWell(r, kind, e, d)
              \/ \E r \in Request : Finish(r)
  <1> DEFINE Shown == shown' \in [Page -> past \cup {0}]
             Kinds == \/ \E r \in Request : ServerStep(r)
                      \/ \E r \in Request, kind \in Kind, e \in past \cup {0},
                            d \in BOOLEAN : BeginsWell(r, kind, e, d)
                      \/ \E r \in Request : Finish(r)
  <1>1. shown \in [Page -> past \cup {0}]
    BY DEF ShareIInv, ShareTypeOK, PagesAreRight
  <1>2. CASE \E p \in Page : PageStep(p)
    <2> PICK p \in Page : PageStep(p)
      BY <1>2
    <2>1. CASE Load(p)
      <3>1. BeginsWell(Link(p), "load", 0, FALSE)
        BY <2>1, Buttons DEF Load, BeginsWell
      <3> QED
        BY <1>1, <2>1, <3>1, Buttons DEF Load, Kind
    <2>2. CASE PressIssue(p)
      <3>1. BeginsWell(Link(p), "issue", 0, FALSE)
        BY <2>2, Buttons DEF PressIssue, BeginsWell
      <3> QED
        BY <1>1, <2>2, <3>1, Buttons DEF PressIssue, Kind, Draws
    <2>3. CASE PressRotate(p)
      <3>1. BeginsWell(Link(p), "rotate", 0, FALSE)
        BY <2>3, Buttons DEF PressRotate, BeginsWell
      <3> QED
        BY <1>1, <2>3, <3>1, Buttons DEF PressRotate, Kind, Draws
    <2>4. CASE PressRevoke(p)
      <3>1. BeginsWell(Revoke(p), "revoke", shown[p], FALSE)
        BY <2>4, Buttons DEF PressRevoke, BeginsWell
      <3> QED
        BY <1>1, <2>4, <3>1, Buttons DEF PressRevoke, Kind
    <2>5. CASE LinkAnswer(p)
      <3>1. Started(Link(p)) /\ Link(p) \in Request
        BY <2>5, Buttons DEF LinkAnswer, Finish, Started, IdleReq
      <3>2. req[Link(p)].reason = "token" => req[Link(p)].token \in past \cup {0}
        BY <3>1 DEF ShareIInv, CoursesAreRight, Course
      <3>3. Shown
        BY <1>1, <2>5, <3>2 DEF LinkAnswer
      <3> QED
        BY <2>5, <3>1, <3>3 DEF LinkAnswer
    <2>6. CASE RevokeAnswer(p)
      BY <1>1, <2>6, Buttons DEF RevokeAnswer
    <2> QED
      BY <2>1, <2>2, <2>3, <2>4, <2>5, <2>6 DEF PageStep
  <1>3. CASE \E c \in Caller : CallApi(c)
    <2> PICK c \in Caller : CallApi(c)
      BY <1>3
    <2>1. Shown
      BY <1>1 DEF CallApi
    <2>2. \E kind \in Kind, e \in past \cup {0}, d \in BOOLEAN : BeginsWell(c, kind, e, d)
      <3>1. CASE \E kind \in Draws : Begin(c, kind, 0, FALSE)
        BY <3>1, Buttons DEF BeginsWell, Kind
      <3>2. CASE \E e \in past \cup {0}, d \in BOOLEAN : Begin(c, "revoke", e, d)
        BY <3>2, Buttons DEF BeginsWell, Kind
      <3> QED
        BY <3>1, <3>2 DEF CallApi
    <2>3. c \in Request
      BY PagesAssumption
    <2> QED
      BY <2>1, <2>2, <2>3
  <1>4. CASE \E r \in Request : LoseAnswer(r) \/ (ServerStep(r) /\ UNCHANGED shown)
    BY <1>1, <1>4 DEF LoseAnswer
  <1> QED
    BY <1>2, <1>3, <1>4 DEF Next

-----------------------------------------------------------------------------
LEMMA InvariantHolds == Init => ShareIInv
  BY Buttons DEF Init, ServerInit, ShareIInv, ShareTypeOK, ServerTypeOK, TokensAreDrawn,
     DrawsAreFresh, DrawsAreDistinct, CoursesAreRight, PagesAreRight, Started

\* Somebody else's token is not in the column for the first time.
LEMMA FreshDiffers ==
    ASSUME ShareIInv, NEW r \in Request, NEW s \in Request, r # s,
           Started(r), req[r].kind \in Draws, req[r].pc = "write",
           Started(s), req[s].kind \in Draws, req[s].pc # "done"
    PROVE  req[s].new \notin past \cup {req[r].new}
  BY DEF ShareIInv, DrawsAreFresh, DrawsAreDistinct

LEMMA ServerStepPreserves ==
    ASSUME ShareIInv, NEW r \in Request, ServerStep(r)
    PROVE  /\ TokensAreDrawn' /\ DrawsAreFresh' /\ DrawsAreDistinct'
           /\ past \subseteq past'
  <1>1. /\ SameRequest(r) /\ OthersWait(r) /\ draws' = draws /\ ServerTypeOK'
        /\ \/ live' = live /\ past' = past
           \/ /\ req[r].pc = "write" /\ req[r].kind \in Draws
              /\ live' = req[r].new /\ past' = past \cup {req[r].new}
              /\ req'[r].pc = "done"
           \/ live' = 0 /\ past' = past
    BY ServerEffect DEF ShareIInv, ShareTypeOK
  <1>2. TokensAreDrawn' /\ past \subseteq past'
    BY <1>1 DEF ShareIInv, TokensAreDrawn, DrawsAreFresh, SameRequest
  <1>3. ASSUME NEW s \in Request, Started(s)', req'[s].kind \in Draws
        PROVE  /\ Started(s) /\ req[s].kind \in Draws /\ req'[s].new = req[s].new
               /\ req'[s].pc # "done" /\ s # r => req[s].pc # "done"
    BY <1>1, <1>3 DEF SameRequest, OthersWait, Started
  <1>4. DrawsAreDistinct'
    BY <1>3 DEF ShareIInv, DrawsAreDistinct
  <1>5. ASSUME NEW s \in Request, Started(s)', req'[s].kind \in Draws
        PROVE  /\ req'[s].new \in 1..draws'
               /\ req'[s].pc # "done" => req'[s].new \notin past'
    <2>1. Started(s) /\ req[s].kind \in Draws /\ req'[s].new = req[s].new
      BY <1>3, <1>5
    <2>2. req'[s].new \in 1..draws'
      BY <1>1, <2>1 DEF ShareIInv, DrawsAreFresh
    <2>3. ASSUME req'[s].pc # "done"
          PROVE  req'[s].new \notin past'
      <3>1. CASE past' = past /\ s # r
        BY <1>3, <1>5, <2>1, <2>3, <3>1 DEF ShareIInv, DrawsAreFresh
      <3>2. CASE past' = past /\ s = r
        <4>1. req[r].pc # "done"
          BY <1>1 DEF ServerStep, ReadReceipt, FillToken, ReplaceToken, RemoveToken,
                      ReadAgain, Fail
        <4> QED
          BY <2>1, <3>2, <4>1 DEF ShareIInv, DrawsAreFresh
      <3>3. CASE past' # past
        <4>1. s # r /\ req[s].pc # "done"
          BY <1>1, <1>3, <1>5, <2>3, <3>3
        <4> QED
          BY <1>1, <2>1, <3>3, <4>1, FreshDiffers DEF SameRequest
      <3> QED
        BY <3>1, <3>2, <3>3
    <2> QED
      BY <2>2, <2>3
  <1>6. DrawsAreFresh'
    BY <1>5 DEF DrawsAreFresh
  <1> QED
    BY <1>2, <1>4, <1>6

LEMMA ServerStepCourses ==
    ASSUME ShareIInv, NEW r \in Request, ServerStep(r)
    PROVE  CoursesAreRight'
  <1>1. /\ SameRequest(r) /\ OthersWait(r) /\ ServerTypeOK'
        /\ \/ live' = live /\ past' = past
           \/ /\ req[r].pc = "write" /\ req[r].kind \in Draws
              /\ live' = req[r].new /\ past' = past \cup {req[r].new}
           \/ live' = 0 /\ past' = past
    BY ServerEffect DEF ShareIInv, ShareTypeOK
  <1>2. past \subseteq past'
    BY <1>1
  <1>3. live' \in {live, 0} \/ live' \notin past
    BY <1>1 DEF ShareIInv, DrawsAreFresh, SameRequest
  <1>4. ASSUME NEW s \in Request, Started(s)', s # r
        PROVE  Course(s)'
    <2>1. Started(s) /\ req'[s] = req[s]
      BY <1>1, <1>4 DEF OthersWait, Started
    <2>2. Course(s)
      BY <2>1 DEF ShareIInv, CoursesAreRight
    <2>3. req[s].pc = "again" /\ req[s].kind = "revoke" /\ req[s].expected # 0 =>
             live' # req[s].expected
      BY <1>3, <2>2 DEF Course
    <2> QED
      BY <1>2, <2>1, <2>2, <2>3 DEF Course
  <1>5. Course(r)'
    <2>1. Course(r) /\ Started(r) /\ req[r] \in Busy
      BY <1>1 DEF ShareIInv, CoursesAreRight, SameRequest, Started, ShareTypeOK,
                  ServerTypeOK
    <2>2. /\ live \in past \cup {0} /\ live' \in past' \cup {0}
          /\ live \in Nat /\ ServerTypeOK
      BY ServerStepPreserves DEF ShareIInv, ShareTypeOK, ServerTypeOK, TokensAreDrawn
    <2>3. ASSUME NEW reason \in Reason \ {"none"}, NEW t \in Nat, Answer(r, reason, t),
                 reason = "token" => t \in past' \cup {0}
          PROVE  Course(r)'
      <3>1. req'[r].pc = "done" /\ req'[r].reason = reason /\ req'[r].token = t
        BY <2>1, <2>2, <2>3, AnswerEffect
      <3> QED
        BY <2>3, <3>1 DEF Course
    <2>4. CASE ReadReceipt(r)
      <3>1. CASE Proceed(r, "write") /\ r \in Owner /\ req[r].kind # "load"
                 /\ (req[r].kind = "revoke" => ~ Stale(r) /\ ~ req[r].dryRun)
        <4>1. /\ req'[r].pc = "write" /\ req'[r].reason = req[r].reason
              /\ req'[r].token = req[r].token
          BY <2>1, <2>2, <3>1, ProceedEffect
        <4>2. req[r].reason = "none"
          BY <2>1, <2>4 DEF Course, ReadReceipt
        <4>3. req[r].kind = "revoke" =>
                 req[r].dryRun = FALSE /\ req[r].expected \in past \cup {0}
          BY <2>1, <2>2, <3>1 DEF Stale, Busy
        <4> QED
          BY <1>1, <1>2, <2>1, <3>1, <4>1, <4>2, <4>3 DEF Course, SameRequest
      <3>2. CASE \E reason \in Reason \ {"none"} : Answer(r, reason, live)
        BY <1>2, <2>2, <2>3, <3>2
      <3>3. CASE \E reason \in Reason \ {"none", "token"} : Answer(r, reason, 0)
        BY <2>3, <3>3
      <3> QED
        BY <2>4, <3>1, <3>2, <3>3, ReadCases DEF Reason
    <2>5. CASE FillToken(r)
      <3>1. CASE live = 0
        <4>1. Answer(r, "token", req[r].new) /\ req[r].new \in past' /\ req[r].new \in Nat
          BY <2>1, <2>5, <3>1 DEF FillToken, SetToken, Busy
        <4> QED
          BY <4>1, <2>3 DEF Reason
      <3>2. CASE live # 0
        <4>1. Proceed(r, "again") /\ req[r].pc = "write" /\ req[r].kind = "issue"
          BY <2>5, <3>2 DEF FillToken
        <4>2. /\ req'[r].pc = "again" /\ req'[r].reason = req[r].reason
              /\ req'[r].token = req[r].token
          BY <2>1, <2>2, <4>1, ProceedEffect
        <4> QED
          BY <1>1, <1>2, <2>1, <4>1, <4>2 DEF Course, SameRequest
      <3> QED
        BY <3>1, <3>2
    <2>6. CASE ReplaceToken(r)
      <3>1. Answer(r, "token", req[r].new) /\ req[r].new \in past' /\ req[r].new \in Nat
        BY <2>1, <2>6 DEF ReplaceToken, SetToken, Busy
      <3> QED
        BY <3>1, <2>3 DEF Reason
    <2>7. CASE RemoveToken(r)
      <3>1. CASE Matches(r)
        <4>1. Answer(r, "revoked", 0)
          BY <2>7, <3>1 DEF RemoveToken
        <4> QED
          BY <4>1, <2>3 DEF Reason
      <3>2. CASE ~ Matches(r)
        <4>1. /\ Proceed(r, "again") /\ req[r].pc = "write" /\ req[r].kind = "revoke"
              /\ live' = live
          BY <2>7, <3>2 DEF RemoveToken, KeepToken
        <4>2. /\ req'[r].pc = "again" /\ req'[r].reason = req[r].reason
              /\ req'[r].token = req[r].token
          BY <2>1, <2>2, <4>1, ProceedEffect
        <4>3. req[r].expected # 0 => live # req[r].expected
          BY <3>2 DEF Matches
        <4> QED
          BY <1>1, <1>2, <2>1, <4>1, <4>2, <4>3 DEF Course, SameRequest
      <3> QED
        BY <3>1, <3>2
    <2>8. CASE ReadAgain(r)
      <3>1. past' = past
        BY <2>8 DEF ReadAgain, KeepToken
      <3> QED
        BY <2>2, <2>3, <2>8, <3>1 DEF ReadAgain, FoundToken, Reason
    <2>9. CASE Fail(r)
      BY <2>3, <2>9 DEF Fail, Reason
    <2> QED
      BY <2>4, <2>5, <2>6, <2>7, <2>8, <2>9 DEF ServerStep
  <1> QED
    BY <1>4, <1>5 DEF CoursesAreRight

LEMMA BeginPreserves ==
    ASSUME ShareIInv, NEW r \in Request, NEW kind \in Kind, NEW e \in past \cup {0},
           NEW d \in BOOLEAN, BeginsWell(r, kind, e, d)
    PROVE  /\ ServerTypeOK' /\ TokensAreDrawn' /\ DrawsAreFresh' /\ DrawsAreDistinct'
           /\ CoursesAreRight' /\ past' = past
  <1>1. ServerTypeOK /\ e \in Nat
    BY DEF ShareIInv, ShareTypeOK, ServerTypeOK
  <1>2. /\ ServerTypeOK'
        /\ ~ Started(r) /\ Started(r)' /\ OthersWait(r)
        /\ req'[r] = [pc |-> "read", kind |-> kind, expected |-> e, dryRun |-> d,
                      reason |-> "none", token |-> 0, new |-> NewToken(kind)]
        /\ draws' = IF kind \in Draws THEN draws + 1 ELSE draws
        /\ live' = live /\ past' = past
    BY <1>1, BeginEffect DEF BeginsWell
  <1>3. TokensAreDrawn'
    BY <1>1, <1>2 DEF ShareIInv, TokensAreDrawn, ServerTypeOK
  <1>4. ASSUME NEW s \in Request, s # r, Started(s)', req'[s].kind \in Draws
        PROVE  /\ req'[s] = req[s] /\ Started(s) /\ req[s].kind \in Draws
               /\ req[s].new \in 1..draws
               /\ req[s].pc # "done" => req[s].new \notin past
    BY <1>2, <1>4 DEF ShareIInv, DrawsAreFresh, OthersWait, Started
  <1>5. req'[r].kind \in Draws => req'[r].new = draws + 1 /\ draws' = draws + 1
    BY <1>2 DEF NewToken
  <1>6. DrawsAreFresh'
    <2>1. ASSUME NEW s \in Request, Started(s)', req'[s].kind \in Draws
          PROVE  /\ req'[s].new \in 1..draws'
                 /\ req'[s].pc # "done" => req'[s].new \notin past'
      <3>1. CASE s = r
        BY <1>1, <1>2, <1>5, <2>1, <3>1
           DEF ShareIInv, TokensAreDrawn, ServerTypeOK
      <3>2. CASE s # r
        BY <1>1, <1>2, <1>4, <2>1, <3>2 DEF ServerTypeOK
      <3> QED
        BY <3>1, <3>2
    <2> QED
      BY <2>1 DEF DrawsAreFresh
  <1>7. DrawsAreDistinct'
    <2>1. ASSUME NEW s \in Request, NEW t \in Request, s # t,
                 Started(s)', req'[s].kind \in Draws, Started(t)', req'[t].kind \in Draws
          PROVE  req'[s].new # req'[t].new
      <3>1. CASE s # r /\ t # r
        BY <1>4, <2>1, <3>1 DEF ShareIInv, DrawsAreDistinct
      <3>2. CASE s = r \/ t = r
        BY <1>1, <1>4, <1>5, <2>1, <3>2 DEF ServerTypeOK
      <3> QED
        BY <3>1, <3>2
    <2> QED
      BY <2>1 DEF DrawsAreDistinct
  <1>8. CoursesAreRight'
    <2>1. ASSUME NEW s \in Request, Started(s)', s # r
          PROVE  Course(s)'
      BY <1>2, <2>1 DEF ShareIInv, CoursesAreRight, Course, OthersWait, Started
    <2>2. Course(r)'
      BY <1>2 DEF Course
    <2> QED
      BY <2>1, <2>2 DEF CoursesAreRight
  <1> QED
    BY <1>2, <1>3, <1>6, <1>7, <1>8

LEMMA FinishPreserves ==
    ASSUME ShareIInv, NEW r \in Request, Finish(r)
    PROVE  /\ ServerTypeOK' /\ TokensAreDrawn' /\ DrawsAreFresh' /\ DrawsAreDistinct'
           /\ CoursesAreRight' /\ past' = past
  <1>1. /\ ServerTypeOK'
        /\ Started(r) /\ ~ Started(r)' /\ OthersWait(r)
        /\ live' = live /\ past' = past /\ draws' = draws
    BY FinishEffect DEF ShareIInv, ShareTypeOK
  <1>2. \A s \in Request : Started(s)' => s # r /\ Started(s) /\ req'[s] = req[s]
    BY <1>1 DEF OthersWait, Started
  <1>3. TokensAreDrawn' /\ DrawsAreFresh' /\ DrawsAreDistinct'
    BY <1>1, <1>2 DEF ShareIInv, TokensAreDrawn, DrawsAreFresh, DrawsAreDistinct
  <1>4. CoursesAreRight'
    BY <1>1, <1>2 DEF ShareIInv, CoursesAreRight, Course
  <1> QED
    BY <1>1, <1>3, <1>4

LEMMA InvariantPreserved ==
    ASSUME ShareIInv, [Next]_vars
    PROVE  ShareIInv'
  <1>1. CASE Next
    <2>1. shown' \in [Page -> past \cup {0}]
      BY <1>1, StepKinds
    <2>2. ASSUME NEW p \in Page, Started(Revoke(p))'
          PROVE  req'[Revoke(p)].kind = "revoke" /\ req'[Revoke(p)].expected # 0
      <3>1. Revoke(p) \in Request
        BY Buttons
      <3>2. Started(Revoke(p)) => req[Revoke(p)].kind = "revoke"
                                   /\ req[Revoke(p)].expected # 0
        BY DEF ShareIInv, PagesAreRight
      <3>3. CASE \E r \in Request : ServerStep(r)
        <4> PICK r \in Request : ServerStep(r)
          BY <3>3
        <4>1. SameRequest(r) /\ OthersWait(r)
          BY ServerEffect DEF ShareIInv, ShareTypeOK
        <4> QED
          BY <2>2, <3>1, <3>2, <4>1 DEF SameRequest, OthersWait, Started
      <3>4. CASE \E r \in Request, kind \in Kind, e \in past \cup {0}, d \in BOOLEAN :
                    BeginsWell(r, kind, e, d)
        <4> PICK r \in Request, kind \in Kind, e \in past \cup {0}, d \in BOOLEAN :
                    BeginsWell(r, kind, e, d)
          BY <3>4
        <4>1. ServerTypeOK /\ e \in Nat
          BY DEF ShareIInv, ShareTypeOK, ServerTypeOK
        <4>2. /\ OthersWait(r)
              /\ req'[r] = [pc |-> "read", kind |-> kind, expected |-> e, dryRun |-> d,
                            reason |-> "none", token |-> 0, new |-> NewToken(kind)]
          BY <4>1, BeginEffect DEF BeginsWell
        <4> QED
          BY <2>2, <3>1, <3>2, <4>2 DEF BeginsWell, OthersWait, Started
      <3>5. CASE \E r \in Request : Finish(r)
        <4> PICK r \in Request : Finish(r)
          BY <3>5
        <4>1. OthersWait(r) /\ ~ Started(r)'
          BY FinishEffect DEF ShareIInv, ShareTypeOK
        <4> QED
          BY <2>2, <3>1, <3>2, <4>1 DEF OthersWait, Started
      <3> QED
        BY <1>1, <3>3, <3>4, <3>5, StepKinds
    <2>3. /\ ServerTypeOK' /\ TokensAreDrawn' /\ DrawsAreFresh' /\ DrawsAreDistinct'
          /\ CoursesAreRight' /\ past \subseteq past'
      <3>1. ASSUME NEW r \in Request, ServerStep(r)
            PROVE  /\ ServerTypeOK' /\ TokensAreDrawn' /\ DrawsAreFresh'
                   /\ DrawsAreDistinct' /\ CoursesAreRight' /\ past \subseteq past'
        BY <3>1, ServerEffect, ServerStepPreserves, ServerStepCourses
           DEF ShareIInv, ShareTypeOK
      <3> QED
        BY <1>1, <3>1, StepKinds, BeginPreserves, FinishPreserves
    <2>4. ShareTypeOK' /\ PagesAreRight'
      <3>1. past \cup {0} \subseteq Nat
        BY DEF ShareIInv, ShareTypeOK, ServerTypeOK
      <3>2. ShareTypeOK'
        <4>1. shown' \in [Page -> Nat]
          BY <2>1, <3>1
        <4> QED
          BY <2>3, <4>1 DEF ShareTypeOK
      <3>3. PagesAreRight'
        BY <2>1, <2>2, <2>3 DEF PagesAreRight
      <3> QED
        BY <3>2, <3>3
    <2> QED
      BY <2>3, <2>4 DEF ShareIInv
  <1>2. CASE UNCHANGED vars
    BY <1>2 DEF vars, serverVars, ShareIInv, ShareTypeOK, ServerTypeOK, TokensAreDrawn,
       DrawsAreFresh, DrawsAreDistinct, CoursesAreRight, Course, PagesAreRight, Started
  <1> QED
    BY <1>1, <1>2

\* The inductive invariant of the share links: tokens in flight are new and
\* different, and a request still has the right picture of what it read.
THEOREM ShareInvariance == Spec => []ShareIInv
  <1>1. Init => ShareIInv
    BY InvariantHolds
  <1>2. ShareIInv /\ [Next]_vars => ShareIInv'
    BY InvariantPreserved
  <1> QED
    BY <1>1, <1>2, PTL DEF Spec

\* Every request, answer and page is of its type, whatever overlaps.
THEOREM ShareTypeCorrect == Spec => []ShareTypeOK
  <1>1. ShareIInv => ShareTypeOK
    BY DEF ShareIInv
  <1> QED
    BY <1>1, ShareInvariance, PTL

\* What a page shows has been the receipt's link: ensureShareToken never
\* answers a token that it failed to write.
THEOREM PagesShowLinks == Spec => []ShownWasLive
  <1>1. ShareIInv => ShownWasLive
    BY DEF ShareIInv, PagesAreRight, ShownWasLive
  <1> QED
    BY <1>1, ShareInvariance, PTL

\* A page's revoke ends the link the page showed or none, whatever the other
\* pages and callers do between its read and its write.
THEOREM RevokesAreCareful == Spec => RevokeEndsWhatWasShown
  <1> DEFINE Careful == \A p \in Page :
               req'[Revoke(p)] # req[Revoke(p)] /\ live' # live =>
                  live = req[Revoke(p)].expected /\ live' = 0
  <1>1. ASSUME ShareIInv, [Next]_vars
        PROVE  [Careful]_vars
    <2>1. CASE Next
      <3>1. ASSUME NEW r \in Request, ServerStep(r), NEW p \in Page,
                   req'[Revoke(p)] # req[Revoke(p)], live' # live
            PROVE  live = req[Revoke(p)].expected /\ live' = 0
        <4>1. /\ OthersWait(r) /\ SameRequest(r)
              /\ \/ live' = live
                 \/ req[r].kind \in Draws
                 \/ req[r].kind = "revoke" /\ Matches(r) /\ live' = 0
          BY <1>1, <3>1, ServerEffect DEF ShareIInv, ShareTypeOK
        <4>2. r = Revoke(p) /\ Started(r)
          BY <3>1, <4>1, Buttons DEF OthersWait, SameRequest
        <4>3. req[r].kind = "revoke" /\ req[r].expected # 0
          BY <1>1, <4>2 DEF ShareIInv, PagesAreRight
        <4> QED
          BY <3>1, <4>1, <4>2, <4>3 DEF Draws, Matches
      <3>2. (\E r \in Request : ServerStep(r)) \/ live' = live
        BY <1>1, <2>1, StepKinds DEF BeginsWell, Begin, Finish
      <3> QED
        BY <3>1, <3>2
    <2> QED
      BY <1>1, <2>1
  <1>2. Spec => [][Careful]_vars
    BY <1>1, ShareInvariance, PTL DEF Spec
  <1> QED
    BY <1>2 DEF RevokeEndsWhatWasShown

-----------------------------------------------------------------------------
\* The refinement of ShareLink.

\* A step of one request is a step of its call.
LEMMA CallMoves ==
    ASSUME NEW r \in Request, OthersWait(r)
    PROVE  [s \in Request |-> CallOf(s)']
             = [[s \in Request |-> CallOf(s)] EXCEPT ![r] = CallOf(r)']
  <1>1. \A s \in Request : s # r => CallOf(s)' = CallOf(s)
    BY DEF OthersWait, CallOf, FoundNone
  <1> DEFINE old == [s \in Request |-> CallOf(s)]
             new == [s \in Request |-> CallOf(s)']
  <1>2. \A s \in Request : new[s] = [old EXCEPT ![r] = CallOf(r)'][s]
    BY <1>1
  <1> QED
    BY <1>2

\* A call that gets its answer.
LEMMA CallAnswered ==
    ASSUME NEW r \in Request, OthersWait(r), NEW reason, NEW t,
           CallOf(r)' = [CallOf(r) EXCEPT !.reason = reason, !.token = t]
    PROVE  Promise!Answer(r, reason, t)
  BY CallMoves DEF Promise!Answer

LEMMA CallWaits ==
    ASSUME NEW r \in Request, OthersWait(r), CallOf(r)' = CallOf(r)
    PROVE  [s \in Request |-> CallOf(s)'] = [s \in Request |-> CallOf(s)]
  BY CallMoves

LEMMA BeginImplements ==
    ASSUME ShareIInv, NEW r \in Request, NEW kind \in Kind, NEW e \in past \cup {0},
           NEW d \in BOOLEAN, Begin(r, kind, e, d)
    PROVE  [Promise!Next]_(Promise!vars)
  <1>1. ServerTypeOK /\ e \in Nat
    BY DEF ShareIInv, ShareTypeOK, ServerTypeOK
  <1>2. /\ ~ Started(r) /\ Started(r)' /\ OthersWait(r)
        /\ req'[r] = [pc |-> "read", kind |-> kind, expected |-> e, dryRun |-> d,
                      reason |-> "none", token |-> 0, new |-> NewToken(kind)]
        /\ live' = live /\ past' = past
    BY <1>1, BeginEffect
  <1>3. CallOf(r) = Promise!Idle
    BY <1>2 DEF CallOf, Started, Promise!Idle
  <1>4. CASE kind = "load"
    <2>1. CallOf(r)' = CallOf(r)
      BY <1>2, <1>3, <1>4 DEF CallOf, Promise!Idle
    <2> QED
      BY <1>2, <2>1, CallWaits DEF Promise!vars
  <1>5. CASE kind # "load"
    <2>1. CallOf(r)' = [kind |-> kind, expected |-> e, dryRun |-> d,
                        reason |-> "none", token |-> 0]
      BY <1>2, <1>5 DEF CallOf, Started, FoundNone
    <2>2. CallOf(r)' \in Promise!Asked
      BY <1>1, <1>5, <2>1 DEF Promise!Asked, Kind, Draws
    <2>3. Promise!Call(r)
      BY <1>2, <1>3, <2>2, CallMoves DEF Promise!Call
    <2> QED
      BY <2>3 DEF Promise!Next
  <1> QED
    BY <1>4, <1>5

LEMMA FinishImplements ==
    ASSUME ShareIInv, NEW r \in Request, Finish(r)
    PROVE  [Promise!Next]_(Promise!vars)
  <1>1. /\ Started(r) /\ ~ Started(r)' /\ OthersWait(r)
        /\ live' = live /\ past' = past
    BY FinishEffect DEF ShareIInv, ShareTypeOK
  <1>2. Course(r) /\ req[r].pc = "done"
    BY <1>1 DEF ShareIInv, CoursesAreRight, Finish
  <1>3. CallOf(r)' = Promise!Idle
    BY <1>1 DEF CallOf, Started, Promise!Idle
  <1>4. CASE req[r].kind = "load"
    <2>1. CallOf(r)' = CallOf(r)
      BY <1>1, <1>3, <1>4 DEF CallOf, Promise!Idle
    <2> QED
      BY <1>1, <2>1, CallWaits DEF Promise!vars
  <1>5. CASE req[r].kind # "load"
    <2>1. CallOf(r).kind = req[r].kind /\ CallOf(r).reason = req[r].reason
      BY <1>1, <1>2, <1>5 DEF CallOf, Started, FoundNone
    <2>2. CallOf(r) # Promise!Idle
      BY <1>1, <1>5 DEF CallOf, Started, Promise!Idle
    <2>3. Promise!Return(r)
      BY <1>1, <1>2, <1>3, <2>1, <2>2, CallMoves DEF Promise!Return, Course
    <2> QED
      BY <2>3 DEF Promise!Next
  <1> QED
    BY <1>4, <1>5

\* Only the reason and the token of a call change when it is answered.
LEMMA CallAnswer ==
    ASSUME NEW r \in Request, Started(r), req[r].kind # "load", NEW reason, NEW t
    PROVE  [CallOf(r) EXCEPT !.reason = reason, !.token = t]
             = [kind |-> req[r].kind, expected |-> req[r].expected,
                dryRun |-> req[r].dryRun, reason |-> reason, token |-> t]
  <1> DEFINE open == CallOf(r)
             done == [kind |-> req[r].kind, expected |-> req[r].expected,
                      dryRun |-> req[r].dryRun, reason |-> reason, token |-> t]
             answered == [open EXCEPT !.reason = reason, !.token = t]
  <1>1. open = [kind |-> req[r].kind, expected |-> req[r].expected,
                dryRun |-> req[r].dryRun,
                reason |-> IF FoundNone(r) THEN "noop" ELSE req[r].reason,
                token |-> IF req[r].reason = "token" THEN req[r].token ELSE 0]
    BY DEF CallOf, Started
  <1> HIDE DEF open
  <1>2. DOMAIN answered = DOMAIN done
    BY <1>1
  <1>3. \A x \in DOMAIN done : x \in {"kind", "expected", "dryRun", "reason", "token"}
    OBVIOUS
  <1>4. /\ answered = [x \in DOMAIN answered |-> answered[x]]
        /\ done = [x \in DOMAIN done |-> done[x]]
    BY <1>1
  <1>5. \A x \in DOMAIN done : answered[x] = done[x]
    <2>1. /\ answered.kind = req[r].kind
          /\ answered.expected = req[r].expected
          /\ answered.dryRun = req[r].dryRun
          /\ answered.reason = reason
          /\ answered.token = t
      <3>1. /\ open.kind = req[r].kind /\ open.expected = req[r].expected
            /\ open.dryRun = req[r].dryRun
            /\ {"kind", "expected", "dryRun", "reason", "token"} \subseteq DOMAIN open
        BY <1>1
      <3> QED
        BY <3>1
    <2>2. /\ done.kind = req[r].kind
          /\ done.expected = req[r].expected
          /\ done.dryRun = req[r].dryRun
          /\ done.reason = reason
          /\ done.token = t
      OBVIOUS
    <2> HIDE DEF done, answered
    <2> QED
      BY <1>3, <2>1, <2>2
  <1>6. answered = done
    <2> HIDE DEF done, answered
    <2> QED
      BY <1>2, <1>4, <1>5
  <1> QED
    BY <1>6 DEF open

\* What the answer of a request looks like from outside.
LEMMA AnswerSeen ==
    ASSUME ServerTypeOK, NEW r \in Request, Started(r), req[r].kind # "load",
           NEW reason \in Reason, NEW t \in Nat, Answer(r, reason, t)
    PROVE  /\ OthersWait(r)
           /\ CallOf(r)' = [CallOf(r) EXCEPT !.reason = reason,
                                             !.token = IF reason = "token" THEN t ELSE 0]
  <1>1. /\ SameRequest(r) /\ OthersWait(r)
        /\ req'[r].pc = "done" /\ req'[r].reason = reason /\ req'[r].token = t
    BY AnswerEffect
  <1>2. CallOf(r)' = [kind |-> req[r].kind, expected |-> req[r].expected,
                      dryRun |-> req[r].dryRun, reason |-> reason,
                      token |-> IF reason = "token" THEN t ELSE 0]
    BY <1>1 DEF SameRequest, CallOf, Started, FoundNone
  <1> QED
    BY <1>1, <1>2, CallAnswer

LEMMA ProceedSeen ==
    ASSUME ServerTypeOK, NEW r \in Request, Started(r), req[r].kind # "load",
           NEW pc \in {"write", "again"}, Proceed(r, pc), FoundNone(r)' = FoundNone(r)
    PROVE  OthersWait(r) /\ CallOf(r)' = CallOf(r)
  BY ProceedEffect DEF SameRequest, Started, CallOf

LEMMA ReadImplements ==
    ASSUME ShareIInv, NEW r \in Request, ReadReceipt(r)
    PROVE  [Promise!Next]_(Promise!vars)
  <1>1. ServerTypeOK /\ Started(r) /\ OthersWait(r) /\ SameRequest(r)
    BY ServerEffect DEF ShareIInv, ShareTypeOK, ServerStep, SameRequest
  <1>2. Course(r) /\ req[r].reason = "none" /\ req[r] \in Busy
    BY <1>1 DEF ShareIInv, CoursesAreRight, ReadReceipt, Course, ServerTypeOK, Started
  <1>3. live' = live /\ past' = past /\ req[r].pc = "read" /\ live \in Nat
    BY <1>1 DEF ReadReceipt, KeepToken, ServerTypeOK
  <1>4. CASE req[r].kind = "load"
    <2>1. CallOf(r)' = CallOf(r)
      BY <1>1, <1>4 DEF CallOf, Started, SameRequest
    <2> QED
      BY <1>1, <1>3, <2>1, CallWaits DEF Promise!vars
  <1>5. CASE req[r].kind # "load" /\ Answer(r, "error", 0)
    <2>1. Promise!Answer(r, "error", 0)
      BY <1>1, <1>5, AnswerSeen, CallAnswered DEF Reason
    <2>2. CallOf(r) # Promise!Idle /\ CallOf(r).reason = "none"
      BY <1>1, <1>2, <1>3, <1>5 DEF CallOf, Started, FoundNone, Promise!Idle
    <2> QED
      BY <1>3, <2>1, <2>2 DEF Promise!Fail, Promise!Next
  <1>6. CASE /\ r \in Owner /\ req[r].kind = "issue" /\ live # 0
             /\ Answer(r, "token", live)
    <2>1. Promise!Answer(r, "token", live)
      BY <1>1, <1>3, <1>6, AnswerSeen, CallAnswered DEF Reason
    <2>2. Promise!Open(r, "issue")
      BY <1>1, <1>2, <1>3, <1>6 DEF CallOf, Started, FoundNone, Promise!Open
    <2> QED
      BY <1>3, <1>6, <2>1, <2>2 DEF Promise!Issue, Promise!Next
  <1>7. CASE r \in Owner /\ req[r].kind = "revoke"
             /\ \/ live = 0 /\ Answer(r, "noop", 0)
                \/ live # 0 /\ Stale(r) /\ Answer(r, "stale", live)
                \/ live # 0 /\ ~ Stale(r) /\ req[r].dryRun /\ Answer(r, "revoked", live)
    <2>1. /\ Promise!Open(r, "revoke")
          /\ CallOf(r).expected = req[r].expected /\ CallOf(r).dryRun = req[r].dryRun
      BY <1>1, <1>2, <1>3, <1>7 DEF CallOf, Started, FoundNone, Promise!Open
    <2>2. Promise!Meant(r) <=> ~ Stale(r)
      BY <2>1 DEF Promise!Meant, Stale
    <2>3. CASE live = 0 /\ Answer(r, "noop", 0)
      <3>1. Promise!Answer(r, "noop", 0)
        BY <1>1, <1>7, <2>3, AnswerSeen, CallAnswered DEF Reason
      <3> QED
        BY <1>3, <1>7, <2>1, <2>3, <3>1 DEF Promise!Revoke, Promise!Next
    <2>4. CASE live # 0 /\ Stale(r) /\ Answer(r, "stale", live)
      <3>1. Promise!Answer(r, "stale", 0)
        BY <1>1, <1>3, <1>7, <2>4, AnswerSeen, CallAnswered DEF Reason
      <3> QED
        BY <1>3, <1>7, <2>1, <2>2, <2>4, <3>1 DEF Promise!Revoke, Promise!Next
    <2>5. CASE live # 0 /\ ~ Stale(r) /\ req[r].dryRun /\ Answer(r, "revoked", live)
      <3>1. Promise!Answer(r, "revoked", 0)
        BY <1>1, <1>3, <1>7, <2>5, AnswerSeen, CallAnswered DEF Reason
      <3> QED
        BY <1>3, <1>7, <2>1, <2>2, <2>5, <3>1 DEF Promise!Revoke, Promise!Next
    <2> QED
      BY <1>7, <2>3, <2>4, <2>5
  <1>8. CASE req[r].kind # "load" /\ Proceed(r, "write")
    <2>1. FoundNone(r)' = FoundNone(r)
      BY <1>1, <1>3, <1>8, ProceedEffect DEF FoundNone
    <2>2. CallOf(r)' = CallOf(r)
      BY <1>1, <1>8, <2>1, ProceedSeen
    <2> QED
      BY <1>1, <1>3, <2>2, CallWaits DEF Promise!vars
  <1> QED
    BY <1>4, <1>5, <1>6, <1>7, <1>8, ReadCases

\* Filling and replacing make a new link; removing ends one.
LEMMA WriteImplements ==
    ASSUME ShareIInv, NEW r \in Request,
           FillToken(r) \/ ReplaceToken(r) \/ RemoveToken(r)
    PROVE  [Promise!Next]_(Promise!vars)
  <1>1. ServerTypeOK /\ Started(r) /\ OthersWait(r) /\ SameRequest(r)
    BY ServerEffect DEF ShareIInv, ShareTypeOK, ServerStep, SameRequest
  <1>2. /\ Course(r) /\ req[r].pc = "write" /\ req[r].reason = "none"
        /\ req[r].kind # "load" /\ r \in Owner /\ req[r] \in Busy
    BY <1>1 DEF ShareIInv, CoursesAreRight, FillToken, ReplaceToken, RemoveToken, Course,
                ServerTypeOK, Started
  <1>3. /\ Promise!Open(r, req[r].kind)
        /\ CallOf(r).expected = req[r].expected /\ CallOf(r).dryRun = req[r].dryRun
    BY <1>1, <1>2 DEF CallOf, Started, FoundNone, Promise!Open
  <1>4. ASSUME req[r].kind \in Draws, SetToken(req[r].new), Answer(r, "token", req[r].new)
        PROVE  Promise!Create /\ Promise!Answer(r, "token", live')
    <2>1. req[r].new \in Nat \ ({0} \cup past)
      BY <1>1, <1>2, <1>4 DEF ShareIInv, DrawsAreFresh, Busy
    <2>2. Promise!Answer(r, "token", req[r].new)
      BY <1>1, <1>2, <1>4, <2>1, AnswerSeen, CallAnswered DEF Reason
    <2> QED
      BY <1>4, <2>1, <2>2 DEF SetToken, Promise!Create
  <1>5. CASE FillToken(r)
    <2>1. CASE live = 0
      BY <1>2, <1>3, <1>4, <1>5, <2>1 DEF FillToken, Draws, Promise!Issue, Promise!Next
    <2>2. CASE live # 0
      <3>1. Proceed(r, "again") /\ KeepToken
        BY <1>5, <2>2 DEF FillToken
      <3>2. FoundNone(r)' = FoundNone(r)
        BY <1>1, <1>5 DEF FillToken, FoundNone, SameRequest
      <3>3. CallOf(r)' = CallOf(r)
        BY <1>1, <1>2, <3>1, <3>2, ProceedSeen
      <3> QED
        BY <1>1, <3>1, <3>3, CallWaits DEF KeepToken, Promise!vars
    <2> QED
      BY <2>1, <2>2
  <1>6. CASE ReplaceToken(r)
    BY <1>2, <1>3, <1>4, <1>6 DEF ReplaceToken, Draws, Promise!Rotate, Promise!Next
  <1>7. CASE RemoveToken(r)
    <2>1. CASE Matches(r)
      <3>1. live' = 0 /\ past' = past /\ Answer(r, "revoked", 0) /\ req[r].kind = "revoke"
        BY <1>7, <2>1 DEF RemoveToken, ClearToken
      <3>2. Promise!Answer(r, "revoked", 0)
        BY <1>1, <1>2, <3>1, AnswerSeen, CallAnswered DEF Reason
      <3>3. live # 0 /\ Promise!Meant(r) /\ CallOf(r).dryRun = FALSE
        BY <1>2, <1>3, <2>1, <3>1 DEF Matches, Promise!Meant, Course
      <3> QED
        BY <1>2, <1>3, <3>1, <3>2, <3>3 DEF Promise!Revoke, Promise!Next
    <2>2. CASE ~ Matches(r) /\ req[r].expected = 0
      <3>1. /\ Proceed(r, "again") /\ live' = live /\ past' = past
            /\ req[r].kind = "revoke" /\ live = 0
        BY <1>7, <2>2 DEF RemoveToken, KeepToken, Matches
      <3>2. FoundNone(r)' /\ req'[r].reason = "none"
        BY <1>1, <1>2, <2>2, <3>1, ProceedEffect DEF FoundNone, SameRequest
      <3>3. CallOf(r)' = [CallOf(r) EXCEPT !.reason = "noop", !.token = 0]
        <4>1. CallOf(r)' = [kind |-> req[r].kind, expected |-> req[r].expected,
                            dryRun |-> req[r].dryRun, reason |-> "noop", token |-> 0]
          BY <1>1, <1>2, <3>2 DEF CallOf, SameRequest, Started
        <4> QED
          BY <1>1, <1>2, <4>1, CallAnswer
      <3>4. Promise!Answer(r, "noop", 0)
        BY <1>1, <3>3, CallAnswered
      <3> QED
        BY <1>2, <1>3, <3>1, <3>4 DEF Promise!Revoke, Promise!Next
    <2>3. CASE ~ Matches(r) /\ req[r].expected # 0
      <3>1. Proceed(r, "again") /\ live' = live /\ past' = past
        BY <1>7, <2>3 DEF RemoveToken, KeepToken
      <3>2. FoundNone(r)' = FoundNone(r)
        BY <1>1, <2>3 DEF FoundNone, SameRequest
      <3>3. CallOf(r)' = CallOf(r)
        BY <1>1, <1>2, <3>1, <3>2, ProceedSeen
      <3> QED
        BY <1>1, <3>1, <3>3, CallWaits DEF Promise!vars
    <2> QED
      BY <2>1, <2>2, <2>3
  <1> QED
    BY <1>5, <1>6, <1>7

LEMMA ReadAgainImplements ==
    ASSUME ShareIInv, NEW r \in Request, ReadAgain(r)
    PROVE  [Promise!Next]_(Promise!vars)
  <1>1. ServerTypeOK /\ Started(r) /\ OthersWait(r) /\ SameRequest(r)
    BY ServerEffect DEF ShareIInv, ShareTypeOK, ServerStep, SameRequest
  <1>2. /\ Course(r) /\ req[r].pc = "again" /\ req[r].reason = "none"
        /\ req[r].kind # "load" /\ r \in Owner /\ live \in Nat
        /\ live' = live /\ past' = past
    BY <1>1 DEF ShareIInv, CoursesAreRight, ReadAgain, Course, ServerTypeOK, KeepToken
  <1>3. /\ CallOf(r).kind = req[r].kind /\ CallOf(r) # Promise!Idle
        /\ CallOf(r).expected = req[r].expected
        /\ CallOf(r).token = 0
        /\ CallOf(r).reason = IF FoundNone(r) THEN "noop" ELSE "none"
    BY <1>1, <1>2 DEF CallOf, Started, Promise!Idle
  <1>4. CASE req[r].kind = "issue"
    <2>1. Promise!Open(r, "issue")
      BY <1>3, <1>4 DEF Promise!Open, FoundNone
    <2>2. CASE live = 0
      <3>1. Answer(r, "error", 0)
        BY <1>4, <2>2 DEF ReadAgain
      <3>2. Promise!Answer(r, "error", 0)
        BY <1>1, <1>2, <3>1, AnswerSeen, CallAnswered DEF Reason
      <3> QED
        BY <1>2, <1>3, <2>1, <3>2 DEF Promise!Fail, Promise!Open, Promise!Next
    <2>3. CASE live # 0
      <3>1. Answer(r, "token", live)
        BY <1>4, <2>3 DEF ReadAgain, FoundToken
      <3>2. Promise!Answer(r, "token", live)
        BY <1>1, <1>2, <3>1, AnswerSeen, CallAnswered DEF Reason
      <3> QED
        BY <1>2, <2>1, <2>3, <3>2 DEF Promise!Issue, Promise!Next
    <2> QED
      BY <2>2, <2>3
  <1>5. CASE req[r].kind = "revoke" /\ req[r].expected = 0
    <2>1. FoundNone(r) /\ ~ Stale(r)
      BY <1>2, <1>5 DEF FoundNone, Stale
    <2>2. Answer(r, "noop", live)
      BY <1>5, <2>1 DEF ReadAgain
    <2>3. CallOf(r)' = [CallOf(r) EXCEPT !.reason = "noop", !.token = 0]
      BY <1>1, <1>2, <2>2, AnswerSeen DEF Reason
    <2>4. CallOf(r)' = CallOf(r)
      <3>1. CallOf(r) = [kind |-> req[r].kind, expected |-> req[r].expected,
                         dryRun |-> req[r].dryRun, reason |-> "noop", token |-> 0]
        BY <1>1, <1>2, <2>1 DEF CallOf, Started
      <3> QED
        BY <1>1, <1>2, <2>3, <3>1, CallAnswer
    <2> QED
      BY <1>1, <1>2, <2>4, CallWaits DEF Promise!vars
  <1>6. CASE req[r].kind = "revoke" /\ req[r].expected # 0
    <2>1. Promise!Open(r, "revoke")
      BY <1>3, <1>6 DEF Promise!Open, FoundNone
    <2>2. Stale(r) /\ ~ Promise!Meant(r)
      BY <1>2, <1>3, <1>6 DEF Course, Stale, Promise!Meant
    <2>3. CASE live = 0
      <3>1. Answer(r, "noop", 0)
        BY <1>6, <2>3 DEF ReadAgain
      <3>2. Promise!Answer(r, "noop", 0)
        BY <1>1, <1>2, <3>1, AnswerSeen, CallAnswered DEF Reason
      <3> QED
        BY <1>2, <2>1, <2>3, <3>2 DEF Promise!Revoke, Promise!Next
    <2>4. CASE live # 0
      <3>1. Answer(r, "stale", live)
        BY <1>6, <2>2, <2>4 DEF ReadAgain
      <3>2. Promise!Answer(r, "stale", 0)
        BY <1>1, <1>2, <3>1, AnswerSeen, CallAnswered DEF Reason
      <3> QED
        BY <1>2, <2>1, <2>2, <2>4, <3>2 DEF Promise!Revoke, Promise!Next
    <2> QED
      BY <2>3, <2>4
  <1> QED
    BY <1>4, <1>5, <1>6 DEF ReadAgain

LEMMA FailImplements ==
    ASSUME ShareIInv, NEW r \in Request, Fail(r)
    PROVE  [Promise!Next]_(Promise!vars)
  <1>1. ServerTypeOK /\ Started(r) /\ OthersWait(r) /\ SameRequest(r)
    BY ServerEffect DEF ShareIInv, ShareTypeOK, ServerStep, SameRequest
  <1>2. /\ Course(r) /\ req[r].reason = "none" /\ Answer(r, "error", 0)
        /\ live' = live /\ past' = past
    BY <1>1 DEF ShareIInv, CoursesAreRight, Fail, Course, KeepToken
  <1>3. CASE req[r].kind = "load"
    <2>1. CallOf(r)' = CallOf(r)
      BY <1>1, <1>3 DEF CallOf, Started, SameRequest
    <2> QED
      BY <1>1, <1>2, <2>1, CallWaits DEF Promise!vars
  <1>4. CASE req[r].kind # "load"
    <2>1. Promise!Answer(r, "error", 0)
      BY <1>1, <1>2, <1>4, AnswerSeen, CallAnswered DEF Reason
    <2>2. CallOf(r) # Promise!Idle /\ CallOf(r).reason \in {"none", "noop"}
      BY <1>1, <1>2, <1>4 DEF CallOf, Started, Promise!Idle
    <2> QED
      BY <1>2, <2>1, <2>2 DEF Promise!Fail, Promise!Next
  <1> QED
    BY <1>3, <1>4

\* The requests of the code, each in two or three steps that others come
\* between, do what requests that act at one instant do.
THEOREM ShareLinkImplemented == Spec => ImplementsShareLink
  <1>1. Init => Promise!Init
    <2>1. ASSUME Init, NEW r \in Request
          PROVE  CallOf(r) = Promise!Idle
      BY <2>1 DEF Init, ServerInit, CallOf, Promise!Idle
    <2> QED
      BY <2>1 DEF Init, ServerInit, Promise!Init
  <1>2. ShareIInv /\ [Next]_vars => [Promise!Next]_(Promise!vars)
    <2> SUFFICES ASSUME ShareIInv, [Next]_vars
                 PROVE  [Promise!Next]_(Promise!vars)
      OBVIOUS
    <2>1. CASE Next
      <3>1. ASSUME NEW r \in Request, ServerStep(r)
            PROVE  [Promise!Next]_(Promise!vars)
        BY <3>1, ReadImplements, WriteImplements, ReadAgainImplements, FailImplements
           DEF ServerStep
      <3> QED
        BY <2>1, <3>1, StepKinds, BeginImplements, FinishImplements DEF BeginsWell
    <2>2. CASE UNCHANGED vars
      <3>1. \A r \in Request : CallOf(r)' = CallOf(r)
        BY <2>2 DEF vars, serverVars, CallOf, FoundNone
      <3> QED
        BY <2>2, <3>1 DEF vars, serverVars, Promise!vars
    <2> QED
      BY <2>1, <2>2
  <1> QED
    BY <1>1, <1>2, ShareInvariance, PTL DEF Spec, ImplementsShareLink, Promise!Spec
=============================================================================
