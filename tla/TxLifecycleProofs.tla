-------------------------- MODULE TxLifecycleProofs --------------------------
(***************************************************************************)
(* Proofs about the steps of TxTracking: what they never do to a row or a  *)
(* receipt, and that they implement TxLifecycle.                           *)
(***************************************************************************)
EXTENDS TxTrackingProofs

\* A handler or job gives row h the status of r and leaves its details: the
\* status is the chain's verdict, or gives up, or is what it was.
Rewrites(h, r) ==
    /\ tx' = [tx EXCEPT ![h] = r]
    /\ UNCHANGED <<receipt, posted, chainVars>>
    /\ r.details = tx[h].details
    /\ \/ r.status = tx[h].status
       \/ Exists(h) /\ r.status = "EXPIRED"
       \/ /\ chain[h].fate # "pool" /\ r.status = Verdict(chain[h].fate)
          /\ r.status # "PENDING"

\* A receipt for h of details that were posted, unless there is one.
Issues(h, d, src) ==
    /\ CreateSnapshot(h, d, src)
    /\ UNCHANGED <<tx, posted, chainVars>>
    /\ Exists(h) /\ d \in Complete /\ <<h, d>> \in posted

\* Every step does one of these, or only what nobody outside can see.
Effect ==
    \/ UNCHANGED <<tx, receipt, posted>>
    \/ \E p \in Poster, h \in Hash, d \in Details : UpsertPending(p, h, d)
    \/ \E h \in Hash, r \in Row : Rewrites(h, r)
    \/ \E h \in Hash, d \in Details, src \in Source : Issues(h, d, src)

-----------------------------------------------------------------------------
LEMMA PostStepEffect ==
    ASSUME IInv, PostStep
    PROVE  Effect
  <1> PICK p \in Poster :
           \/ \E h \in Hash, d \in Details : UpsertPending(p, h, d)
           \/ PostContinues(p)
           \/ PostAborts(p)
    BY DEF PostStep
  <1>1. CASE \E h \in Hash, d \in Details : UpsertPending(p, h, d)
    BY <1>1 DEF Effect
  <1>2. CASE PostSnapshot(p)
    <2>1. post[p] \in PostState /\ post[p] # IdlePost
      BY <1>2 DEF PostSnapshot, IInv, TypeOK, PostTypeOK, IdlePost
    <2>2. post[p].h \in Hash /\ post[p].details \in Complete /\ post[p].details \in Details
      BY <1>2, <2>1 DEF PostSnapshot, PostState
    <2>3. Exists(post[p].h) /\ <<post[p].h, post[p].details>> \in posted
      BY <2>1 DEF IInv, PostOK
    <2>4. Issues(post[p].h, post[p].details, "upsertPending")
      BY <1>2, <2>2, <2>3 DEF PostSnapshot, Issues
    <2> QED
      BY <2>2, <2>4 DEF Effect, Source
  <1>3. CASE PushAndLook(p) \/ QuoteFails(p) \/ PostAborts(p)
    BY <1>3 DEF Effect, PushAndLook, QuoteFails, PostAborts, storeVars
  <1> QED
    BY <1>1, <1>2, <1>3 DEF PostContinues

\* The row a webhook writes, over a row or as a new one.
LEMMA WebhookRewrites ==
    ASSUME IInv, NEW k \in Hook, hook[k] # IdleHook, UNCHANGED <<receipt, posted, chainVars>>,
           tx' = [tx EXCEPT ![HookHash(k)] = UpsertedRow(k)]
    PROVE  Effect
  <1> DEFINE h == HookHash(k)
             r == UpsertedRow(k)
  <1>1. TypeOK /\ HookOK(k) /\ Reported(hook[k].ev)
    BY DEF IInv, HookOK
  <1>2. /\ h \in Hash /\ Verdict(chain[h].fate) = HookStatus(k)
        /\ hook[k] \in HookState /\ EventId(k) \in Event \cup {NoEvent}
        /\ hook[k].ev \in Event
    BY <1>1, HookHashIsReported, HookHashType DEF TypeOK
  <1>3. HookStatus(k) \in Settled \ {"EXPIRED"}
    BY <1>2, PayloadAssumption DEF HookStatus, Notice
  <1>4. chain[h].fate # "pool"
    BY <1>2, <1>3 DEF Verdict, Settled
  <1>5. tx[h] \in Row /\ NewRow \in Row /\ RowOK(h)
    BY <1>1, <1>2, NewRowType DEF IInv, TypeOK, StoreTypeOK
  <1>6. \A row \in Row : /\ WebhookFields(row, k) \in Row
                         /\ WebhookFields(row, k).status = HookStatus(k)
                         /\ WebhookFields(row, k).details = row.details
    BY <1>2, <1>3 DEF WebhookFields, Row, HookState, Status, RowStatus
  <1>7. r \in Row /\ r.status = HookStatus(k) /\ r.details = tx[h].details
    <2>1. CASE Exists(h)
      BY <1>5, <1>6, <2>1 DEF UpsertedRow
    <2>2. CASE ~ Exists(h)
      <3>1. r = WebhookFields(NewRow, k)
        BY <2>2 DEF UpsertedRow
      <3>2. tx[h] = NoRow /\ NewRow.details = Placeholder
        BY <1>5, <2>2 DEF RowOK, NewRow, NoRow
      <3> QED
        BY <1>5, <1>6, <3>1, <3>2 DEF NoRow
    <2> QED
      BY <2>1, <2>2
  <1>8. Rewrites(h, r)
    BY <1>2, <1>3, <1>4, <1>7 DEF Rewrites, Settled
  <1> QED
    BY <1>2, <1>7, <1>8 DEF Effect

LEMMA HookStepEffect ==
    ASSUME IInv, HookStep
    PROVE  Effect
  <1> PICK k \in Hook :
           \/ \E e \in Event : Receive(k, e)
           \/ HookContinues(k)
           \/ HookAborts(k)
    BY DEF HookStep
  <1>1. CASE UpdateRow(k) \/ CreateRow(k)
    <2>1. hook[k] # IdleHook
      BY <1>1 DEF UpdateRow, CreateRow, IdleHook
    <2>2. UNCHANGED <<receipt, posted, chainVars>>
      BY <1>1 DEF UpdateRow, CreateRow
    <2>3. \/ tx' = [tx EXCEPT ![HookHash(k)] = UpsertedRow(k)]
          \/ UNCHANGED tx
      <3>1. CASE UpdateRow(k)
        <4>1. \/ /\ tx' = [tx EXCEPT ![HookHash(k)] = WebhookFields(tx[HookHash(k)], k)]
                 /\ Exists(HookHash(k))
              \/ UNCHANGED tx
          <5>1. HookHash(k) \in Hash /\ tx \in [Hash -> Row]
            BY <2>1, HookHashType DEF IInv, TypeOK, StoreTypeOK
          <5> QED
            BY <3>1, <5>1 DEF UpdateRow
        <4> QED
          BY <4>1 DEF UpsertedRow
      <3>2. CASE CreateRow(k)
        BY <3>2 DEF CreateRow
      <3> QED
        BY <1>1, <3>1, <3>2
    <2> QED
      BY <2>1, <2>2, <2>3, WebhookRewrites DEF Effect
  <1>2. CASE HookSnapshot(k)
    <2>1. hook[k] # IdleHook /\ HookOK(k)
      BY <1>2 DEF HookSnapshot, IdleHook, IInv
    <2>2. hook[k] \in HookState /\ HookHash(k) \in Hash
      BY <2>1, HookHashType DEF IInv, TypeOK
    <2>3. hook[k].details \in Complete /\ hook[k].details \in Details
      BY <1>2, <2>2, DetailsAssumption DEF HookSnapshot, HookState
    <2>4. Exists(HookHash(k)) /\ <<HookHash(k), hook[k].details>> \in posted
      BY <1>2, <2>1, <2>3, DetailsAssumption DEF HookSnapshot, HookOK
    <2>5. Issues(HookHash(k), hook[k].details, "applyWebhookUpdate")
      BY <1>2, <2>3, <2>4 DEF HookSnapshot, Issues
    <2> QED
      BY <2>2, <2>3, <2>5 DEF Effect, Source
  <1>3. CASE ~ (UpdateRow(k) \/ CreateRow(k) \/ HookSnapshot(k))
    BY <1>3 DEF Effect, HookContinues, Receive, HookAborts, FindTransaction, NotifySender,
                NotifyReceiver, Dedup, Refresh, LookForReceipt, SnapshotFails, storeVars
  <1> QED
    BY <1>1, <1>2, <1>3

LEMMA JobStepEffect ==
    ASSUME IInv, JobStep
    PROVE  Effect
  <1>1. ASSUME NEW j \in Job, Rectify(j) \/ BackfillRow(j)
        PROVE  Effect
    <2> DEFINE h == job[j].row.h
    <2>1. job[j] \in Writing /\ job[j] # IdleJob /\ job[j].pc = "write"
      BY <1>1 DEF Rectify, BackfillRow, Asking, Writing, IdleJob, JobTypeOK, IInv, TypeOK
    <2>2. /\ h \in Hash /\ job[j].bn \in Nat /\ job[j].head \in Nat
          /\ job[j].fate \in {"ok", "failed", "missing"}
      BY <2>1 DEF Writing, Entry
    <2>3. Exists(h) /\ (job[j].fate # "missing" => chain[h].fate = job[j].fate)
      <3>1. JobOK(j)
        BY DEF IInv
      <3> QED
        BY <2>1, <3>1 DEF JobOK, Exists
    <2>4. tx \in [Hash -> Row] /\ tx[h] \in Row
      BY <2>2 DEF IInv, TypeOK, StoreTypeOK
    <2>5. Confirmations(job[j].head, job[j].bn) \in Nat
      BY <2>2, ConfirmationsType
    <2>6. /\ Counted(tx[h], j) \in Row /\ Counted(tx[h], j).status = tx[h].status
          /\ Counted(tx[h], j).details = tx[h].details
      BY <2>2, <2>4, <2>5 DEF Counted, Row
    <2>7. /\ Rectified(tx[h], j) \in Row /\ Rectified(tx[h], j).details = tx[h].details
          /\ \/ Rectified(tx[h], j).status = tx[h].status
             \/ Rectified(tx[h], j).status = "EXPIRED"
             \/ job[j].fate = "ok" /\ Rectified(tx[h], j).status = "CONFIRMED"
             \/ job[j].fate = "failed" /\ Rectified(tx[h], j).status = "FAILED"
      <3> DEFINE c == Counted(tx[h], j)
      <3> HIDE DEF c, h
      <3>1. Rectified(tx[h], j) =
               CASE job[j].fate = "ok" -> [c EXCEPT !.status = "CONFIRMED"]
                 [] job[j].fate = "failed" -> [c EXCEPT !.status = "FAILED"]
                 [] job[j].fate = "missing" /\ NotFoundIsNamed ->
                      [tx[h] EXCEPT !.status = "EXPIRED"]
                 [] OTHER -> tx[h]
        BY DEF Rectified, c
      <3>2. c \in Row /\ c.details = tx[h].details
        BY <2>6 DEF c
      <3>3. \A s \in RowStatus, row \in Row :
               /\ [row EXCEPT !.status = s] \in Row
               /\ [row EXCEPT !.status = s].status = s
               /\ [row EXCEPT !.status = s].details = row.details
        BY DEF Row, Status
      <3>4. CASE job[j].fate = "ok"
        <4>1. Rectified(tx[h], j) = [c EXCEPT !.status = "CONFIRMED"]
          BY <3>1, <3>4
        <4> QED
          BY <3>2, <3>3, <3>4, <4>1 DEF RowStatus, Settled
      <3>5. CASE job[j].fate = "failed"
        <4>1. Rectified(tx[h], j) = [c EXCEPT !.status = "FAILED"]
          BY <3>1, <3>5
        <4> QED
          BY <3>2, <3>3, <3>5, <4>1 DEF RowStatus, Settled
      <3>6. CASE job[j].fate = "missing" /\ NotFoundIsNamed
        <4>1. Rectified(tx[h], j) = [tx[h] EXCEPT !.status = "EXPIRED"]
          BY <3>1, <3>6
        <4> QED
          BY <2>4, <3>3, <4>1 DEF RowStatus, Settled
      <3>7. CASE job[j].fate = "missing" /\ ~NotFoundIsNamed
        <4>1. Rectified(tx[h], j) = tx[h]
          BY <3>1, <3>7
        <4> QED
          BY <2>4, <4>1
      <3> QED
        BY <2>2, <3>4, <3>5, <3>6, <3>7
    <2> HIDE DEF h
    <2>8. UNCHANGED <<receipt, posted, chainVars>>
      BY <1>1 DEF Rectify, BackfillRow
    <2>9. \/ tx' = [tx EXCEPT ![h] = Rectified(tx[h], j)]
          \/ tx' = [tx EXCEPT ![h] = Counted(tx[h], j)]
          \/ tx' = tx
      BY <1>1, <2>4 DEF Rectify, BackfillRow, h
    <2>10. CASE tx' = [tx EXCEPT ![h] = Rectified(tx[h], j)]
      <3>1. Rewrites(h, Rectified(tx[h], j))
        BY <2>3, <2>7, <2>8, <2>10 DEF Rewrites, Verdict
      <3> QED
        BY <2>2, <2>7, <3>1 DEF Effect, h
    <2>11. CASE tx' = [tx EXCEPT ![h] = Counted(tx[h], j)]
      <3>1. Rewrites(h, Counted(tx[h], j))
        BY <2>6, <2>8, <2>11 DEF Rewrites, h
      <3> QED
        BY <2>2, <2>6, <3>1 DEF Effect, h
    <2> QED
      BY <2>8, <2>9, <2>10, <2>11 DEF Effect
  <1>2. ASSUME UNCHANGED storeVars
        PROVE  Effect
    BY <1>2 DEF storeVars, Effect
  <1> QED
    BY <1>1, <1>2 DEF JobStep, Job, ListStale, ListShallow, StartBatch, AskHead, HeadFails,
                      AskReceipt, ReceiptFails, JobAborts

LEMMA NextEffect ==
    ASSUME IInv, [Next]_vars
    PROVE  Effect
  <1>1. CASE Environment \/ UNCHANGED vars
    BY <1>1 DEF Effect, Environment, MineBlock, DropTx, Age, tables, vars, storeVars
  <1> QED
    BY <1>1, PostStepEffect, HookStepEffect, JobStepEffect DEF Next

-----------------------------------------------------------------------------
\* Nothing that was settled or given up becomes PENDING again: the upsert of
\* a POST leaves the status of a row alone (tx.service.ts:24).
THEOREM NeverPendingAgain == Spec => NoReturnToPending
  <1>1. IInv /\ [Next]_vars =>
          [\A h \in Hash : tx'[h].status = "PENDING" =>
             tx[h].status \in {"NONE", "PENDING"}]_vars
    <2> SUFFICES ASSUME IInv, [Next]_vars, NEW g \in Hash, tx'[g].status = "PENDING"
                 PROVE  tx[g].status \in {"NONE", "PENDING"}
      OBVIOUS
    <2>1. tx \in [Hash -> Row]
      BY DEF IInv, TypeOK, StoreTypeOK
    <2>2. CASE tx' = tx
      BY <2>2
    <2>3. ASSUME NEW p \in Poster, NEW h \in Hash, NEW d \in Details, UpsertPending(p, h, d)
          PROVE  tx[g].status \in {"NONE", "PENDING"}
      <3>1. g # h => tx'[g] = tx[g]
        BY <2>1, <2>3 DEF UpsertPending
      <3>2. Exists(h) => tx'[h].status = tx[h].status
        BY <2>1, <2>3 DEF UpsertPending, PostedRow, Row
      <3> QED
        BY <3>1, <3>2 DEF Exists
    <2>4. ASSUME NEW h \in Hash, NEW r \in Row, Rewrites(h, r)
          PROVE  tx[g].status \in {"NONE", "PENDING"}
      <3>1. tx'[g] = IF g = h THEN r ELSE tx[g]
        BY <2>1, <2>4 DEF Rewrites
      <3> QED
        BY <2>4, <3>1 DEF Rewrites
    <2> QED
      BY <2>2, <2>3, <2>4, NextEffect DEF Effect, Issues
  <1> QED
    BY <1>1, Invariance, PTL DEF Spec, NoReturnToPending

\* Handlers that race for a receipt do not replace each other's
\* (receipt.service.ts:45).
THEOREM OneReceiptForEver == Spec => ReceiptWrittenOnce
  <1>1. IInv /\ [Next]_vars =>
          [\A h \in Hash : receipt[h] # NoReceipt => receipt'[h] = receipt[h]]_vars
    <2> SUFFICES ASSUME IInv, [Next]_vars, NEW g \in Hash, receipt[g] # NoReceipt
                 PROVE  receipt'[g] = receipt[g]
      OBVIOUS
    <2>1. receipt \in [Hash -> Receipt \cup {NoReceipt}]
      BY DEF IInv, TypeOK, StoreTypeOK
    <2>2. ASSUME NEW h \in Hash, NEW d \in Details, NEW src \in Source, Issues(h, d, src)
          PROVE  receipt'[g] = receipt[g]
      BY <2>1, <2>2 DEF Issues, CreateSnapshot
    <2> QED
      BY <2>2, NextEffect DEF Effect, UpsertPending, Rewrites
  <1> QED
    BY <1>1, Invariance, PTL DEF Spec, ReceiptWrittenOnce

\* Webhooks and jobs keep what a POST has said of a transfer
\* (tx.service.ts:123, tx.cleanup.cron.ts:91).
THEOREM DetailsSurvive == Spec => PostedDetailsSurvive
  <1>1. IInv /\ [Next]_vars =>
          [\A h \in Hash : tx[h].details # Placeholder =>
             /\ tx'[h].details # Placeholder
             /\ tx'[h].details # tx[h].details =>
                   \E p \in Poster : post'[p] # post[p] /\ post'[p] # IdlePost
                                     /\ post'[p].h = h]_vars
    <2> SUFFICES ASSUME IInv, [Next]_vars, NEW g \in Hash, tx[g].details # Placeholder
                 PROVE  /\ tx'[g].details # Placeholder
                        /\ tx'[g].details # tx[g].details =>
                              \E p \in Poster : post'[p] # post[p] /\ post'[p] # IdlePost
                                                /\ post'[p].h = g
      OBVIOUS
    <2>1. tx \in [Hash -> Row] /\ post \in [Poster -> PostState \cup {IdlePost}]
      BY DEF IInv, TypeOK, StoreTypeOK, PostTypeOK
    <2>2. ASSUME NEW p \in Poster, NEW h \in Hash, NEW d \in Details, UpsertPending(p, h, d)
          PROVE  /\ tx'[g].details # Placeholder
                 /\ tx'[g].details # tx[g].details =>
                       post'[p] # post[p] /\ post'[p] # IdlePost /\ post'[p].h = g
      <3>1. /\ g # h => tx'[g] = tx[g]
            /\ g = h => tx'[g] = PostedRow(h, d)
        BY <2>1, <2>2 DEF UpsertPending
      <3>2. PostedRow(h, d).details = d
        BY <2>1 DEF PostedRow, Row, NewRow, NoRow
      <3>3. d # Placeholder
        BY DetailsAssumption
      <3>4. post[p] = IdlePost /\ post'[p].pc = "look" /\ post'[p].h = h
        BY <2>1, <2>2 DEF UpsertPending
      <3>5. post'[p] # IdlePost
        BY <3>4 DEF IdlePost
      <3> QED
        BY <3>1, <3>2, <3>3, <3>4, <3>5
    <2>3. ASSUME NEW h \in Hash, NEW r \in Row, Rewrites(h, r)
          PROVE  tx'[g].details = tx[g].details
      <3>1. tx'[g] = IF g = h THEN r ELSE tx[g]
        BY <2>1, <2>3 DEF Rewrites
      <3> QED
        BY <2>3, <3>1 DEF Rewrites
    <2> QED
      BY <2>2, <2>3, NextEffect DEF Effect, Issues
  <1> QED
    BY <1>1, Invariance, PTL DEF Spec, PostedDetailsSurvive

-----------------------------------------------------------------------------
\* The refinement, effect by effect.

LEMMA LifecycleInit ==
    ASSUME Init
    PROVE  Lifecycle!Init
BY DEF Init, StoreInit, Lifecycle!Init, NoRow

LEMMA DecideImplements ==
    ASSUME IInv, IInv', Grows, UNCHANGED <<tx, receipt, posted>>
    PROVE  Lifecycle!Decide
  <1>1. \A h \in Hash : /\ chain'[h].fate \in {"pool", "ok", "failed", "dropped"}
                        /\ chain[h].fate # "pool" => chain'[h].fate = chain[h].fate
    BY DEF IInv, TypeOK, StoreTypeOK, Block, Grows
  <1> QED
    BY <1>1 DEF Lifecycle!Decide

LEMMA SubmitImplements ==
    ASSUME IInv, NEW p \in Poster, NEW h \in Hash, NEW d \in Details, UpsertPending(p, h, d)
    PROVE  Lifecycle!Submit(h, d)
  <1>1. tx \in [Hash -> Row]
    BY DEF IInv, TypeOK, StoreTypeOK
  <1>2. PostedRow(h, d).status = IF tx[h].status = "NONE" THEN "PENDING" ELSE tx[h].status
    BY <1>1 DEF PostedRow, Exists, Row, NewRow, NoRow
  <1>3. \A g \in Hash : tx'[g] = IF g = h THEN PostedRow(h, d) ELSE tx[g]
    BY <1>1 DEF UpsertPending
  <1>4. [g \in Hash |-> tx'[g].status] =
          [[g \in Hash |-> tx[g].status] EXCEPT ![h] =
              IF tx[h].status = "NONE" THEN "PENDING" ELSE tx[h].status]
    BY <1>2, <1>3
  <1>5. posted' = posted \cup {<<h, d>>} /\ UNCHANGED <<chain, receipt>>
    BY DEF UpsertPending, chainVars
  <1> QED
    BY <1>4, <1>5 DEF Lifecycle!Submit

LEMMA RewriteImplements ==
    ASSUME IInv, NEW h \in Hash, NEW r \in Row, Rewrites(h, r)
    PROVE  [Lifecycle!Next]_(Lifecycle!vars)
  <1>1. tx \in [Hash -> Row] /\ chain \in [Hash -> Block]
    BY DEF IInv, TypeOK, StoreTypeOK
  <1>2. \A g \in Hash : tx'[g] = IF g = h THEN r ELSE tx[g]
    BY <1>1 DEF Rewrites
  <1>3. [g \in Hash |-> tx'[g].status] = [[g \in Hash |-> tx[g].status] EXCEPT ![h] = r.status]
    BY <1>2
  <1>4. UNCHANGED <<chain, receipt, posted>>
    BY DEF Rewrites, chainVars
  <1>5. CASE r.status = tx[h].status
    <2>1. [g \in Hash |-> tx'[g].status] = [g \in Hash |-> tx[g].status]
      BY <1>2, <1>5
    <2> QED
      BY <1>4, <2>1 DEF Lifecycle!vars
  <1>6. CASE Exists(h) /\ r.status = "EXPIRED"
    <2>1. Lifecycle!GiveUp(h)
      BY <1>3, <1>4, <1>6 DEF Lifecycle!GiveUp, Exists
    <2> QED
      BY <2>1 DEF Lifecycle!Next
  <1>7. CASE chain[h].fate # "pool" /\ r.status = Verdict(chain[h].fate)
    <2>1. chain[h].fate \in {"ok", "failed", "dropped"}
      BY <1>1, <1>7 DEF Block
    <2>2. r.status = Lifecycle!Verdict(chain[h].fate)
      BY <1>7, <2>1 DEF Verdict, Lifecycle!Verdict
    <2>3. Lifecycle!Settle(h)
      BY <1>3, <1>4, <1>7, <2>2 DEF Lifecycle!Settle
    <2> QED
      BY <2>3 DEF Lifecycle!Next
  <1> QED
    BY <1>5, <1>6, <1>7 DEF Rewrites

LEMMA IssueImplements ==
    ASSUME IInv, NEW h \in Hash, NEW d \in Details, NEW src \in Source, Issues(h, d, src)
    PROVE  [Lifecycle!Next]_(Lifecycle!vars)
  <1> DEFINE new == [details |-> d, source |-> src]
             Issued(f) == [g \in Hash |-> IF f[g] = NoReceipt THEN NoReceipt ELSE f[g].details]
  <1>1. receipt \in [Hash -> Receipt \cup {NoReceipt}]
    BY DEF IInv, TypeOK, StoreTypeOK
  <1>2. UNCHANGED <<tx, posted, chain>> /\ Exists(h) /\ d \in Complete /\ <<h, d>> \in posted
    BY DEF Issues, chainVars
  <1>3. new \in Receipt /\ new # NoReceipt /\ new.details = d
    BY <1>2, ReceiptAssumption DEF Receipt
  <1>4. \A g \in Hash : receipt'[g] = IF g = h /\ receipt[h] = NoReceipt THEN new ELSE receipt[g]
    BY <1>1 DEF Issues, CreateSnapshot
  <1> HIDE DEF new
  <1>5. CASE receipt[h] = NoReceipt
    <2>1. Issued(receipt') = [Issued(receipt) EXCEPT ![h] = d]
      BY <1>3, <1>4, <1>5
    <2>2. Issued(receipt)[h] = NoReceipt
      BY <1>5
    <2>3. Lifecycle!Issue(h, d)
      BY <1>2, <2>1, <2>2 DEF Lifecycle!Issue, Exists
    <2> QED
      BY <2>3 DEF Lifecycle!Next
  <1>6. CASE receipt[h] # NoReceipt
    <2>1. Issued(receipt') = Issued(receipt)
      BY <1>4, <1>6
    <2> QED
      BY <1>2, <2>1 DEF Lifecycle!vars
  <1> QED
    BY <1>5, <1>6

\* Handlers of many steps, jobs and faults implement transactions that are
\* settled at most as the chain says, and one receipt each (tx.service.ts,
\* alchemy.controller.ts, tx.cleanup.cron.ts, tx.cron.ts).
THEOREM LifecycleImplemented == Spec => ImplementsLifecycle
  <1>1. Init => Lifecycle!Init
    BY LifecycleInit
  <1>2. IInv /\ IInv' /\ [Next]_vars => [Lifecycle!Next]_(Lifecycle!vars)
    <2> SUFFICES ASSUME IInv, IInv', [Next]_vars
                 PROVE  [Lifecycle!Next]_(Lifecycle!vars)
      OBVIOUS
    <2>1. Grows
      BY NextGrows DEF IInv
    <2> QED
      BY <2>1, NextEffect, DecideImplements, SubmitImplements, RewriteImplements,
         IssueImplements DEF Effect, Lifecycle!Next
  <1> QED
    BY <1>1, <1>2, Invariance, PTL DEF Spec, ImplementsLifecycle, Lifecycle!Spec
=============================================================================
