-------------------------- MODULE TxTrackingProofs --------------------------
(***************************************************************************)
(* Proofs about TxTracking, for every set of transactions, requests, jobs, *)
(* payloads and faults.                                                    *)
(***************************************************************************)
EXTENDS TxTracking, TLAPS

\* Counting confirmations gives a number.
LEMMA ConfirmationsType ==
    ASSUME NEW hd \in Nat, NEW bn \in Nat
    PROVE  Confirmations(hd, bn) \in Nat
  BY DEF Confirmations

\* The hash a webhook handler is at is one of its payload's.
LEMMA HookHashType ==
    ASSUME HookTypeOK, NEW k \in Hook, hook[k] # IdleHook
    PROVE  /\ hook[k] \in HookState
           /\ HookHash(k) \in Hash
           /\ HookStatus(k) \in Settled
           /\ EventId(k) \in Event \cup {NoEvent}
  <1>1. hook[k] \in HookState
    BY DEF HookTypeOK
  <1>2. Payload[hook[k].ev] \in Notice /\ hook[k].ev \in Event
    BY <1>1, PayloadAssumption DEF HookState
  <1>3. hook[k].pos \in 1..Len(Payload[hook[k].ev].hashes)
    BY <1>1, <1>2 DEF HookTypeOK, HookState, Notice
  <1>4. HookHash(k) \in Hash
    BY <1>2, <1>3 DEF HookHash, Notice
  <1> QED
    BY <1>1, <1>2, <1>4 DEF HookStatus, EventId, Notice, Settled

\* The row an insert starts from is a row.
LEMMA NewRowType ==
    ASSUME rows \in Nat
    PROVE  NewRow \in Row
  BY DEF NewRow, NoRow, Row, Status

-----------------------------------------------------------------------------
\* Type correctness, part by part.

LEMMA PostStepType ==
    ASSUME StoreTypeOK, PostTypeOK, PostStep
    PROVE  StoreTypeOK' /\ PostTypeOK'
  <1> USE DEF StoreTypeOK, PostTypeOK
  <1> PICK p \in Poster :
           \/ \E h \in Hash, d \in Details : UpsertPending(p, h, d)
           \/ PostContinues(p)
           \/ PostAborts(p)
    BY DEF PostStep
  <1>1. ASSUME NEW h \in Hash, NEW d \in Details, UpsertPending(p, h, d)
        PROVE  StoreTypeOK' /\ PostTypeOK'
    <2>1. PostedRow(h, d) \in Row /\ PostedRow(h, d).status \in RowStatus
      <3>1. tx[h] \in Row
        OBVIOUS
      <3>2. CASE Exists(h)
        BY <3>1, <3>2 DEF PostedRow, Exists, Row, Status
      <3>3. CASE ~ Exists(h)
        BY <3>3, NewRowType DEF PostedRow, Row, Status, RowStatus
      <3> QED
        BY <3>2, <3>3
    <2>2. tx' \in [Hash -> Row]
      BY <1>1, <2>1 DEF UpsertPending
    <2>3. rows' \in Nat /\ posted' \in SUBSET (Hash \X Details)
      BY <1>1 DEF UpsertPending
    <2>4. [pc |-> "look", h |-> h, details |-> d,
           status |-> PostedRow(h, d).status] \in PostState
      BY <2>1 DEF PostState
    <2>5. post' \in [Poster -> PostState \cup {IdlePost}]
      BY <1>1, <2>4 DEF UpsertPending
    <2> QED
      BY <1>1, <2>2, <2>3, <2>5 DEF UpsertPending, chainVars
  <1>2. CASE PushAndLook(p)
    <2>1. post[p] \in PostState
      BY <1>2 DEF PushAndLook, IdlePost
    <2>2. pushed' \in [Hash -> Status]
      BY <1>2, <2>1 DEF PushAndLook, Push, PostState, Status, RowStatus, Settled
    <2>3. WantsReceipt(p) => [post[p] EXCEPT !.pc = "quote"] \in PostState
      BY <2>1 DEF WantsReceipt, EssentialsReady, PostState
    <2>4. post' \in [Poster -> PostState \cup {IdlePost}]
      BY <1>2, <2>3 DEF PushAndLook, PostDone
    <2> QED
      BY <1>2, <2>2, <2>4 DEF PushAndLook, chainVars
  <1>3. CASE PostSnapshot(p)
    <2>1. post[p] \in PostState
      BY <1>3 DEF PostSnapshot, IdlePost
    <2>2. [details |-> post[p].details, source |-> "upsertPending"] \in Receipt
      BY <1>3, <2>1 DEF PostSnapshot, PostState, Receipt, Source
    <2>3. receipt' \in [Hash -> Receipt \cup {NoReceipt}]
      BY <1>3, <2>2 DEF PostSnapshot, CreateSnapshot
    <2> QED
      BY <1>3, <2>3 DEF PostSnapshot, PostDone, chainVars
  <1>4. CASE QuoteFails(p) \/ PostAborts(p)
    BY <1>4 DEF QuoteFails, PostAborts, PostDone, storeVars
  <1> QED
    BY <1>1, <1>2, <1>3, <1>4 DEF PostContinues

\* Where a webhook handler goes next is a state of it.
LEMMA HookMoves ==
    ASSUME HookTypeOK, NEW k \in Hook, hook[k] # IdleHook
    PROVE  /\ \A pc \in HookPC \ {"snapshot"} :
                 HookTo(k, pc) => hook' \in [Hook -> HookState \cup {IdleHook}]
           /\ HookDone(k) => hook' \in [Hook -> HookState \cup {IdleHook}]
           /\ NextHash(k) => hook' \in [Hook -> HookState \cup {IdleHook}]
           /\ ApplyOrNext(k) => hook' \in [Hook -> HookState \cup {IdleHook}]
  <1> USE DEF HookTypeOK
  <1>1. hook[k] \in HookState
    BY HookHashType
  <1>2. ASSUME NEW pc \in HookPC \ {"snapshot"}, HookTo(k, pc)
        PROVE  hook' \in [Hook -> HookState \cup {IdleHook}]
    <2>1. [hook[k] EXCEPT !.pc = pc] \in HookState
      BY <1>1 DEF HookState
    <2> QED
      BY <1>2, <2>1 DEF HookTo
  <1>3. HookDone(k) => hook' \in [Hook -> HookState \cup {IdleHook}]
    BY DEF HookDone
  <1>4. ASSUME NextHash(k)
        PROVE  hook' \in [Hook -> HookState \cup {IdleHook}]
    <2>1. CASE hook[k].pos < Len(Payload[hook[k].ev].hashes)
      <3>1. Len(Payload[hook[k].ev].hashes) \in Nat
        BY <1>1, PayloadAssumption DEF HookState, Notice
      <3>2. [pc |-> "find", ev |-> hook[k].ev, pos |-> hook[k].pos + 1,
             bn |-> hook[k].bn, conf |-> hook[k].conf,
             details |-> Placeholder] \in HookState
        BY <1>1, <2>1, <3>1 DEF HookState, HookPC
      <3> QED
        BY <1>4, <2>1, <3>2 DEF NextHash
    <2>2. CASE ~ (hook[k].pos < Len(Payload[hook[k].ev].hashes))
      BY <1>3, <1>4, <2>2 DEF NextHash
    <2> QED
      BY <2>1, <2>2
  <1>5. "dedup" \in HookPC \ {"snapshot"}
    BY DEF HookPC
  <1> QED
    BY <1>2, <1>3, <1>4, <1>5 DEF ApplyOrNext

LEMMA HookStepType ==
    ASSUME StoreTypeOK, HookTypeOK, HookStep
    PROVE  StoreTypeOK' /\ HookTypeOK'
  <1> USE DEF StoreTypeOK, HookTypeOK
  <1> PICK k \in Hook :
           \/ \E e \in Event : Receive(k, e)
           \/ HookContinues(k)
           \/ HookAborts(k)
    BY DEF HookStep
  <1>1. ASSUME NEW e \in Event, Receive(k, e)
        PROVE  StoreTypeOK' /\ HookTypeOK'
    <2>1. Payload[e] \in Notice /\ Len(Payload[e].hashes) \in Nat \ {0}
      BY PayloadAssumption DEF Notice
    <2>2. PayloadBlock(e) \in Nat
      BY <2>1 DEF PayloadBlock, Notice, Block
    <2>3. PayloadConfs(e) \subseteq Nat
      <3>1. \A hd \in Heads : hd \in Nat
        BY DEF Heads
      <3>2. \A hd \in Heads : Confirmations(hd, PayloadBlock(e)) \in Nat
        BY <2>2, <3>1, ConfirmationsType
      <3> QED
        BY <3>2 DEF PayloadConfs
    <2>4. \A bn, conf \in Nat :
             [pc |-> "find", ev |-> e, pos |-> 1, bn |-> bn, conf |-> conf,
              details |-> Placeholder] \in HookState
      BY <2>1 DEF HookState, HookPC
    <2>5. hook' \in [Hook -> HookState \cup {IdleHook}]
      BY <1>1, <2>2, <2>3, <2>4 DEF Receive
    <2> QED
      BY <1>1, <2>5 DEF Receive, storeVars
  <1>2. CASE HookAborts(k)
    BY <1>2, HookMoves DEF HookAborts, storeVars
  <1>3. ASSUME HookContinues(k)
        PROVE  StoreTypeOK' /\ HookTypeOK'
    <2>1. hook[k] # IdleHook
      BY <1>3 DEF HookContinues, FindTransaction, NotifySender, NotifyReceiver,
                  Dedup, UpdateRow, CreateRow, Refresh, LookForReceipt,
                  HookSnapshot, SnapshotFails, IdleHook
    <2>2. /\ hook[k] \in HookState
          /\ HookHash(k) \in Hash
          /\ HookStatus(k) \in Settled
          /\ EventId(k) \in Event \cup {NoEvent}
      BY <2>1, HookHashType
    <2>3. /\ tx[HookHash(k)] \in Row
          /\ \A row \in Row : WebhookFields(row, k) \in Row
      BY <2>2 DEF WebhookFields, Row, Status, RowStatus, HookState
    <2>4. {"notify", "receiver", "dedup", "update", "create", "refresh", "look"}
             \subseteq HookPC \ {"snapshot"}
      BY DEF HookPC
    <2>5. CASE FindTransaction(k)
      BY <2>1, <2>4, <2>5, HookMoves DEF FindTransaction, storeVars
    <2>6. CASE NotifySender(k) \/ NotifyReceiver(k)
      BY <2>1, <2>2, <2>4, <2>6, HookMoves DEF NotifySender, NotifyReceiver, storeVars
    <2>7. CASE Dedup(k)
      BY <2>1, <2>4, <2>7, HookMoves DEF Dedup, storeVars
    <2>8. CASE UpdateRow(k)
      <3>1. tx' \in [Hash -> Row]
        BY <2>2, <2>3, <2>8 DEF UpdateRow
      <3>2. hook' \in [Hook -> HookState \cup {IdleHook}]
        BY <2>1, <2>4, <2>8, HookMoves DEF UpdateRow
      <3> QED
        BY <2>8, <3>1, <3>2 DEF UpdateRow, chainVars
    <2>9. CASE CreateRow(k)
      <3>1. UpsertedRow(k) \in Row
        BY <2>3, NewRowType DEF UpsertedRow
      <3>2. tx' \in [Hash -> Row] /\ rows' \in Nat
        BY <2>2, <2>9, <3>1 DEF CreateRow
      <3>3. hook' \in [Hook -> HookState \cup {IdleHook}]
        BY <2>1, <2>4, <2>9, HookMoves DEF CreateRow
      <3> QED
        BY <2>9, <3>2, <3>3 DEF CreateRow, chainVars
    <2>10. CASE Refresh(k)
      <3>1. [hook[k] EXCEPT !.pc = "look", !.details = tx[HookHash(k)].details]
              \in HookState
        BY <2>2, <2>3, <2>4 DEF HookState, Row
      <3>2. hook' \in [Hook -> HookState \cup {IdleHook}]
        BY <2>1, <2>10, <3>1, HookMoves DEF Refresh
      <3>3. pushed' \in [Hash -> Status]
        BY <2>2, <2>3, <2>10 DEF Refresh, Push, Row
      <3> QED
        BY <2>10, <3>2, <3>3 DEF Refresh, chainVars
    <2>11. CASE LookForReceipt(k)
      <3>1. EssentialsReady(hook[k].details) =>
               [hook[k] EXCEPT !.pc = "snapshot"] \in HookState
        BY <2>2 DEF EssentialsReady, HookState, HookPC
      <3>2. hook' \in [Hook -> HookState \cup {IdleHook}]
        BY <2>1, <2>11, <3>1, HookMoves DEF LookForReceipt, HookTo
      <3> QED
        BY <2>11, <3>2 DEF LookForReceipt, storeVars
    <2>12. CASE HookSnapshot(k)
      <3>1. [details |-> hook[k].details, source |-> "applyWebhookUpdate"] \in Receipt
        BY <2>2, <2>12 DEF HookSnapshot, HookState, Receipt, Source
      <3>2. receipt' \in [Hash -> Receipt \cup {NoReceipt}]
        BY <2>12, <3>1 DEF HookSnapshot, CreateSnapshot
      <3> QED
        BY <2>1, <2>12, <3>2, HookMoves DEF HookSnapshot, chainVars
    <2>13. CASE SnapshotFails(k)
      BY <2>1, <2>13, HookMoves DEF SnapshotFails, storeVars
    <2> QED
      BY <1>3, <2>5, <2>6, <2>7, <2>8, <2>9, <2>10, <2>11, <2>12, <2>13
         DEF HookContinues
  <1> QED
    BY <1>1, <1>2, <1>3

LEMMA JobStepType ==
    ASSUME StoreTypeOK, JobTypeOK, JobStep
    PROVE  StoreTypeOK' /\ JobTypeOK'
  <1> USE DEF StoreTypeOK, JobTypeOK
  <1> DEFINE JobTyped == job' \in [Job -> Asking \cup Writing \cup {IdleJob}]
  <1>1. ASSUME NEW j \in Job, NEW todo, job[j] \in Asking \cup Writing,
               todo \subseteq job[j].todo, Resume(j, todo)
        PROVE  JobTyped
    <2>1. [pc |-> "receipt", todo |-> todo, head |-> job[j].head] \in Asking
      BY <1>1 DEF Asking, Writing
    <2> QED
      BY <1>1, <2>1 DEF Resume
  <1>2. ASSUME NEW j \in Job, NEW hs \in SUBSET Hash, StartBatch(j, hs)
        PROVE  StoreTypeOK' /\ JobTypeOK'
    <2>1. \A h \in Hash : Listed(h) \in Entry
      BY DEF Listed, Entry, Row
    <2>2. [pc |-> "head", todo |-> {Listed(h) : h \in hs}, head |-> 0] \in Asking
      BY <2>1 DEF Asking
    <2> QED
      BY <1>2, <2>2 DEF StartBatch, storeVars
  <1>3. ASSUME NEW j \in Job, ListStale(j) \/ ListShallow(j)
        PROVE  StoreTypeOK' /\ JobTypeOK'
    BY <1>2, <1>3 DEF ListStale, ListShallow, AtMost, Stale, Shallow
  <1>4. ASSUME NEW j \in Job, Rectify(j) \/ BackfillRow(j)
        PROVE  StoreTypeOK' /\ JobTypeOK'
    <2>1. job[j] \in Writing
      BY <1>4 DEF Rectify, BackfillRow, Asking, IdleJob
    <2>2. /\ job[j].row.h \in Hash /\ job[j].fate \in {"ok", "failed", "missing"}
          /\ job[j].head \in Nat /\ job[j].bn \in Nat
      BY <2>1 DEF Writing, Entry
    <2>3. /\ Counted(tx[job[j].row.h], j) \in Row
          /\ Rectified(tx[job[j].row.h], j) \in Row
      <3>1. tx[job[j].row.h] \in Row
        BY <2>2
      <3>2. Counted(tx[job[j].row.h], j) \in Row
        BY <2>2, <3>1, ConfirmationsType DEF Counted, Row
      <3>3. \A row \in Row : \A s \in Settled : [row EXCEPT !.status = s] \in Row
        BY DEF Row, Status, RowStatus
      <3> QED
        BY <2>2, <3>1, <3>2, <3>3 DEF Rectified, Settled
    <2>4. tx' \in [Hash -> Row]
      BY <1>4, <2>3 DEF Rectify, BackfillRow
    <2>5. JobTyped
      BY <1>1, <1>4, <2>1 DEF Rectify, BackfillRow
    <2> QED
      BY <1>4, <2>4, <2>5 DEF Rectify, BackfillRow, chainVars
  <1>5. ASSUME NEW j \in Job, AskHead(j)
        PROVE  StoreTypeOK' /\ JobTypeOK'
    <2>1. job[j] \in Asking
      BY <1>5 DEF AskHead, Writing, IdleJob
    <2>2. \A hd \in 0..head :
             [pc |-> "receipt", todo |-> job[j].todo, head |-> hd] \in Asking
      BY <2>1 DEF Asking
    <2>3. JobTyped
      BY <1>5, <2>2 DEF AskHead
    <2> QED
      BY <1>5, <2>3 DEF AskHead, storeVars
  <1>6. ASSUME NEW j \in Job, HeadFails(j) \/ JobAborts(j)
        PROVE  StoreTypeOK' /\ JobTypeOK'
    BY <1>6 DEF HeadFails, JobAborts, storeVars
  <1>7. ASSUME NEW j \in Job, NEW h \in Hash, AskReceipt(j, h)
        PROVE  StoreTypeOK' /\ JobTypeOK'
    <2>1. job[j] \in Asking
      BY <1>7 DEF AskReceipt, Writing, IdleJob
    <2>2. Answers(h) \subseteq {"ok", "failed", "missing"} /\ chain[h].block \in Nat
      BY DEF Answers, Mined, Block
    <2>3. \A e \in job[j].todo, fate \in Answers(h) :
             [pc |-> "write", todo |-> job[j].todo \ {e}, head |-> job[j].head,
              row |-> e, fate |-> fate,
              bn |-> IF fate = "missing" THEN 0 ELSE chain[h].block] \in Writing
      BY <2>1, <2>2 DEF Asking, Writing
    <2>4. JobTyped
      BY <1>7, <2>3 DEF AskReceipt
    <2> QED
      BY <1>7, <2>4 DEF AskReceipt, storeVars
  <1>8. ASSUME NEW j \in Job, ReceiptFails(j)
        PROVE  StoreTypeOK' /\ JobTypeOK'
    <2>1. job[j] \in Asking
      BY <1>8 DEF ReceiptFails, Writing, IdleJob
    <2>2. JobTyped
      BY <1>1, <1>8, <2>1 DEF ReceiptFails
    <2> QED
      BY <1>8, <2>2 DEF ReceiptFails, storeVars
  <1> QED
    BY <1>3, <1>4, <1>5, <1>6, <1>7, <1>8 DEF JobStep, Job

LEMMA EnvironmentType ==
    ASSUME StoreTypeOK, Environment
    PROVE  StoreTypeOK'
  <1> USE DEF StoreTypeOK, Block
  <1>1. CASE MineBlock
    BY <1>1, HeadAssumption DEF MineBlock, tables
  <1>2. ASSUME NEW h \in Hash, DropTx(h)
        PROVE  StoreTypeOK'
    BY <1>2 DEF DropTx, tables
  <1>3. CASE Age
    BY <1>3 DEF Age, chainVars
  <1> QED
    BY <1>1, <1>2, <1>3 DEF Environment

LEMMA InitType == Init => TypeOK
  BY DEF Init, TypeOK, StoreInit, PostInit, HookInit, JobInit, StoreTypeOK, PostTypeOK,
         HookTypeOK, JobTypeOK, NoRow, Row, Status, Block

LEMMA NextType == TypeOK /\ [Next]_vars => TypeOK'
  <1> SUFFICES ASSUME TypeOK, [Next]_vars
               PROVE  TypeOK'
    OBVIOUS
  <1> USE DEF TypeOK
  <1>1. CASE PostStep /\ UNCHANGED <<hookVars, job>>
    BY <1>1, PostStepType DEF hookVars, HookTypeOK, JobTypeOK
  <1>2. CASE HookStep /\ UNCHANGED <<post, job>>
    BY <1>2, HookStepType DEF PostTypeOK, JobTypeOK
  <1>3. CASE JobStep /\ UNCHANGED <<post, hookVars>>
    BY <1>3, JobStepType DEF hookVars, PostTypeOK, HookTypeOK
  <1>4. CASE Environment /\ UNCHANGED <<post, hookVars, job>>
    BY <1>4, EnvironmentType DEF hookVars, PostTypeOK, HookTypeOK, JobTypeOK
  <1>5. CASE UNCHANGED vars
    BY <1>5 DEF vars, storeVars, hookVars, StoreTypeOK, PostTypeOK, HookTypeOK, JobTypeOK
  <1> QED
    BY <1>1, <1>2, <1>3, <1>4, <1>5 DEF Next

\* Every variable stays in its type, in particular no receipt ever holds
\* incomplete details.
THEOREM TypeCorrect == Spec => []TypeOK
  BY InitType, NextType, PTL DEF Spec

-----------------------------------------------------------------------------
\* What no step of anybody takes back: the verdict of the chain, the height of
\* the chain, the details posted and the existence of rows.

Grows ==
    /\ head <= head'
    /\ \A h \in Hash : chain[h].fate # "pool" => chain'[h] = chain[h]
    /\ posted \subseteq posted'
    /\ \A h \in Hash : Exists(h) => Exists(h)'

\* A step that leaves chain and posted details alone, and keeps rows, grows.
LEMMA GrowsWhenRowsStay ==
    ASSUME TypeOK, UNCHANGED chainVars, posted \subseteq posted',
           \A h \in Hash : Exists(h) => Exists(h)'
    PROVE  Grows
  BY DEF Grows, chainVars, TypeOK, StoreTypeOK

LEMMA PostStepGrows ==
    ASSUME TypeOK, PostStep
    PROVE  Grows
  <1> USE DEF TypeOK, StoreTypeOK
  <1> PICK p \in Poster :
           \/ \E h \in Hash, d \in Details : UpsertPending(p, h, d)
           \/ PostContinues(p)
           \/ PostAborts(p)
    BY DEF PostStep
  <1>1. ASSUME NEW h \in Hash, NEW d \in Details, UpsertPending(p, h, d)
        PROVE  Grows
    <2>1. PostedRow(h, d).status # "NONE"
      BY DEF PostedRow, Exists, Row, NewRow, NoRow
    <2>2. \A g \in Hash : Exists(g) => Exists(g)'
      BY <1>1, <2>1 DEF UpsertPending, Exists
    <2> QED
      BY <1>1, <2>2, GrowsWhenRowsStay DEF UpsertPending
  <1>2. CASE PostContinues(p) \/ PostAborts(p)
    <2>1. UNCHANGED <<tx, posted, chainVars>>
      BY <1>2 DEF PostContinues, PushAndLook, PostSnapshot, QuoteFails, PostAborts, storeVars,
                  chainVars
    <2> QED
      BY <2>1, GrowsWhenRowsStay DEF Exists
  <1> QED
    BY <1>1, <1>2

\* What a handler writes over a row has a status.
LEMMA WebhookRowExists ==
    ASSUME TypeOK, NEW k \in Hook, hook[k] # IdleHook
    PROVE  /\ \A row \in Row : WebhookFields(row, k).status = HookStatus(k)
           /\ UpsertedRow(k).status = HookStatus(k)
           /\ HookStatus(k) # "NONE"
  <1>1. HookHash(k) \in Hash /\ HookStatus(k) \in Settled
    BY HookHashType DEF TypeOK
  <1>2. \A row \in Row : WebhookFields(row, k).status = HookStatus(k)
    BY DEF WebhookFields, Row
  <1>3. NewRow \in Row /\ tx[HookHash(k)] \in Row
    BY <1>1, NewRowType DEF TypeOK, StoreTypeOK
  <1> QED
    BY <1>1, <1>2, <1>3 DEF UpsertedRow, Settled

LEMMA HookStepGrows ==
    ASSUME TypeOK, HookStep
    PROVE  Grows
  <1> USE DEF TypeOK, StoreTypeOK
  <1> PICK k \in Hook :
           \/ \E e \in Event : Receive(k, e)
           \/ HookContinues(k)
           \/ HookAborts(k)
    BY DEF HookStep
  <1>1. CASE UpdateRow(k) \/ CreateRow(k)
    <2>1. hook[k] # IdleHook
      BY <1>1 DEF UpdateRow, CreateRow, IdleHook
    <2>2. HookHash(k) \in Hash
      BY <2>1, HookHashType
    <2>3. \A h \in Hash : Exists(h) => Exists(h)'
      BY <1>1, <2>1, <2>2, WebhookRowExists DEF UpdateRow, CreateRow, Exists
    <2> QED
      BY <1>1, <2>3, GrowsWhenRowsStay DEF UpdateRow, CreateRow
  <1>2. CASE ~ (UpdateRow(k) \/ CreateRow(k))
    <2>1. UNCHANGED <<tx, posted, chainVars>>
      BY <1>2 DEF HookContinues, Receive, HookAborts, FindTransaction, NotifySender,
                  NotifyReceiver, Dedup, Refresh, LookForReceipt, HookSnapshot,
                  SnapshotFails, storeVars, chainVars
    <2> QED
      BY <2>1, GrowsWhenRowsStay DEF Exists
  <1> QED
    BY <1>1, <1>2

\* A job never removes a row either.
LEMMA JobStepGrows ==
    ASSUME TypeOK, JobStep
    PROVE  Grows
  <1> USE DEF TypeOK, StoreTypeOK
  <1>1. ASSUME NEW j \in Job, Rectify(j) \/ BackfillRow(j)
        PROVE  Grows
    <2>1. job[j] \in Writing
      BY <1>1 DEF Rectify, BackfillRow, Asking, IdleJob, JobTypeOK
    <2>2. job[j].row.h \in Hash
      BY <2>1 DEF Writing, Entry
    <2>3. \A row \in Row : row.status # "NONE" =>
             /\ Rectified(row, j).status # "NONE"
             /\ Counted(row, j).status # "NONE"
      BY DEF Rectified, Counted, Row
    <2>4. \A h \in Hash : Exists(h) => Exists(h)'
      BY <1>1, <2>2, <2>3 DEF Rectify, BackfillRow, Exists
    <2> QED
      BY <1>1, <2>4, GrowsWhenRowsStay DEF Rectify, BackfillRow
  <1>2. ASSUME UNCHANGED storeVars
        PROVE  Grows
    BY <1>2, GrowsWhenRowsStay DEF storeVars, chainVars, Exists
  <1> QED
    BY <1>1, <1>2 DEF JobStep, Job, ListStale, ListShallow, StartBatch, AskHead, HeadFails,
                      AskReceipt, ReceiptFails, JobAborts

LEMMA EnvironmentGrows ==
    ASSUME TypeOK, Environment
    PROVE  Grows
  <1> USE DEF TypeOK, StoreTypeOK, Grows
  <1>1. CASE MineBlock
    BY <1>1 DEF MineBlock, tables, Exists
  <1>2. ASSUME NEW h \in Hash, DropTx(h)
        PROVE  Grows
    BY <1>2 DEF DropTx, tables, Exists
  <1>3. CASE Age
    BY <1>3 DEF Age, chainVars, Exists
  <1> QED
    BY <1>1, <1>2, <1>3 DEF Environment

LEMMA NextGrows ==
    ASSUME TypeOK, [Next]_vars
    PROVE  Grows
  <1>1. CASE UNCHANGED vars
    BY <1>1, GrowsWhenRowsStay DEF vars, storeVars, chainVars, Exists
  <1> QED
    BY <1>1, PostStepGrows, HookStepGrows, JobStepGrows, EnvironmentGrows DEF Next

-----------------------------------------------------------------------------
\* What the steps of others leave of one's knowledge.

LEMMA ChainStays ==
    ASSUME TypeOK, ChainOK, [Next]_vars
    PROVE  ChainOK'
  <1> USE DEF TypeOK, StoreTypeOK, ChainOK, Mined, Block
  <1>1. CASE MineBlock
    BY <1>1 DEF MineBlock
  <1>2. ASSUME NEW h \in Hash, DropTx(h)
        PROVE  ChainOK'
    BY <1>2 DEF DropTx
  <1>3. CASE UNCHANGED chainVars
    BY <1>3 DEF chainVars
  <1>4. PostStep \/ JobStep => UNCHANGED chainVars
    BY DEF PostStep, UpsertPending, PostContinues, PushAndLook, PostSnapshot, QuoteFails,
           PostAborts, JobStep, ListStale, ListShallow, StartBatch, AskHead, HeadFails,
           AskReceipt, ReceiptFails, Rectify, BackfillRow, JobAborts, storeVars, chainVars
  <1>5. HookStep => UNCHANGED chainVars
    BY DEF HookStep, Receive, HookContinues, HookAborts, FindTransaction, NotifySender,
           NotifyReceiver, Dedup, UpdateRow, CreateRow, Refresh, LookForReceipt,
           HookSnapshot, SnapshotFails, storeVars, chainVars
  <1> QED
    BY <1>1, <1>2, <1>3, <1>4, <1>5
       DEF Next, Environment, Age, vars, storeVars, chainVars

LEMMA RowStays ==
    ASSUME TypeOK, ChainOK, Grows, NEW h \in Hash, RowOK(h), tx'[h] = tx[h], head' \in Nat
    PROVE  RowOK(h)'
  <1> USE DEF TypeOK, StoreTypeOK, Grows
  <1>1. (~ Exists(h) => tx[h] = NoRow)'
    BY DEF RowOK, Exists
  <1>2. (tx[h].details # Placeholder => <<h, tx[h].details>> \in posted)'
    BY DEF RowOK
  <1>3. StatusRight(h)'
    <2>1. CASE chain[h].fate = "pool"
      BY <2>1 DEF RowOK, StatusRight, Verdict, Settled
    <2>2. CASE chain[h].fate # "pool"
      BY <2>2 DEF RowOK, StatusRight
    <2> QED
      BY <2>1, <2>2
  <1>4. CountRight(h)'
    <2>1. chain[h].block \in Nat /\ tx[h].conf \in Nat
      BY DEF Block, Row
    <2>2. Mined(h) => chain'[h] = chain[h]
      BY DEF Mined
    <2> QED
      BY <2>1, <2>2 DEF RowOK, CountRight, Mined
  <1> QED
    BY <1>1, <1>2, <1>3, <1>4 DEF RowOK

LEMMA PostStays ==
    ASSUME TypeOK, Grows, NEW p \in Poster, PostOK(p), post'[p] = post[p]
    PROVE  PostOK(p)'
  <1>1. post[p] # IdlePost => post[p].h \in Hash
    BY DEF TypeOK, PostTypeOK, PostState
  <1> QED
    BY <1>1 DEF PostOK, Grows

LEMMA ReportStays ==
    ASSUME TypeOK, Grows, NEW e \in Event, Reported(e)
    PROVE  /\ Reported(e)'
           /\ \A i \in 1..Len(Payload[e].hashes) :
                 /\ Payload[e].hashes[i] \in Hash
                 /\ chain'[Payload[e].hashes[i]] = chain[Payload[e].hashes[i]]
  <1>1. /\ Payload[e] \in Notice
        /\ Len(Payload[e].hashes) \in Nat \ {0}
        /\ \A i \in 1..Len(Payload[e].hashes) : Payload[e].hashes[i] \in Hash
    BY PayloadAssumption DEF Notice
  <1>2. \A i \in 1..Len(Payload[e].hashes) : chain[Payload[e].hashes[i]].fate # "pool"
    BY <1>1 DEF Reported, Verdict, Notice, Settled
  <1>3. \A i \in 1..Len(Payload[e].hashes) :
           chain'[Payload[e].hashes[i]] = chain[Payload[e].hashes[i]]
    BY <1>1, <1>2 DEF Grows
  <1>4. 1 \in 1..Len(Payload[e].hashes)
    BY <1>1
  <1>5. Reported(e)'
    BY <1>3, <1>4 DEF Reported
  <1> QED
    BY <1>1, <1>3, <1>5

\* The hash at hand of a handler, in the terms of its event.
LEMMA HookHashIsReported ==
    ASSUME TypeOK, NEW k \in Hook, hook[k] # IdleHook, Reported(hook[k].ev)
    PROVE  /\ hook[k].ev \in Event /\ hook[k].pos \in 1..Len(Payload[hook[k].ev].hashes)
           /\ HookHash(k) \in Hash
           /\ Verdict(chain[HookHash(k)].fate) = HookStatus(k)
           /\ chain[HookHash(k)].block = chain[Payload[hook[k].ev].hashes[1]].block
           /\ HookStatus(k) \in Settled
  <1>1. hook[k] \in HookState /\ HookHash(k) \in Hash /\ HookStatus(k) \in Settled
    BY HookHashType DEF TypeOK
  <1>2. hook[k].ev \in Event /\ hook[k].pos \in 1..Len(Payload[hook[k].ev].hashes)
    BY <1>1, PayloadAssumption DEF HookState, Notice
  <1> QED
    BY <1>1, <1>2 DEF Reported, HookHash, HookStatus

LEMMA HookStays ==
    ASSUME TypeOK, Grows, NEW k \in Hook, HookOK(k), hook'[k] = hook[k], head' \in Nat
    PROVE  HookOK(k)'
  <1>1. CASE hook[k] = IdleHook
    BY <1>1 DEF HookOK
  <1>2. CASE hook[k] # IdleHook
    <2>1. hook[k] \in HookState
      BY <1>2, HookHashType DEF TypeOK
    <2>2. /\ hook[k].ev \in Event /\ hook[k].pos \in 1..Len(Payload[hook[k].ev].hashes)
          /\ HookHash(k) \in Hash
      BY <1>2, HookHashIsReported DEF HookOK
    <2>3. Reported(hook[k].ev)' /\ chain'[HookHash(k)] = chain[HookHash(k)]
      BY <1>2, <2>2, ReportStays DEF HookOK, HookHash
    <2>4. HookHash(k)' = HookHash(k)
      BY DEF HookHash
    <2>5. hook[k].conf \in Nat /\ hook[k].bn \in Nat /\ head \in Nat /\ head <= head'
      BY <2>1 DEF HookState, TypeOK, StoreTypeOK, Grows
    <2>6. Exists(HookHash(k)) => Exists(HookHash(k))'
      BY <2>2, <2>4 DEF Grows, Exists
    <2>7. posted \subseteq posted'
      BY DEF Grows
    <2>8. (hook[k].conf # 0 => hook[k].bn # 0 /\ hook[k].conf <= (head - hook[k].bn) + 1)'
      BY <1>2, <2>5 DEF HookOK
    <2>9. (hook[k].pc \in {"refresh", "look", "snapshot"} => Exists(HookHash(k)))'
      BY <1>2, <2>6 DEF HookOK
    <2>10. (hook[k].pc \in {"look", "snapshot"} /\ hook[k].details # Placeholder =>
               <<HookHash(k), hook[k].details>> \in posted)'
      BY <1>2, <2>4, <2>7 DEF HookOK
    <2>11. (hook[k].bn \in {0, chain[HookHash(k)].block})'
      BY <1>2, <2>3, <2>4 DEF HookOK
    <2> QED
      BY <2>3, <2>8, <2>9, <2>10, <2>11 DEF HookOK
  <1> QED
    BY <1>1, <1>2

LEMMA JobStays ==
    ASSUME TypeOK, Grows, NEW j \in Job, JobOK(j), job'[j] = job[j], head' \in Nat
    PROVE  JobOK(j)'
  <1>1. CASE job[j] = IdleJob
    BY <1>1 DEF JobOK
  <1>2. CASE job[j] # IdleJob
    <2>1. job[j] \in Asking \cup Writing
      BY <1>2 DEF TypeOK, JobTypeOK
    <2>2. job[j].head \in Nat /\ \A e \in job[j].todo : e.h \in Hash
      BY <2>1 DEF Asking, Writing, Entry
    <2>3. job[j].pc = "write" => job[j].row.h \in Hash
      BY <2>1 DEF Asking, Writing, Entry
    <2>4. head \in Nat /\ head <= head'
      BY DEF Grows, TypeOK, StoreTypeOK
    <2>5. (job[j].head <= head)'
      BY <1>2, <2>2, <2>4 DEF JobOK
    <2>6. (\A e \in job[j].todo : Exists(e.h))'
      BY <1>2, <2>2 DEF JobOK, Grows, Exists
    <2>7. job[j].pc = "write" /\ job[j].fate # "missing" =>
             chain'[job[j].row.h] = chain[job[j].row.h]
      BY <1>2, <2>1, <2>3 DEF JobOK, Grows, Asking, Writing
    <2>8. (job[j].pc = "write" => Exists(job[j].row.h))'
      BY <1>2, <2>3 DEF JobOK, Grows, Exists
    <2> QED
      BY <1>2, <2>5, <2>6, <2>7, <2>8 DEF JobOK
  <1> QED
    BY <1>1, <1>2

-----------------------------------------------------------------------------
\* The steps of the POST handlers.

LEMMA PostStepInv ==
    ASSUME IInv, PostStep, Grows, TypeOK'
    PROVE  /\ \A h \in Hash : RowOK(h)'
           /\ \A p \in Poster : PostOK(p)'
           /\ ReceiptsArePosted'
  <1>1. TypeOK /\ ChainOK /\ head' \in Nat
    BY DEF IInv, TypeOK, StoreTypeOK
  <1> PICK p \in Poster :
           \/ \E h \in Hash, d \in Details : UpsertPending(p, h, d)
           \/ PostContinues(p)
           \/ PostAborts(p)
    BY DEF PostStep
  <1>2. \A q \in Poster \ {p} : post'[q] = post[q]
    BY <1>1 DEF UpsertPending, PostContinues, PushAndLook, PostSnapshot, QuoteFails,
                PostAborts, PostDone, TypeOK, PostTypeOK
  <1>3. \A q \in Poster \ {p} : PostOK(q)'
    BY <1>1, <1>2, PostStays DEF IInv
  <1>4. ASSUME NEW h \in Hash, NEW d \in Details, UpsertPending(p, h, d)
        PROVE  /\ \A g \in Hash : RowOK(g)'
               /\ PostOK(p)'
               /\ ReceiptsArePosted'
    <2>1. tx \in [Hash -> Row] /\ tx' = [tx EXCEPT ![h] = PostedRow(h, d)]
      BY <1>1, <1>4 DEF UpsertPending, TypeOK, StoreTypeOK
    <2>2. \A g \in Hash \ {h} : RowOK(g)'
      BY <1>1, <2>1, RowStays DEF IInv
    <2>3. <<h, d>> \in posted' /\ posted \subseteq posted'
      BY <1>4 DEF UpsertPending
    <2>4. tx'[h].details = d /\ tx'[h].status # "NONE"
      BY <2>1 DEF PostedRow, Exists, Row, NewRow, NoRow
    <2>5. tx'[h].status \in {"PENDING", tx[h].status}
      BY <2>1 DEF PostedRow, Row, NewRow, NoRow
    <2>6. \/ tx'[h].bn = tx[h].bn /\ tx'[h].conf = tx[h].conf
          \/ tx'[h].bn = 0 /\ tx'[h].conf = 0
      BY <2>1 DEF PostedRow, Row, NewRow, NoRow
    <2>7. UNCHANGED chainVars
      BY <1>4 DEF UpsertPending
    <2>8. RowOK(h)'
      <3>1. RowOK(h)
        BY DEF IInv
      <3>2. StatusRight(h)' /\ CountRight(h)'
        BY <2>5, <2>6, <2>7, <3>1
           DEF RowOK, StatusRight, CountRight, Mined, chainVars, Settled
      <3> QED
        BY <2>3, <2>4, <3>2 DEF RowOK, Exists
    <2>9. post'[p].h = h /\ post'[p].details = d
      BY <1>1, <1>4 DEF UpsertPending, TypeOK, PostTypeOK
    <2>10. PostOK(p)'
      BY <2>3, <2>4, <2>9 DEF PostOK, Exists
    <2>11. ReceiptsArePosted'
      BY <1>4, <2>3 DEF IInv, ReceiptsArePosted, UpsertPending
    <2> QED
      BY <2>2, <2>8, <2>10, <2>11
  <1>5. ASSUME PostContinues(p) \/ PostAborts(p)
        PROVE  /\ \A h \in Hash : RowOK(h)'
               /\ PostOK(p)'
               /\ ReceiptsArePosted'
    <2>1. UNCHANGED <<tx, posted>>
      BY <1>5 DEF PostContinues, PushAndLook, PostSnapshot, QuoteFails, PostAborts, storeVars
    <2>2. \A h \in Hash : RowOK(h)'
      BY <1>1, <2>1, RowStays DEF IInv
    <2>3. post[p] # IdlePost
      BY <1>5 DEF PostContinues, PushAndLook, PostSnapshot, QuoteFails, PostAborts, IdlePost
    <2>4. post[p] \in PostState /\ PostOK(p)
      BY <1>1, <2>3 DEF IInv, TypeOK, PostTypeOK
    <2>5. post'[p] \in {IdlePost, [post[p] EXCEPT !.pc = "quote"]}
      BY <1>1, <1>5 DEF PostContinues, PushAndLook, PostSnapshot, QuoteFails, PostAborts,
                        PostDone, TypeOK, PostTypeOK
    <2>6. PostOK(p)'
      BY <2>1, <2>3, <2>4, <2>5 DEF PostOK, PostState, Exists
    <2>7. CASE PostSnapshot(p)
      <3>1. post[p].details \in Complete /\ <<post[p].h, post[p].details>> \in posted
        BY <2>3, <2>4, <2>7 DEF PostSnapshot, PostState, PostOK
      <3>2. \A h \in Hash : receipt'[h] # receipt[h] =>
               h = post[p].h /\ receipt'[h].details = post[p].details
        BY <1>1, <2>7 DEF PostSnapshot, CreateSnapshot, TypeOK, StoreTypeOK
      <3> QED
        BY <2>1, <2>2, <2>6, <3>1, <3>2 DEF IInv, ReceiptsArePosted
    <2>8. CASE ~ PostSnapshot(p)
      <3>1. UNCHANGED receipt
        BY <1>5, <2>8 DEF PostContinues, PushAndLook, QuoteFails, PostAborts, storeVars
      <3> QED
        BY <2>1, <2>2, <2>6, <3>1 DEF IInv, ReceiptsArePosted
    <2> QED
      BY <2>7, <2>8
  <1> QED
    BY <1>3, <1>4, <1>5

-----------------------------------------------------------------------------
\* The steps of the webhook handlers.

LEMMA HookMovesKnow ==
    ASSUME TypeOK, ChainOK, Grows, NEW k \in Hook, hook[k] # IdleHook, HookOK(k),
           UNCHANGED chainVars
    PROVE  /\ \A pc \in {"notify", "receiver", "dedup", "update", "create"} :
                 HookTo(k, pc) => HookOK(k)'
           /\ HookDone(k) => HookOK(k)'
           /\ NextHash(k) => HookOK(k)'
           /\ ApplyOrNext(k) => HookOK(k)'
  <1>1. hook[k] \in HookState /\ hook \in [Hook -> HookState \cup {IdleHook}]
    BY HookHashType DEF TypeOK, HookTypeOK
  <1> PICK e \in Event : e = hook[k].ev
    BY <1>1 DEF HookState
  <1>2. Reported(e) /\ Reported(e)'
    BY <1>1, ReportStays DEF HookOK
  <1>3. ASSUME NEW pc \in {"notify", "receiver", "dedup", "update", "create"}, HookTo(k, pc)
        PROVE  HookOK(k)'
    <2>1. hook'[k] = [hook[k] EXCEPT !.pc = pc]
      BY <1>1, <1>3 DEF HookTo
    <2>2. /\ hook'[k].pc = pc /\ hook'[k].ev = hook[k].ev /\ hook'[k].pos = hook[k].pos
          /\ hook'[k].bn = hook[k].bn /\ hook'[k].conf = hook[k].conf
      BY <1>1, <2>1 DEF HookState
    <2> QED
      BY <1>2, <2>2 DEF HookOK, HookHash, chainVars
  <1>4. HookDone(k) => HookOK(k)'
    BY <1>1 DEF HookDone, HookOK
  <1>5. ASSUME NextHash(k), ~ HookDone(k)
        PROVE  HookOK(k)'
    <2>1. /\ hook[k].pos < Len(Payload[hook[k].ev].hashes)
          /\ hook'[k] = [pc |-> "find", ev |-> hook[k].ev, pos |-> hook[k].pos + 1,
                         bn |-> hook[k].bn, conf |-> hook[k].conf,
                         details |-> Placeholder]
      BY <1>1, <1>5 DEF NextHash
    <2>2. hook[k].pos + 1 \in 1..Len(Payload[hook[k].ev].hashes)
      BY <1>1, <2>1, PayloadAssumption DEF HookState, Notice
    <2>3. chain[Payload[hook[k].ev].hashes[hook[k].pos + 1]].block
             = chain[HookHash(k)].block
      BY <1>2, <2>2, HookHashIsReported DEF Reported
    <2>4. HookHash(k)' = Payload[hook[k].ev].hashes[hook[k].pos + 1]
      BY <2>1 DEF HookHash
    <2> QED
      BY <1>2, <2>1, <2>3, <2>4 DEF HookOK, chainVars
  <1>6. ApplyOrNext(k) => HookTo(k, "dedup") \/ NextHash(k)
    BY DEF ApplyOrNext
  <1> QED
    BY <1>3, <1>4, <1>5, <1>6

\* What a handler writes to the row of the hash at hand is right.
LEMMA WebhookWritesRight ==
    ASSUME IInv, Grows, TypeOK', NEW k \in Hook, hook[k] # IdleHook, UNCHANGED <<chainVars, posted>>,
           tx' = [tx EXCEPT ![HookHash(k)] = UpsertedRow(k)]
    PROVE  /\ \A h \in Hash : RowOK(h)'
           /\ tx'[HookHash(k)].status # "NONE"
  <1>1. TypeOK /\ ChainOK /\ HookOK(k) /\ head' \in Nat
    BY DEF IInv, TypeOK, StoreTypeOK
  <1> PICK g \in Hash : g = HookHash(k)
    BY HookHashType, <1>1 DEF TypeOK
  <1>2. /\ g \in Hash /\ Verdict(chain[g].fate) = HookStatus(k) /\ HookStatus(k) \in Settled
    BY <1>1, HookHashIsReported DEF HookOK
  <1>3. tx \in [Hash -> Row] /\ tx[g] \in Row /\ NewRow \in Row
    BY <1>1, <1>2, NewRowType DEF TypeOK, StoreTypeOK
  <1>4. \A h \in Hash \ {g} : RowOK(h)'
    BY <1>1, <1>3, RowStays DEF IInv
  <1>5. /\ tx'[g].status = HookStatus(k) /\ tx'[g].bn = hook[k].bn
        /\ tx'[g].conf = hook[k].conf
        /\ tx'[g].details \in {tx[g].details, Placeholder}
    <2>1. tx'[g] = UpsertedRow(k)
      BY <1>2, <1>3
    <2>2. \A row \in Row : /\ WebhookFields(row, k).status = HookStatus(k)
                           /\ WebhookFields(row, k).bn = hook[k].bn
                           /\ WebhookFields(row, k).conf = hook[k].conf
                           /\ WebhookFields(row, k).details = row.details
      BY DEF WebhookFields, Row
    <2> QED
      BY <1>3, <2>1, <2>2 DEF UpsertedRow, NewRow, NoRow
  <1>6. hook[k] \in HookState /\ chain[g] \in Block
    BY <1>1, <1>2, HookHashType DEF TypeOK, StoreTypeOK
  <1>7. CountRight(g)'
    <2>1. hook[k].bn # 0 => Mined(g) /\ hook[k].bn = chain[g].block
      BY <1>1, <1>2 DEF HookOK, ChainOK
    <2>2. hook[k].conf # 0 => Mined(g) /\ hook[k].conf <= (head - chain[g].block) + 1
      BY <1>1, <2>1 DEF HookOK
    <2> QED
      BY <1>5, <2>1, <2>2 DEF CountRight, Mined, chainVars
  <1>8. StatusRight(g)'
    BY <1>2, <1>5 DEF StatusRight, chainVars
  <1>9. Exists(g)'
    BY <1>2, <1>5 DEF Exists, Settled
  <1>10. (tx[g].details # Placeholder => <<g, tx[g].details>> \in posted)'
    BY <1>2, <1>5 DEF IInv, RowOK
  <1>11. RowOK(g)'
    BY <1>7, <1>8, <1>9, <1>10 DEF RowOK
  <1>12. \A h \in Hash : RowOK(h)'
    BY <1>4, <1>11
  <1> QED
    BY <1>9, <1>12 DEF Exists

LEMMA HookStepInv ==
    ASSUME IInv, HookStep, Grows, TypeOK'
    PROVE  /\ \A h \in Hash : RowOK(h)'
           /\ \A k \in Hook : HookOK(k)'
           /\ ReceiptsArePosted'
  <1>1. TypeOK /\ ChainOK /\ head' \in Nat
    BY DEF IInv, TypeOK, StoreTypeOK
  <1> PICK k \in Hook :
           \/ \E e \in Event : Receive(k, e)
           \/ HookContinues(k)
           \/ HookAborts(k)
    BY DEF HookStep
  <1>2. hook \in [Hook -> HookState \cup {IdleHook}] /\ HookOK(k)
    BY <1>1 DEF IInv, TypeOK, HookTypeOK
  <1>3. UNCHANGED <<chainVars, posted>>
    BY DEF Receive, HookContinues, HookAborts, FindTransaction, NotifySender,
           NotifyReceiver, Dedup, UpdateRow, CreateRow, Refresh, LookForReceipt,
           HookSnapshot, SnapshotFails, storeVars, chainVars
  <1>4. \A i \in Hook \ {k} : HookOK(i)'
    <2>1. \A i \in Hook \ {k} : hook'[i] = hook[i]
      BY <1>2 DEF Receive, HookContinues, HookAborts, FindTransaction, NotifySender,
                  NotifyReceiver, Dedup, UpdateRow, CreateRow, Refresh, LookForReceipt,
                  HookSnapshot, SnapshotFails, HookTo, HookDone, NextHash, ApplyOrNext
    <2> QED
      BY <1>1, <2>1, HookStays DEF IInv
  <1>5. UNCHANGED tx => \A h \in Hash : RowOK(h)'
    BY <1>1, RowStays DEF IInv
  <1>6. UNCHANGED receipt => ReceiptsArePosted'
    BY <1>3 DEF IInv, ReceiptsArePosted
  <1>7. ASSUME NEW e \in Event, Receive(k, e)
        PROVE  /\ \A h \in Hash : RowOK(h)'
               /\ HookOK(k)'
               /\ ReceiptsArePosted'
    <2>1. UNCHANGED storeVars
      BY <1>7 DEF Receive
    <2>2. PICK conf \in PayloadConfs(e) :
             hook'[k] = [pc |-> "find", ev |-> e, pos |-> 1, bn |-> PayloadBlock(e),
                         conf |-> conf, details |-> Placeholder]
      BY <1>2, <1>7 DEF Receive
    <2>3. Reported(e) /\ Reported(e)'
      BY <1>1, <1>7, ReportStays DEF Receive
    <2>4. Payload[e].hashes[1] \in Hash
      BY PayloadAssumption DEF Notice
    <2>5. HookHash(k)' = Payload[e].hashes[1]
      BY <2>2 DEF HookHash
    <2>6. PayloadBlock(e) \in {0, chain[Payload[e].hashes[1]].block}
      BY DEF PayloadBlock
    <2>7. /\ PayloadBlock(e) \in Nat /\ PayloadBlock(e) <= head /\ head \in Nat
          /\ \A hd \in Heads : hd \in Nat /\ hd <= head
      BY <1>1, <2>4, <2>6 DEF ChainOK, TypeOK, StoreTypeOK, Block, Heads
    <2>8. conf # 0 => PayloadBlock(e) # 0 /\ conf <= (head - PayloadBlock(e)) + 1
      BY <2>2, <2>7 DEF PayloadConfs, Confirmations
    <2>9. HookOK(k)'
      BY <1>3, <2>2, <2>3, <2>5, <2>6, <2>8 DEF HookOK, chainVars
    <2> QED
      BY <1>5, <1>6, <2>1, <2>9 DEF storeVars
  <1>8. ASSUME HookContinues(k) \/ HookAborts(k)
        PROVE  /\ \A h \in Hash : RowOK(h)'
               /\ HookOK(k)'
               /\ ReceiptsArePosted'
    <2>1. hook[k] # IdleHook /\ hook[k] \in HookState
      <3>1. hook[k] # IdleHook
        BY <1>8 DEF HookContinues, HookAborts, FindTransaction, NotifySender, NotifyReceiver,
                    Dedup, UpdateRow, CreateRow, Refresh, LookForReceipt, HookSnapshot,
                    SnapshotFails, IdleHook
      <3> QED
        BY <1>2, <3>1
    <2>2. /\ HookHash(k) \in Hash /\ Reported(hook[k].ev) /\ HookStatus(k) \in Settled
          /\ hook[k].ev \in Event
      BY <1>1, <1>2, <2>1, HookHashIsReported DEF HookOK, HookState
    <2>3. /\ \A pc \in {"notify", "receiver", "dedup", "update", "create"} :
                 HookTo(k, pc) => HookOK(k)'
          /\ HookDone(k) => HookOK(k)'
          /\ NextHash(k) => HookOK(k)'
          /\ ApplyOrNext(k) => HookOK(k)'
      BY <1>1, <1>2, <1>3, <2>1, HookMovesKnow
    <2>4. CASE \/ FindTransaction(k) \/ NotifySender(k) \/ NotifyReceiver(k)
               \/ Dedup(k) \/ SnapshotFails(k) \/ HookAborts(k)
      <3>1. UNCHANGED <<tx, receipt>>
        BY <2>4 DEF FindTransaction, NotifySender, NotifyReceiver, Dedup, SnapshotFails,
                    HookAborts, storeVars
      <3>2. HookOK(k)'
        BY <2>3, <2>4 DEF FindTransaction, NotifySender, NotifyReceiver, Dedup,
                          SnapshotFails, HookAborts
      <3> QED
        BY <1>5, <1>6, <3>1, <3>2
    <2>5. ASSUME tx' = [tx EXCEPT ![HookHash(k)] = UpsertedRow(k)], HookTo(k, "refresh"),
                 UNCHANGED receipt
          PROVE  /\ \A h \in Hash : RowOK(h)'
                 /\ HookOK(k)'
                 /\ ReceiptsArePosted'
      <3>1. (\A h \in Hash : RowOK(h)') /\ tx'[HookHash(k)].status # "NONE"
        BY <1>3, <2>1, <2>5, WebhookWritesRight
      <3>2. /\ hook'[k].pc = "refresh" /\ hook'[k].ev = hook[k].ev
            /\ hook'[k].pos = hook[k].pos /\ hook'[k].bn = hook[k].bn
            /\ hook'[k].conf = hook[k].conf
        BY <1>2, <2>1, <2>5 DEF HookTo, HookState
      <3>3. HookHash(k)' = HookHash(k)
        BY <3>2 DEF HookHash
      <3>4. PICK e \in Event : e = hook[k].ev /\ Reported(e)'
        BY <1>1, <2>2, ReportStays
      <3>5. HookOK(k)'
        BY <1>2, <1>3, <2>1, <3>1, <3>2, <3>3, <3>4 DEF HookOK, Exists, chainVars
      <3> QED
        BY <1>6, <2>5, <3>1, <3>5
    <2>6. CASE UpdateRow(k) \/ CreateRow(k)
      <3>1. CASE HookTo(k, "create") \/ HookDone(k)
        <4>1. UNCHANGED <<tx, receipt>>
          <5>1. "create" # "refresh" /\ hook'[k].pc # "refresh"
            BY <1>2, <2>1, <3>1 DEF HookTo, HookDone, IdleHook, HookState
          <5>2. ~ HookTo(k, "refresh")
            BY <1>2, <2>1, <5>1 DEF HookTo, HookState
          <5> QED
            BY <2>6, <5>2 DEF UpdateRow, CreateRow
        <4> QED
          BY <1>5, <1>6, <2>3, <3>1, <4>1
      <3>2. CASE ~ (HookTo(k, "create") \/ HookDone(k))
        <4>1. /\ tx' = [tx EXCEPT ![HookHash(k)] = UpsertedRow(k)]
              /\ HookTo(k, "refresh")
              /\ UNCHANGED receipt
          BY <2>6, <3>2 DEF UpdateRow, CreateRow, UpsertedRow
        <4> QED
          BY <2>5, <4>1
      <3> QED
        BY <3>1, <3>2
    <2>7. CASE Refresh(k)
      <3>1. UNCHANGED <<tx, receipt>>
        BY <2>7 DEF Refresh
      <3>2. CASE NextHash(k)
        BY <1>5, <1>6, <2>3, <3>1, <3>2
      <3>3. CASE ~ NextHash(k)
        <4>1. hook'[k] = [hook[k] EXCEPT !.pc = "look", !.details = tx[HookHash(k)].details]
          BY <1>2, <2>7, <3>3 DEF Refresh
        <4>2. /\ hook'[k].pc = "look" /\ hook'[k].ev = hook[k].ev
              /\ hook'[k].pos = hook[k].pos /\ hook'[k].bn = hook[k].bn
              /\ hook'[k].conf = hook[k].conf /\ hook'[k].details = tx[HookHash(k)].details
          BY <2>1, <4>1 DEF HookState
        <4>3. HookHash(k)' = HookHash(k)
          BY <4>2 DEF HookHash
        <4>4. PICK e \in Event : e = hook[k].ev /\ Reported(e)'
          BY <1>1, <2>2, ReportStays
        <4>5. /\ Exists(HookHash(k))
              /\ tx[HookHash(k)].details # Placeholder =>
                    <<HookHash(k), tx[HookHash(k)].details>> \in posted
          BY <1>2, <2>1, <2>2, <2>7 DEF Refresh, HookOK, IInv, RowOK
        <4>6. HookOK(k)'
          BY <1>2, <1>3, <2>1, <3>1, <4>2, <4>3, <4>4, <4>5 DEF HookOK, Exists, chainVars
        <4> QED
          BY <1>5, <1>6, <3>1, <4>6
      <3> QED
        BY <3>2, <3>3
    <2>8. CASE LookForReceipt(k)
      <3>1. UNCHANGED <<tx, receipt>>
        BY <2>8 DEF LookForReceipt, storeVars
      <3>2. CASE NextHash(k)
        BY <1>5, <1>6, <2>3, <3>1, <3>2
      <3>3. CASE ~ NextHash(k)
        <4>1. hook'[k] = [hook[k] EXCEPT !.pc = "snapshot"]
          BY <1>2, <2>8, <3>3 DEF LookForReceipt, HookTo
        <4>2. /\ hook'[k].pc = "snapshot" /\ hook'[k].ev = hook[k].ev
              /\ hook'[k].pos = hook[k].pos /\ hook'[k].bn = hook[k].bn
              /\ hook'[k].conf = hook[k].conf /\ hook'[k].details = hook[k].details
          BY <2>1, <4>1 DEF HookState
        <4>3. HookHash(k)' = HookHash(k)
          BY <4>2 DEF HookHash
        <4>4. PICK e \in Event : e = hook[k].ev /\ Reported(e)'
          BY <1>1, <2>2, ReportStays
        <4>5. hook[k].pc = "look"
          BY <2>8 DEF LookForReceipt
        <4>6. HookOK(k)'
          BY <1>2, <1>3, <2>1, <3>1, <4>2, <4>3, <4>4, <4>5 DEF HookOK, Exists, chainVars
        <4> QED
          BY <1>5, <1>6, <3>1, <4>6
      <3> QED
        BY <3>2, <3>3
    <2>9. CASE HookSnapshot(k)
      <3>1. UNCHANGED tx /\ HookOK(k)'
        BY <2>3, <2>9 DEF HookSnapshot
      <3>2. /\ hook[k].details \in Complete
            /\ <<HookHash(k), hook[k].details>> \in posted
        BY <1>2, <2>1, <2>9, DetailsAssumption DEF HookSnapshot, HookState, HookOK
      <3>3. \A h \in Hash : receipt'[h] # receipt[h] =>
               h = HookHash(k) /\ receipt'[h].details = hook[k].details
        BY <1>1, <2>9 DEF HookSnapshot, CreateSnapshot, TypeOK, StoreTypeOK
      <3>4. ReceiptsArePosted'
        BY <1>3, <3>2, <3>3 DEF IInv, ReceiptsArePosted
      <3> QED
        BY <1>5, <3>1, <3>4
    <2> QED
      BY <1>8, <2>4, <2>6, <2>7, <2>8, <2>9 DEF HookContinues
  <1> QED
    BY <1>4, <1>7, <1>8

-----------------------------------------------------------------------------
\* The steps of the jobs, and of the chain and the clock.

\* Counting from a head that is not ahead does not overstate.
LEMMA CountedRight ==
    ASSUME NEW hd \in Nat, NEW bn \in Nat, NEW top \in Nat, hd <= top, 0 < bn, bn <= top
    PROVE  Confirmations(hd, bn) <= (top - bn) + 1
  BY DEF Confirmations

LEMMA JobStepInv ==
    ASSUME IInv, JobStep, Grows, TypeOK'
    PROVE  /\ \A h \in Hash : RowOK(h)'
           /\ \A j \in Job : JobOK(j)'
           /\ ReceiptsArePosted'
  <1>1. TypeOK /\ ChainOK /\ head' \in Nat /\ head \in Nat
    BY DEF IInv, TypeOK, StoreTypeOK
  <1>2. job \in [Job -> Asking \cup Writing \cup {IdleJob}]
    BY <1>1 DEF TypeOK, JobTypeOK
  <1> PICK j \in Job :
           \/ ListStale(j) \/ ListShallow(j) \/ Rectify(j) \/ BackfillRow(j)
           \/ AskHead(j) \/ HeadFails(j) \/ (\E h \in Hash : AskReceipt(j, h))
           \/ ReceiptFails(j) \/ JobAborts(j)
    BY DEF JobStep, Job
  <1>3. UNCHANGED <<chainVars, posted, receipt>>
    BY DEF ListStale, ListShallow, StartBatch, Rectify, BackfillRow, AskHead, HeadFails,
           AskReceipt, ReceiptFails, JobAborts, storeVars, chainVars
  <1>4. ReceiptsArePosted'
    BY <1>3 DEF IInv, ReceiptsArePosted
  <1>5. \A i \in Job \ {j} : JobOK(i)'
    <2>1. \A i \in Job \ {j} : job'[i] = job[i]
      BY <1>2 DEF ListStale, ListShallow, StartBatch, Rectify, BackfillRow, AskHead,
                  HeadFails, AskReceipt, ReceiptFails, JobAborts, Resume
    <2> QED
      BY <1>1, <2>1, JobStays DEF IInv
  <1>6. UNCHANGED tx => \A h \in Hash : RowOK(h)'
    BY <1>1, RowStays DEF IInv
  <1>7. JobOK(j)
    BY DEF IInv
  <1>8. ASSUME NEW todo, job[j] \in Asking \cup Writing, todo \subseteq job[j].todo, Resume(j, todo)
        PROVE  JobOK(j)'
    <2>1. job'[j] \in {IdleJob, [pc |-> "receipt", todo |-> todo, head |-> job[j].head]}
      BY <1>2, <1>8 DEF Resume
    <2>2. job[j] # IdleJob /\ \A e \in todo : e.h \in Hash
      BY <1>8 DEF Asking, Writing, IdleJob, Entry
    <2>3. job[j].head \in Nat /\ job[j].head <= head'
      BY <1>1, <1>3, <1>7, <1>8, <2>2 DEF JobOK, Asking, Writing, chainVars
    <2>4. \A e \in todo : Exists(e.h)'
      BY <1>7, <1>8, <2>2 DEF JobOK, Grows
    <2> QED
      BY <2>1, <2>3, <2>4 DEF JobOK, Exists
  <1>9. ASSUME NEW hs \in SUBSET Hash, StartBatch(j, hs), \A h \in hs : Exists(h)
        PROVE  (\A h \in Hash : RowOK(h)') /\ JobOK(j)'
    <2>1. UNCHANGED tx
      BY <1>9 DEF StartBatch, storeVars
    <2>2. job'[j] = [pc |-> "head", todo |-> {Listed(h) : h \in hs}, head |-> 0]
      BY <1>2, <1>9 DEF StartBatch
    <2>3. \A h \in hs : Listed(h).h = h /\ tx'[h].status # "NONE"
      BY <1>9, <2>1 DEF Listed, Exists
    <2>4. JobOK(j)'
      BY <1>1, <2>2, <2>3 DEF JobOK, Exists
    <2> QED
      BY <1>6, <2>1, <2>4
  <1>10. CASE ListStale(j) \/ ListShallow(j)
    <2>1. PICK hs \in SUBSET Hash : StartBatch(j, hs) /\ \A h \in hs : Exists(h)
      BY <1>10 DEF ListStale, ListShallow, AtMost, Stale, Shallow, Exists
    <2> QED
      BY <1>4, <1>5, <1>9, <2>1
  <1>11. CASE Rectify(j) \/ BackfillRow(j)
    <2>1. job[j] \in Writing /\ job[j].pc = "write" /\ job[j] # IdleJob
      BY <1>2, <1>11 DEF Rectify, BackfillRow, Asking, IdleJob
    <2>2. JobOK(j)'
      BY <1>8, <1>11, <2>1 DEF Rectify, BackfillRow
    <2> PICK g \in Hash : g = job[j].row.h
      BY <2>1 DEF Writing, Entry
    <2>3. /\ tx \in [Hash -> Row] /\ tx[g] \in Row /\ chain[g] \in Block
          /\ job[j].head \in Nat /\ job[j].bn \in Nat
          /\ job[j].fate \in {"ok", "failed", "missing"}
      BY <1>1, <2>1 DEF TypeOK, StoreTypeOK, Writing
    <2>4. /\ Exists(g)
          /\ job[j].head <= head
          /\ job[j].fate # "missing" => chain[g] = [fate |-> job[j].fate, block |-> job[j].bn]
      BY <1>7, <2>1 DEF JobOK
    <2>5. RowOK(g)
      BY DEF IInv
    <2>6. job[j].fate # "missing" =>
             /\ Mined(g) /\ job[j].bn = chain[g].block
             /\ 0 < job[j].bn /\ job[j].bn <= head
      BY <1>1, <2>3, <2>4 DEF Mined, ChainOK, Block
    <2>7. job[j].fate # "missing" =>
             /\ Counted(tx[g], j).bn = chain[g].block
             /\ Counted(tx[g], j).conf <= (head - chain[g].block) + 1
             /\ Counted(tx[g], j).details = tx[g].details
             /\ Counted(tx[g], j).status = tx[g].status
             /\ Counted(tx[g], j) \in Row
      BY <1>1, <2>3, <2>4, <2>6, CountedRight, ConfirmationsType DEF Counted, Row
    <2>8. tx'[g] \in {tx[g], Rectified(tx[g], j), Counted(tx[g], j)}
      BY <1>11, <2>3 DEF Rectify, BackfillRow
    <2>9. tx'[g].details = tx[g].details
      BY <1>11, <2>3, <2>7 DEF Rectify, BackfillRow, Rectified, Row
    <2>10. CountRight(g)'
      <3>1. CASE tx'[g].bn = tx[g].bn /\ tx'[g].conf = tx[g].conf
        BY <1>3, <2>5, <3>1 DEF RowOK, CountRight, Mined, chainVars
      <3>2. CASE ~ (tx'[g].bn = tx[g].bn /\ tx'[g].conf = tx[g].conf)
        <4>1. /\ job[j].fate # "missing"
              /\ tx'[g].bn = Counted(tx[g], j).bn /\ tx'[g].conf = Counted(tx[g], j).conf
          BY <1>11, <2>3, <2>7, <3>2 DEF Rectify, BackfillRow, Rectified, Row
        <4> QED
          BY <1>3, <2>6, <2>7, <4>1 DEF CountRight, Mined, chainVars
      <3> QED
        BY <3>1, <3>2
    <2>11. StatusRight(g)' /\ tx'[g].status # "NONE"
      <3>1. CASE Rectify(j)
        <4>1. tx'[g] = Rectified(tx[g], j)
          BY <2>3, <3>1 DEF Rectify
        <4>2. CASE job[j].fate = "missing"
          <5>1. tx'[g].status \in {tx[g].status, "EXPIRED"}
            BY <2>3, <4>1, <4>2 DEF Rectified, Row
          <5> QED
            BY <1>3, <2>4, <2>5, <5>1 DEF StatusRight, RowOK, Exists, chainVars
        <4>3. CASE job[j].fate # "missing"
          <5>1. tx'[g].status = Verdict(job[j].fate)
            BY <2>3, <2>7, <4>1, <4>3 DEF Rectified, Row, Verdict
          <5>2. chain'[g].fate = job[j].fate
            BY <1>3, <2>4, <4>3 DEF chainVars
          <5> QED
            BY <2>3, <4>3, <5>1, <5>2 DEF StatusRight, Verdict
        <4> QED
          BY <4>2, <4>3
      <3>2. CASE BackfillRow(j)
        <4>1. tx'[g].status = tx[g].status
          BY <2>3, <2>7, <3>2 DEF BackfillRow
        <4> QED
          BY <1>3, <2>4, <2>5, <4>1 DEF StatusRight, RowOK, Exists, chainVars
      <3> QED
        BY <1>11, <3>1, <3>2
    <2>12. RowOK(g)'
      BY <1>3, <2>5, <2>9, <2>10, <2>11 DEF RowOK, Exists
    <2>13. \A h \in Hash \ {g} : tx'[h] = tx[h]
      BY <1>11, <2>3 DEF Rectify, BackfillRow
    <2>14. \A h \in Hash : RowOK(h)'
      BY <1>1, <2>12, <2>13, RowStays DEF IInv
    <2> QED
      BY <1>4, <1>5, <2>2, <2>14
  <1>12. CASE AskHead(j)
    <2>1. job[j] \in Asking /\ job[j] # IdleJob
      BY <1>2, <1>12 DEF AskHead, Writing, IdleJob
    <2>2. PICK hd \in 0..head :
             job'[j] = [pc |-> "receipt", todo |-> job[j].todo, head |-> hd]
      BY <1>1, <1>2, <1>12 DEF AskHead
    <2>3. UNCHANGED <<tx, head>>
      BY <1>12 DEF AskHead, storeVars
    <2>4. JobOK(j)'
      BY <1>1, <1>7, <2>1, <2>2, <2>3 DEF JobOK, Exists
    <2> QED
      BY <1>4, <1>5, <1>6, <2>3, <2>4
  <1>13. CASE HeadFails(j) \/ JobAborts(j)
    <2>1. UNCHANGED tx /\ job'[j] = IdleJob
      BY <1>2, <1>13 DEF HeadFails, JobAborts, storeVars
    <2> QED
      BY <1>4, <1>5, <1>6, <2>1 DEF JobOK
  <1>14. ASSUME NEW h \in Hash, AskReceipt(j, h)
         PROVE  (\A g \in Hash : RowOK(g)') /\ JobOK(j)'
    <2>1. job[j] \in Asking /\ job[j] # IdleJob
      BY <1>2, <1>14 DEF AskReceipt, Writing, IdleJob
    <2>2. PICK e \in job[j].todo, fate \in Answers(h) :
             /\ e.h = h
             /\ job'[j] = [pc |-> "write", todo |-> job[j].todo \ {e}, head |-> job[j].head,
                           row |-> e, fate |-> fate,
                           bn |-> IF fate = "missing" THEN 0 ELSE chain[h].block]
      BY <1>2, <1>14 DEF AskReceipt
    <2>3. UNCHANGED storeVars
      BY <1>14 DEF AskReceipt
    <2>4. fate # "missing" => chain[h] = [fate |-> fate, block |-> chain[h].block]
      BY <1>1, <2>2 DEF Answers, TypeOK, StoreTypeOK, Block
    <2>5. JobOK(j)'
      BY <1>7, <2>1, <2>2, <2>3, <2>4 DEF JobOK, Exists, storeVars
    <2> QED
      BY <1>6, <2>3, <2>5 DEF storeVars
  <1>15. CASE ReceiptFails(j)
    <2>1. job[j] \in Asking
      BY <1>2, <1>15 DEF ReceiptFails, Writing, IdleJob
    <2>2. UNCHANGED tx /\ JobOK(j)'
      BY <1>8, <1>15, <2>1 DEF ReceiptFails, storeVars
    <2> QED
      BY <1>4, <1>5, <1>6, <2>2
  <1> QED
    BY <1>4, <1>5, <1>10, <1>11, <1>12, <1>13, <1>14, <1>15

-----------------------------------------------------------------------------
\* The inductive invariant.

LEMMA InitInv == Init => IInv
  <1> SUFFICES ASSUME Init
               PROVE  IInv
    OBVIOUS
  <1>1. TypeOK
    BY InitType
  <1>2. ChainOK /\ ReceiptsArePosted
    BY DEF Init, StoreInit, ChainOK, Mined, ReceiptsArePosted
  <1>3. \A h \in Hash : RowOK(h)
    BY DEF Init, StoreInit, RowOK, Exists, NoRow, StatusRight, CountRight, Settled
  <1>4. (\A p \in Poster : PostOK(p)) /\ (\A k \in Hook : HookOK(k)) /\ (\A j \in Job : JobOK(j))
    BY DEF Init, PostInit, HookInit, JobInit, PostOK, HookOK, JobOK
  <1> QED
    BY <1>1, <1>2, <1>3, <1>4 DEF IInv

LEMMA NextInv == IInv /\ [Next]_vars => IInv'
  <1> SUFFICES ASSUME IInv, [Next]_vars
               PROVE  IInv'
    OBVIOUS
  <1>1. TypeOK /\ TypeOK' /\ ChainOK /\ ChainOK' /\ Grows
    BY NextType, NextGrows, ChainStays DEF IInv
  <1>2. head' \in Nat
    BY <1>1 DEF TypeOK, StoreTypeOK
  <1>3. UNCHANGED post => \A p \in Poster : PostOK(p)'
    BY <1>1, PostStays DEF IInv
  <1>4. UNCHANGED hookVars => \A k \in Hook : HookOK(k)'
    BY <1>1, <1>2, HookStays DEF IInv, hookVars
  <1>5. UNCHANGED job => \A j \in Job : JobOK(j)'
    BY <1>1, <1>2, JobStays DEF IInv
  <1>6. UNCHANGED tx => \A h \in Hash : RowOK(h)'
    BY <1>1, <1>2, RowStays DEF IInv
  <1>7. CASE PostStep /\ UNCHANGED <<hookVars, job>>
    BY <1>1, <1>4, <1>5, <1>7, PostStepInv DEF IInv
  <1>8. CASE HookStep /\ UNCHANGED <<post, job>>
    BY <1>1, <1>3, <1>5, <1>8, HookStepInv DEF IInv
  <1>9. CASE JobStep /\ UNCHANGED <<post, hookVars>>
    BY <1>1, <1>3, <1>4, <1>9, JobStepInv DEF IInv
  <1>10. CASE (Environment /\ UNCHANGED <<post, hookVars, job>>) \/ UNCHANGED vars
    <2>1. UNCHANGED <<tx, receipt, posted, post, hookVars, job>>
      BY <1>10 DEF Environment, MineBlock, DropTx, Age, tables, vars, storeVars
    <2>2. ReceiptsArePosted'
      BY <2>1 DEF IInv, ReceiptsArePosted
    <2> QED
      BY <1>1, <1>3, <1>4, <1>5, <1>6, <2>1, <2>2 DEF IInv
  <1> QED
    BY <1>7, <1>8, <1>9, <1>10 DEF Next

\* What every handler and job relies on holds at every step of every other.
THEOREM Invariance == Spec => []IInv
  BY InitInv, NextInv, PTL DEF Spec

\* A settled row is right about the chain.
THEOREM StatusIsRight == Spec => []StatusMatchesChain
  <1>1. IInv => StatusMatchesChain
    BY DEF IInv, RowOK, StatusMatchesChain
  <1> QED
    BY <1>1, Invariance, PTL

\* Block numbers and confirmations never claim more than the chain has.
THEOREM ConfirmationsAreSound == Spec => []ConfirmationsSound
  <1>1. IInv => ConfirmationsSound
    BY DEF IInv, RowOK, ConfirmationsSound
  <1> QED
    BY <1>1, Invariance, PTL

\* A receipt shows what somebody posted, completely and for that transaction.
THEOREM ReceiptsShowPostedDetails == Spec => []ReceiptsArePosted
  <1>1. IInv => ReceiptsArePosted
    BY DEF IInv
  <1> QED
    BY <1>1, Invariance, PTL
=============================================================================
