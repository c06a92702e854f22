----------------------------- MODULE TxTracking -----------------------------
(***************************************************************************)
(* The tracking of transactions as a whole: POST handlers, webhook         *)
(* handlers and jobs over one database and one chain.                      *)
(***************************************************************************)
EXTENDS TxService, AlchemyWebhook, TxJobs

vars == <<storeVars, post, hookVars, job>>

Init == StoreInit /\ PostInit /\ HookInit /\ JobInit

Next ==
    \/ PostStep /\ UNCHANGED <<hookVars, job>>
    \/ HookStep /\ UNCHANGED <<post, job>>
    \/ JobStep /\ UNCHANGED <<post, hookVars>>
    \/ Environment /\ UNCHANGED <<post, hookVars, job>>

Spec == Init /\ [][Next]_vars

(***************************************************************************)
(* Fairness.  Node runs every continuation of a handler or job it has      *)
(* started, the cron fires for ever, and rows get older: weak fairness.  A *)
(* call to the RPC node that is repeated for ever is answered now and      *)
(* then: strong fairness, since a failure ends each single attempt.  For   *)
(* receipts it says so of the calls of a job together, which is enough     *)
(* where batches are of one row.                                           *)
(* Nothing makes a client post, the provider deliver or the chain go on.   *)
(***************************************************************************)
Handlers ==
    /\ \A p \in Poster :
         WF_vars(PostContinues(p) /\ UNCHANGED <<hookVars, job>>)
    /\ \A k \in Hook :
         WF_vars(HookContinues(k) /\ UNCHANGED <<post, job>>)

Alone == UNCHANGED <<post, hookVars>>
Jobs ==
    /\ \A j \in Cleaner : WF_vars((ListStale(j) \/ Rectify(j)) /\ Alone)
    /\ \A j \in Filler : WF_vars((ListShallow(j) \/ BackfillRow(j)) /\ Alone)
    /\ \A j \in Job :
         /\ SF_vars(AskHead(j) /\ Alone)
         /\ SF_vars((\E h \in Hash : AskReceipt(j, h)) /\ Alone)

AgeFairly == WF_vars(Age /\ UNCHANGED <<post, hookVars, job>>)

FairSpec == Spec /\ Handlers /\ Jobs /\ AgeFairly

-----------------------------------------------------------------------------
\* The type invariant of all the parts.
TypeOK == StoreTypeOK /\ PostTypeOK /\ HookTypeOK /\ JobTypeOK

StatusRight(h) ==
    tx[h].status \in Settled \ {"EXPIRED"} => tx[h].status = Verdict(chain[h].fate)

\* A row that says CONFIRMED, FAILED or DROPPED_REPLACED is right about the
\* chain, whatever mixture of old webhooks, old job listings and POSTs wrote it.
StatusMatchesChain == \A h \in Hash : StatusRight(h)

CountRight(h) ==
    /\ tx[h].bn # 0 => Mined(h) /\ tx[h].bn = chain[h].block
    /\ tx[h].conf # 0 => Mined(h) /\ tx[h].conf <= (head - chain[h].block) + 1

\* The block number of a row is the block of its transaction, and its
\* confirmations never overstate how deep that block is.
ConfirmationsSound == \A h \in Hash : CountRight(h)

\* A receipt shows details that one POST submitted as a whole for this very
\* transaction, complete ones: never the placeholder of a row that a webhook
\* made, never the details of another transaction of the same webhook.
ReceiptsArePosted ==
    \A h \in Hash :
        receipt[h] # NoReceipt =>
            /\ receipt[h].details \in Complete
            /\ <<h, receipt[h].details>> \in posted

\* A POST repeated or late never turns a transaction back to PENDING: neither
\* one the chain has settled nor one the cleanup has given up.
NoReturnToPending ==
    [][\A h \in Hash : tx'[h].status = "PENDING" =>
          tx[h].status \in {"NONE", "PENDING"}]_vars

\* The first receipt of a transaction is its only one: handlers that both
\* found none, and both write, do not replace each other's.
ReceiptWrittenOnce ==
    [][\A h \in Hash : receipt[h] # NoReceipt => receipt'[h] = receipt[h]]_vars

\* What a POST has said of a transfer outlives webhooks and jobs: only another
\* POST replaces it, and a row is never again a placeholder.
PostedDetailsSurvive ==
    [][\A h \in Hash : tx[h].details # Placeholder =>
          /\ tx'[h].details # Placeholder
          /\ tx'[h].details # tx[h].details =>
                \E p \in Poster : post'[p] # post[p] /\ post'[p] # IdlePost
                                  /\ post'[p].h = h]_vars

Stalled(h) == tx[h].status = "PENDING" /\ tx[h].born <= aged

\* Older rows without a receipt fill the batches: they are listed first again and
\* again, since nothing becomes of them (tx.cleanup.cron.ts:55).
Crowded(h) ==
    Cardinality({g \in Hash : tx[g].status = "PENDING" /\ ~ Mined(g)
                               /\ tx[g].born < tx[h].born}) >= CleanMax

\* A mined transaction whose webhook was lost does not stay PENDING: the cleanup
\* gets to its row in spite of RPC errors and of the limit on a batch, unless
\* older rows that have no receipt fill every batch.
StaleMinedResolves ==
    \A h \in Hash :
        (Stalled(h) /\ Mined(h)) ~> (tx[h].status # "PENDING" \/ Crowded(h))

\* What the cleanup says of itself, "no receipt -> not on the chain, fake or of
\* another network -> mark EXPIRED" (tx.cleanup.cron.ts:102, in Korean): a stale
\* row whose transaction is in no block is given up.
StaleUnminedExpires ==
    \A h \in Hash : Stalled(h) ~> (tx[h].status # "PENDING" \/ Mined(h))

\* The backfill brings the count of a deep enough transaction up to the target
\* although late webhooks keep resetting it.
ConfirmationsReachTarget ==
    \A h \in Hash :
        (/\ tx[h].status = "CONFIRMED"
         /\ Mined(h) /\ (head - chain[h].block) + 1 >= Target)
            ~> (tx[h].conf >= Target \/ tx[h].status # "CONFIRMED")

-----------------------------------------------------------------------------
(***************************************************************************)
(* The inductive invariant: what the handlers and jobs know, at each step, *)
(* of the rows and of the chain that others change meanwhile.              *)
(***************************************************************************)
ChainOK ==
    \A h \in Hash : IF Mined(h) THEN 0 < chain[h].block /\ chain[h].block <= head
                                ELSE chain[h].block = 0

RowOK(h) ==
    /\ ~ Exists(h) => tx[h] = NoRow
    /\ tx[h].details # Placeholder => <<h, tx[h].details>> \in posted
    /\ StatusRight(h)
    /\ CountRight(h)

PostOK(p) ==
    post[p] # IdlePost =>
        /\ Exists(post[p].h)
        /\ <<post[p].h, post[p].details>> \in posted

\* The event stays true; its numbers are of its block and do not overstate;
\* once written the row exists, and details read from it were posted.
HookOK(k) ==
    hook[k] # IdleHook =>
        /\ Reported(hook[k].ev)
        /\ hook[k].bn \in {0, chain[HookHash(k)].block}
        /\ hook[k].conf # 0 => hook[k].bn # 0 /\ hook[k].conf <= (head - hook[k].bn) + 1
        /\ hook[k].pc \in {"refresh", "look", "snapshot"} => Exists(HookHash(k))
        /\ hook[k].pc \in {"look", "snapshot"} /\ hook[k].details # Placeholder =>
               <<HookHash(k), hook[k].details>> \in posted

\* The head is not ahead; the listed rows exist; what the node said stays true.
JobOK(j) ==
    job[j] # IdleJob =>
        /\ job[j].head <= head
        /\ \A e \in job[j].todo : Exists(e.h)
        /\ job[j].pc = "write" =>
              /\ Exists(job[j].row.h)
              /\ job[j].fate # "missing" =>
                    chain[job[j].row.h] = [fate |-> job[j].fate, block |-> job[j].bn]

\* What one step of anybody leaves the knowledge of the others intact by
\* (proved to be inductive in TxTrackingProofs).
IInv ==
    /\ TypeOK
    /\ ChainOK
    /\ \A h \in Hash : RowOK(h)
    /\ \A p \in Poster : PostOK(p)
    /\ \A k \in Hook : HookOK(k)
    /\ \A j \in Job : JobOK(j)
    /\ ReceiptsArePosted

-----------------------------------------------------------------------------
\* The service is an implementation of what it promises.
Lifecycle == INSTANCE TxLifecycle WITH
    None <- NoReceipt,
    fate <- [h \in Hash |-> chain[h].fate],
    status <- [h \in Hash |-> tx[h].status],
    issued <- [h \in Hash |-> IF receipt[h] = NoReceipt THEN NoReceipt
                                                        ELSE receipt[h].details]
ImplementsLifecycle == Lifecycle!Spec
=============================================================================
