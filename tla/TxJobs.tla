------------------------------- MODULE TxJobs -------------------------------
(***************************************************************************)
(* The scheduled jobs: TxCleanupCron.cleanupStalePending, which settles    *)
(* old PENDING rows from the chain, and TxCron.backfillConfirmations,      *)
(* which keeps counting confirmations of CONFIRMED rows.  Both can also be *)
(* started by hand (tx.cleanup.controller.ts, tx.reindex.controller.ts),   *)
(* so several instances of each may run at the same time.                  *)
(*                                                                         *)
(* A job lists its rows, asks for the head, then for each row asks for the *)
(* transaction's receipt and writes the row.  Within a batch the rows are  *)
(* taken in any order.  A deployment has one chain (lib/viem.ts).          *)
(*                                                                         *)
(* The cleanup tells an error that means "no receipt" from a passing one by *)
(* the name TransactionReceiptNotFoundError in the error's message.  viem 2 *)
(* has that name in e.name and not in e.message: NotFoundIsNamed is FALSE   *)
(* with the library the API is built with, and TRUE is what the code means. *)
(***************************************************************************)
EXTENDS TxStore

CONSTANTS
    Cleaner,          \* runs of the cleanup in progress at a time
    Filler,           \* runs of the backfill in progress at a time
    CleanMax,         \* TX_CLEAN_MAX
    FillMax,          \* TX_BACKFILL_MAX
    Target,           \* TX_BACKFILL_CONFIRM_TARGET
    NotFoundIsNamed   \* the not-found error's message holds its class name

ASSUME JobsAssumption ==
    /\ CleanMax \in Nat \ {0}
    /\ FillMax \in Nat \ {0}
    /\ Target \in Nat \ {0}
    /\ NotFoundIsNamed \in BOOLEAN
    /\ Cleaner \cap Filler = {}

VARIABLE job

Job == Cleaner \cup Filler

\* A listed row as the job remembers it.
Entry == [h : Hash, bn : Nat, conf : Nat]
Listed(h) == [h |-> h, bn |-> tx[h].bn, conf |-> tx[h].conf]

\* todo: listed rows still to do; head: the head asked for; row, fate, bn: the
\* row in hand and what the RPC node said of it.
Asking == [pc : {"head", "receipt"}, todo : SUBSET Entry, head : Nat]
Writing == [pc : {"write"}, todo : SUBSET Entry, head : Nat, row : Entry,
            fate : {"ok", "failed", "missing"}, bn : Nat]
IdleJob == [pc |-> "idle"]

JobTypeOK == job \in [Job -> Asking \cup Writing \cup {IdleJob}]

JobInit == job = [j \in Job |-> IdleJob]

\* Go on with what is left of the batch.
Resume(j, todo) ==
    job' = [job EXCEPT ![j] =
              IF todo = {} THEN IdleJob
              ELSE [pc |-> "receipt", todo |-> todo, head |-> job[j].head]]

StartBatch(j, hs) ==
    /\ job[j] = IdleJob
    /\ hs # {}
    /\ job' = [job EXCEPT ![j] =
                 [pc |-> "head", todo |-> {Listed(h) : h \in hs}, head |-> 0]]
    /\ UNCHANGED storeVars

AtMost(n, S) == {T \in SUBSET S : Cardinality(T) = n \/ (Cardinality(T) < n /\ T = S)}

\* mutant: the threshold off by one
AlmostStale == {h \in Hash : tx[h].status = "PENDING" /\ tx[h].born < aged}
\* PENDING rows older than the threshold, the oldest CleanMax of them.
Stale == {h \in Hash : tx[h].status = "PENDING" /\ tx[h].born <= aged}
ListStale(j) ==
    \E hs \in AtMost(CleanMax, Stale) :
        /\ \A h \in hs, g \in Stale \ hs : tx[h].born < tx[g].born
        /\ StartBatch(j, hs)

\* mutant: only rows whose block is known
ShallowWithBlock ==
    {h \in Hash : tx[h].status = "CONFIRMED" /\ tx[h].conf < Target /\ tx[h].bn # 0}
\* CONFIRMED rows with too few confirmations.  The code takes those updated
\* longest ago; here any of them.
Shallow == {h \in Hash : tx[h].status = "CONFIRMED" /\ tx[h].conf < Target}
ListShallow(j) == \E hs \in AtMost(FillMax, Shallow) : StartBatch(j, hs)

\* getBlockNumber, once for the batch.
AskHead(j) ==
    /\ job[j].pc = "head"
    /\ \E hd \in (IF "lag" \in Faults THEN 0..head ELSE {head}) :
         job' = [job EXCEPT ![j] =
                   [pc |-> "receipt", todo |-> job[j].todo, head |-> hd]]
    /\ UNCHANGED storeVars

\* A failing getBlockNumber is not caught: the whole run ends.
HeadFails(j) ==
    /\ "rpc" \in Faults
    /\ job[j].pc = "head"
    /\ job' = [job EXCEPT ![j] = IdleJob]
    /\ UNCHANGED storeVars

\* What getTransactionReceipt may answer.
Answers(h) ==
    (IF Mined(h) THEN {chain[h].fate} ELSE {"missing"})
        \cup (IF "lag" \in Faults THEN {"missing"} ELSE {})

\* getTransactionReceipt for one row of the batch.
AskReceipt(j, h) ==
    /\ job[j].pc = "receipt"
    /\ \E e \in job[j].todo, fate \in Answers(h) :
         /\ e.h = h
         /\ job' = [job EXCEPT ![j] =
                      [pc |-> "write", todo |-> job[j].todo \ {e},
                       head |-> job[j].head, row |-> e, fate |-> fate,
                       bn |-> IF fate = "missing" THEN 0 ELSE chain[h].block]]
    /\ UNCHANGED storeVars

\* A transient RPC error skips the row.
ReceiptFails(j) ==
    /\ "rpc" \in Faults
    /\ job[j].pc = "receipt"
    /\ \E e \in job[j].todo : Resume(j, job[j].todo \ {e})
    /\ UNCHANGED storeVars

Counted(row, j) ==
    [row EXCEPT !.bn = job[j].bn,
                !.conf = Confirmations(job[j].head, job[j].bn)]

\* mutant: a row that is not found is written back as it was listed
RectifiedAsListed(row, j) ==
    CASE job[j].fate = "ok" -> [Counted(row, j) EXCEPT !.status = "CONFIRMED"]
      [] job[j].fate = "failed" -> [Counted(row, j) EXCEPT !.status = "FAILED"]
      [] OTHER -> [row EXCEPT !.status = "PENDING"]
\* The row the cleanup writes.  A not-found error whose name it does not see in
\* the message is a transient error to it: the row stays as it is, and PENDING.
Rectified(row, j) ==
    CASE job[j].fate = "ok" -> [Counted(row, j) EXCEPT !.status = "CONFIRMED"]
      [] job[j].fate = "failed" -> [Counted(row, j) EXCEPT !.status = "FAILED"]
      [] job[j].fate = "missing" /\ NotFoundIsNamed -> [row EXCEPT !.status = "EXPIRED"]
      [] OTHER -> row

\* It is written over whatever the row has become since it was listed.
Rectify(j) ==
    /\ job[j].pc = "write"
    /\ tx' = [tx EXCEPT ![job[j].row.h] = Rectified(@, j)]
    /\ Resume(j, job[j].todo)
    /\ UNCHANGED <<rows, aged, receipt, pushed, posted, chainVars>>

\* The backfill compares with the row as it was listed.
ShouldUpdate(j) ==
    \/ job[j].row.bn # job[j].bn
    \/ job[j].row.conf < Confirmations(job[j].head, job[j].bn)

BackfillRow(j) ==
    /\ job[j].pc = "write"
    /\ IF job[j].fate # "missing" /\ ShouldUpdate(j)
         THEN tx' = [tx EXCEPT ![job[j].row.h] = Counted(@, j)]
         ELSE UNCHANGED tx
    /\ Resume(j, job[j].todo)
    /\ UNCHANGED <<rows, aged, receipt, pushed, posted, chainVars>>

JobAborts(j) ==
    /\ "abort" \in Faults
    /\ job[j] # IdleJob
    /\ job' = [job EXCEPT ![j] = IdleJob]
    /\ UNCHANGED storeVars

JobStep ==
    \/ \E j \in Cleaner : ListStale(j) \/ Rectify(j)
    \/ \E j \in Filler : ListShallow(j) \/ BackfillRow(j)
    \/ \E j \in Job :
         \/ AskHead(j) \/ HeadFails(j)
         \/ (\E h \in Hash : AskReceipt(j, h)) \/ ReceiptFails(j)
         \/ JobAborts(j)
=============================================================================
