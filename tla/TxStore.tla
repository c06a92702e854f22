------------------------------ MODULE TxStore ------------------------------
(***************************************************************************)
(* What the transaction-tracking code shares: the Transaction and Receipt  *)
(* tables (apps/api/prisma/schema.prisma), the SSE stream                  *)
(* (tx.stream.ts), and the chain the API reads through an RPC node and     *)
(* hears about through webhooks.  The handlers and jobs that act on this   *)
(* state are in TxService, AlchemyWebhook and TxJobs.                      *)
(*                                                                         *)
(* A row is identified with its txHash, which is unique and never deleted. *)
(* The columns from, to, token and amount always travel together: they are *)
(* one value of Details, or Placeholder for the zero addresses and nulls   *)
(* of a row a webhook created.  A null number and 0 are one value: no code *)
(* modelled here tells them apart.                                         *)
(***************************************************************************)
EXTENDS Naturals, FiniteSets

CONSTANTS
    Hash,         \* transaction hashes, lower case
    Details,      \* what a POST may say of a transfer
    Complete,     \* the details with both addresses, a token and an amount
    Placeholder,  \* details of a row no POST has described yet
    Event,        \* webhook event ids
    NoEvent,      \* lastEventId is null
    NoReceipt,    \* no Receipt row
    Faults,       \* which faults the environment may inject, see below
    MaxHead       \* bound: the last block of a behaviour

ASSUME DetailsAssumption ==
    /\ Complete \subseteq Details
    /\ Placeholder \notin Details
    /\ NoEvent \notin Event
ASSUME HeadAssumption == MaxHead \in Nat
(* "quote": the fx, fee or price lookup of a receipt fails.                *)
(* "rpc":   an RPC call of a job fails with a transient error.             *)
(* "lag":   the RPC node is behind: an old head, a receipt not found yet.  *)
(* "abort": a handler or job dies half-way (a database error, a restart).  *)
ASSUME FaultsAssumption == Faults \subseteq {"quote", "rpc", "lag", "abort"}

\* A receipt keeps the transfer it was issued for, and which handler issued it.
Source == {"upsertPending", "applyWebhookUpdate"}
Receipt == [details : Complete, source : Source]
ASSUME ReceiptAssumption == NoReceipt \notin Receipt

VARIABLES
    tx,       \* the Transaction table
    rows,     \* how many rows exist, ranks them by createdAt
    aged,     \* rows ranked up to here are older than the cleanup threshold
    receipt,  \* the Receipt table, by transaction
    pushed,   \* the status last sent on the SSE stream for each hash
    posted,   \* history: which details a POST has submitted for which hash
    chain,    \* where each transaction really is
    head      \* the last block

storeVars == <<tx, rows, aged, receipt, pushed, posted, chain, head>>
tables == <<tx, rows, aged, receipt, pushed, posted>>
chainVars == <<chain, head>>

-----------------------------------------------------------------------------
\* "NONE" stands for "no row with this hash".
Settled == {"CONFIRMED", "FAILED", "DROPPED_REPLACED", "EXPIRED"}
RowStatus == {"PENDING"} \cup Settled
Status == {"NONE"} \cup RowStatus

Row == [status : Status, details : Details \cup {Placeholder}, bn : Nat,
        conf : Nat, event : Event \cup {NoEvent}, born : Nat]

NoRow == [status |-> "NONE", details |-> Placeholder, bn |-> 0, conf |-> 0,
          event |-> NoEvent, born |-> 0]

\* The row the next insert starts from.
NewRow == [NoRow EXCEPT !.born = rows + 1]

Exists(h) == tx[h].status # "NONE"

\* amount and token present, and neither address the zero placeholder.
EssentialsReady(d) == d \in Complete

Block == [fate : {"pool", "ok", "failed", "dropped"}, block : Nat]
Mined(h) == chain[h].fate \in {"ok", "failed"}

ConfirmationsPlusOne(hd, bn) == IF hd >= bn THEN (hd - bn) + 2 ELSE 1  \* mutant: off by one
\* max(head - bn + 1, 1)
Confirmations(hd, bn) == IF hd >= bn THEN (hd - bn) + 1 ELSE 1

StoreTypeOK ==
    /\ tx \in [Hash -> Row]
    /\ rows \in Nat
    /\ aged \in Nat
    /\ receipt \in [Hash -> Receipt \cup {NoReceipt}]
    /\ pushed \in [Hash -> Status]
    /\ posted \in SUBSET (Hash \X Details)
    /\ chain \in [Hash -> Block]
    /\ head \in Nat

StoreInit ==
    /\ tx = [h \in Hash |-> NoRow]
    /\ rows = 0
    /\ aged = 0
    /\ receipt = [h \in Hash |-> NoReceipt]
    /\ pushed = [h \in Hash |-> "NONE"]
    /\ posted = {}
    /\ chain = [h \in Hash |-> [fate |-> "pool", block |-> 0]]
    /\ head = 0

-----------------------------------------------------------------------------
\* mutant: the upsert's update branch writes too
OverwriteSnapshot(h, d, src) ==
    receipt' = [receipt EXCEPT ![h] = [details |-> d, source |-> src]]
\* receipt.service.ts createSnapshot: an upsert whose update branch is empty.
CreateSnapshot(h, d, src) ==
    receipt' = [receipt EXCEPT ![h] =
                   IF @ = NoReceipt THEN [details |-> d, source |-> src] ELSE @]

\* tx.stream.ts push
Push(h, status) == pushed' = [pushed EXCEPT ![h] = status]

-----------------------------------------------------------------------------
\* The chain and the clock: external.

\* The next block mines some of the waiting transactions.
MineBlock ==
    /\ head < MaxHead
    /\ head' = head + 1
    /\ \E S \in SUBSET {h \in Hash : chain[h].fate = "pool"} :
         \E fate \in [S -> {"ok", "failed"}] :
           chain' = [h \in Hash |->
                       IF h \in S THEN [fate |-> fate[h], block |-> head + 1]
                                  ELSE chain[h]]
    /\ UNCHANGED tables

\* A waiting transaction is replaced or dropped from the mempool.
DropTx(h) ==
    /\ chain[h].fate = "pool"
    /\ chain' = [chain EXCEPT ![h].fate = "dropped"]
    /\ UNCHANGED <<tables, head>>

\* The oldest row not yet past the threshold passes it.
Age ==
    /\ aged < rows
    /\ aged' = aged + 1
    /\ UNCHANGED <<tx, rows, receipt, pushed, posted, chainVars>>

Environment == MineBlock \/ (\E h \in Hash : DropTx(h)) \/ Age
=============================================================================
