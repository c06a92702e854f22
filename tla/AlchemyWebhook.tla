--------------------------- MODULE AlchemyWebhook ---------------------------
(***************************************************************************)
(* POST /webhooks/alchemy: AlchemyWebhookController.handle with the calls  *)
(* it makes, handleTxConfirmed and TxService.applyWebhookUpdate.  The      *)
(* provider delivers an event at least once, in any order, several at a    *)
(* time: a delivery may start whenever the event is true of the chain.     *)
(***************************************************************************)
EXTENDS TxStore, Sequences

CONSTANTS
    Hook,      \* the webhook requests in flight at a time
    Payload    \* what each event says

(* hashes: the payload's transactions, in extractHashes order, all mined   *)
(* in one block.  legs: which of the three token transfers realAct finds   *)
(* among the activities of a hash.  hasId: the payload carries an event    *)
(* id; otherwise the controller makes a new one up for every delivery.     *)
(* hasBlock: it carries a block number.                                    *)
Leg == {"incoming", "outgoingToUser", "feeLeg"}
Notice == [hashes : Seq(Hash), status : Settled \ {"EXPIRED"},
           legs : [Hash -> SUBSET Leg], hasId : BOOLEAN, hasBlock : BOOLEAN]
ASSUME PayloadAssumption ==
    /\ Payload \in [Event -> Notice]
    /\ \A e \in Event : Len(Payload[e].hashes) > 0

VARIABLES
    hook,      \* the state of each webhook handler
    notified   \* the notification rows: who was told of which transfer

hookVars == <<hook, notified>>

HookPC == {"find", "notify", "receiver", "dedup", "update", "create",
           "refresh", "look", "snapshot"}
\* ev: the event; pos: the hash at hand; bn, conf: blockNumber and
\* confirmations of the payload; details: of the row re-read at "refresh".
HookState ==
    {s \in [pc : HookPC, ev : Event, pos : Nat \ {0}, bn : Nat, conf : Nat,
            details : Details \cup {Placeholder}] :
        /\ s.pos <= Len(Payload[s.ev].hashes)
        /\ s.pc = "snapshot" => s.details \in Complete}
IdleHook == [pc |-> "idle"]

HookTypeOK ==
    /\ hook \in [Hook -> HookState \cup {IdleHook}]
    /\ notified \in SUBSET (Hash \X {"sender", "receiver"})

HookInit ==
    /\ hook = [k \in Hook |-> IdleHook]
    /\ notified = {}

HookHash(k) == Payload[hook[k].ev].hashes[hook[k].pos]
HookStatus(k) == Payload[hook[k].ev].status
HookLegs(k) == Payload[hook[k].ev].legs[HookHash(k)]
EventId(k) == IF Payload[hook[k].ev].hasId THEN hook[k].ev ELSE NoEvent

HookTo(k, pc) == hook' = [hook EXCEPT ![k].pc = pc]
HookDone(k) == hook' = [hook EXCEPT ![k] = IdleHook]
NextHash(k) ==
    IF hook[k].pos < Len(Payload[hook[k].ev].hashes)
      THEN hook' = [hook EXCEPT ![k] =
                      [pc |-> "find", ev |-> hook[k].ev, pos |-> hook[k].pos + 1,
                       bn |-> hook[k].bn, conf |-> hook[k].conf,
                       details |-> Placeholder]]
      ELSE HookDone(k)

\* applyWebhookUpdate is called only for a transfer into the fee contract.
ApplyOrNext(k) == IF "incoming" \in HookLegs(k) THEN HookTo(k, "dedup")
                                               ELSE NextHash(k)

-----------------------------------------------------------------------------
\* What happened to a transaction, as the provider reports it.
Verdict(fate) == CASE fate = "ok" -> "CONFIRMED"
                   [] fate = "failed" -> "FAILED"
                   [] fate = "dropped" -> "DROPPED_REPLACED"
                   [] OTHER -> "PENDING"

Reported(e) ==
    \A i \in 1..Len(Payload[e].hashes) :
        LET h == Payload[e].hashes[i] IN
        /\ Verdict(chain[h].fate) = Payload[e].status
        /\ chain[h].block = chain[Payload[e].hashes[1]].block

\* The heads an RPC node may answer with.
Heads == IF "lag" \in Faults THEN 0..head ELSE {head}

\* The block number of the payload, that of its first activity.
PayloadBlock(e) == IF Payload[e].hasBlock THEN chain[Payload[e].hashes[1]].block ELSE 0

\* Its confirmations, counted for a confirmation with a block number; a failing
\* getBlockNumber leaves them out.
PayloadConfs(e) ==
    (IF Payload[e].status = "CONFIRMED" /\ PayloadBlock(e) # 0
       THEN {Confirmations(hd, PayloadBlock(e)) : hd \in Heads} ELSE {0})
    \cup (IF "rpc" \in Faults THEN {0} ELSE {})

\* A delivery arrives.
Receive(k, e) ==
    /\ hook[k] = IdleHook
    /\ Reported(e)
    /\ \E conf \in PayloadConfs(e) :
         hook' = [hook EXCEPT ![k] =
                    [pc |-> "find", ev |-> e, pos |-> 1, bn |-> PayloadBlock(e),
                     conf |-> conf, details |-> Placeholder]]
    /\ UNCHANGED <<storeVars, notified>>

\* A known transfer from a user through the contract to a user is announced.
Announces(k) ==
    /\ Exists(HookHash(k))
    /\ HookStatus(k) = "CONFIRMED"
    /\ {"incoming", "outgoingToUser"} \subseteq HookLegs(k)

\* Without a fee leg, destructuring it throws and the request fails.
FindTransaction(k) ==
    /\ hook[k].pc = "find"
    /\ CASE Announces(k) /\ "feeLeg" \in HookLegs(k) -> HookTo(k, "notify")
         [] Announces(k) /\ "feeLeg" \notin HookLegs(k) -> HookDone(k)
         [] OTHER -> ApplyOrNext(k)
    /\ UNCHANGED <<storeVars, notified>>

\* handleTxConfirmed, first half.
NotifySender(k) ==
    /\ hook[k].pc = "notify"
    /\ notified' = notified \cup {<<HookHash(k), "sender">>}
    /\ HookTo(k, "receiver")
    /\ UNCHANGED storeVars

\* handleTxConfirmed, second half: only a receiver with a device is told.
NotifyReceiver(k) ==
    /\ hook[k].pc = "receiver"
    /\ \/ notified' = notified \cup {<<HookHash(k), "receiver">>}
       \/ UNCHANGED notified
    /\ HookTo(k, "dedup")
    /\ UNCHANGED storeVars

-----------------------------------------------------------------------------
\* applyWebhookUpdate

HasEvent(k, h) == tx[h].event = EventId(k) /\ EventId(k) # NoEvent

\* findFirst by lastEventId.
Dedup(k) ==
    /\ hook[k].pc = "dedup"
    /\ IF \E h \in Hash : HasEvent(k, h) THEN NextHash(k) ELSE HookTo(k, "update")
    /\ UNCHANGED <<storeVars, notified>>

\* lastEventId is unique: a write that would repeat it on another row throws.
Conflict(k) == \E h \in Hash \ {HookHash(k)} : HasEvent(k, h)

\* mutant: every report taken for a confirmation
ConfirmedFields(row, k) ==
    [row EXCEPT !.status = "CONFIRMED", !.bn = hook[k].bn,
                !.conf = hook[k].conf, !.event = EventId(k)]
WebhookFields(row, k) ==
    [row EXCEPT !.status = HookStatus(k), !.bn = hook[k].bn,
                !.conf = hook[k].conf, !.event = EventId(k)]

\* update where txHash: any error, a missing row first, turns to the upsert.
UpdateRow(k) ==
    /\ hook[k].pc = "update"
    /\ IF Exists(HookHash(k)) /\ ~ Conflict(k)
         THEN /\ tx' = [tx EXCEPT ![HookHash(k)] = WebhookFields(@, k)]
              /\ HookTo(k, "refresh")
         ELSE /\ HookTo(k, "create")
              /\ UNCHANGED tx
    /\ UNCHANGED <<rows, aged, receipt, pushed, posted, chainVars, notified>>

\* mutant: the upsert inserts over a row that a POST made in the meantime
InsertedRow(k) == WebhookFields(NewRow, k)
\* The upsert that follows finds, perhaps, a row that a POST made meanwhile.
UpsertedRow(k) ==
    WebhookFields(IF Exists(HookHash(k)) THEN tx[HookHash(k)] ELSE NewRow, k)

\* Its own unique violation reaches the caller.
CreateRow(k) ==
    /\ hook[k].pc = "create"
    /\ IF Conflict(k)
         THEN /\ HookDone(k)
              /\ UNCHANGED <<tx, rows>>
         ELSE /\ tx' = [tx EXCEPT ![HookHash(k)] = UpsertedRow(k)]
              /\ rows' = IF Exists(HookHash(k)) THEN rows ELSE rows + 1
              /\ HookTo(k, "refresh")
    /\ UNCHANGED <<aged, receipt, pushed, posted, chainVars, notified>>

\* The row is read again and streamed; a receipt is for an event that says
\* CONFIRMED, whatever the row says.
Refresh(k) ==
    /\ hook[k].pc = "refresh"
    /\ Push(HookHash(k), tx[HookHash(k)].status)
    /\ IF HookStatus(k) = "CONFIRMED"
         THEN hook' = [hook EXCEPT ![k] = [@ EXCEPT !.pc = "look",
                                      !.details = tx[HookHash(k)].details]]
         ELSE NextHash(k)
    /\ UNCHANGED <<tx, rows, aged, receipt, posted, chainVars, notified>>

LookForReceipt(k) ==
    /\ hook[k].pc = "look"
    /\ IF receipt[HookHash(k)] = NoReceipt /\ EssentialsReady(hook[k].details)
         THEN HookTo(k, "snapshot")
         ELSE NextHash(k)
    /\ UNCHANGED <<storeVars, notified>>

\* mutant: the receipt goes to the first hash of the payload
FirstHashSnapshot(k) ==
    /\ hook[k].pc = "snapshot"
    /\ CreateSnapshot(Payload[hook[k].ev].hashes[1], hook[k].details,
                      "applyWebhookUpdate")
    /\ NextHash(k)
    /\ UNCHANGED <<tx, rows, aged, pushed, posted, chainVars, notified>>
HookSnapshot(k) ==
    /\ hook[k].pc = "snapshot"
    /\ CreateSnapshot(HookHash(k), hook[k].details, "applyWebhookUpdate")
    /\ NextHash(k)
    /\ UNCHANGED <<tx, rows, aged, pushed, posted, chainVars, notified>>

\* The snapshot needs no lookup here; only its write can fail, and the catch
\* swallows that.
SnapshotFails(k) ==
    /\ "quote" \in Faults
    /\ hook[k].pc = "snapshot"
    /\ NextHash(k)
    /\ UNCHANGED <<storeVars, notified>>

HookAborts(k) ==
    /\ "abort" \in Faults
    /\ hook[k] # IdleHook
    /\ HookDone(k)
    /\ UNCHANGED <<storeVars, notified>>

HookContinues(k) ==
    \/ FindTransaction(k)
    \/ NotifySender(k)
    \/ NotifyReceiver(k)
    \/ Dedup(k)
    \/ UpdateRow(k)
    \/ CreateRow(k)
    \/ Refresh(k)
    \/ LookForReceipt(k)
    \/ HookSnapshot(k)
    \/ SnapshotFails(k)

HookStep ==
    \E k \in Hook :
        \/ \E e \in Event : Receive(k, e)
        \/ HookContinues(k)
        \/ HookAborts(k)
=============================================================================
