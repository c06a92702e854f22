----------------------------- MODULE TxService -----------------------------
(***************************************************************************)
(* POST /tx: TxController.create and TxService.upsertPending.  A handler   *)
(* is a process; each of its steps ends at an await, so the steps of other *)
(* handlers and jobs come in between.                                      *)
(***************************************************************************)
EXTENDS TxStore

CONSTANTS Poster   \* the POST /tx requests in flight at a time

VARIABLE post      \* the state of each POST handler

\* h and details are the request's; status is that of the row the upsert
\* returned, which the rest of the handler goes by.
PostState ==
    {s \in [pc : {"look", "quote"}, h : Hash, details : Details, status : RowStatus] :
        s.pc = "quote" => s.details \in Complete}
IdlePost == [pc |-> "idle"]

PostTypeOK == post \in [Poster -> PostState \cup {IdlePost}]

PostInit == post = [p \in Poster |-> IdlePost]

PostDone(p) == post' = [post EXCEPT ![p] = IdlePost]

\* mutant: the update branch sets the status as well
ReopenedRow(h, d) ==
    [IF Exists(h) THEN tx[h] ELSE NewRow EXCEPT !.status = "PENDING", !.details = d]
\* What the upsert writes: a new row is PENDING, an existing one keeps its
\* status and takes the details, complete or not.
PostedRow(h, d) ==
    IF Exists(h) THEN [tx[h] EXCEPT !.details = d]
                 ELSE [NewRow EXCEPT !.status = "PENDING", !.details = d]

UpsertPending(p, h, d) ==
    /\ post[p] = IdlePost
    /\ tx' = [tx EXCEPT ![h] = PostedRow(h, d)]
    /\ rows' = IF Exists(h) THEN rows ELSE rows + 1
    /\ posted' = posted \cup {<<h, d>>}
    /\ post' = [post EXCEPT ![p] = [pc |-> "look", h |-> h, details |-> d,
                                    status |-> PostedRow(h, d).status]]
    /\ UNCHANGED <<aged, receipt, pushed, chainVars>>

\* A transaction that has not failed and has no receipt yet goes on to get one.
WantsReceipt(p) ==
    /\ post[p].status \in {"CONFIRMED", "PENDING"}
    /\ receipt[post[p].h] = NoReceipt
    /\ EssentialsReady(post[p].details)

\* stream.push of the returned row, then the lookup of the receipt.
PushAndLook(p) ==
    /\ post[p].pc = "look"
    /\ Push(post[p].h, post[p].status)
    /\ IF WantsReceipt(p) THEN post' = [post EXCEPT ![p].pc = "quote"]
                          ELSE PostDone(p)
    /\ UNCHANGED <<tx, rows, aged, receipt, posted, chainVars>>

\* fx, fee and price lookups succeed and the snapshot is written.
PostSnapshot(p) ==
    /\ post[p].pc = "quote"
    /\ CreateSnapshot(post[p].h, post[p].details, "upsertPending")
    /\ PostDone(p)
    /\ UNCHANGED <<tx, rows, aged, pushed, posted, chainVars>>

\* One of the lookups, or the write, fails: the catch swallows it.
QuoteFails(p) ==
    /\ "quote" \in Faults
    /\ post[p].pc = "quote"
    /\ PostDone(p)
    /\ UNCHANGED storeVars

PostAborts(p) ==
    /\ "abort" \in Faults
    /\ post[p] # IdlePost
    /\ PostDone(p)
    /\ UNCHANGED storeVars

PostContinues(p) == PushAndLook(p) \/ PostSnapshot(p) \/ QuoteFails(p)

PostStep ==
    \E p \in Poster :
        \/ \E h \in Hash, d \in Details : UpsertPending(p, h, d)
        \/ PostContinues(p)
        \/ PostAborts(p)
=============================================================================
