----------------------------- MODULE TxStatusHook -----------------------------
(***************************************************************************)
(* useTxStatus (useTxStatus.ts) as SendUSDCForm uses it, with a stream and *)
(* stopOnTerminal: how a page follows the row of the transaction it sent   *)
(* last.  Streams, polls, reconnect timers and requests live in refs that  *)
(* outlast the render that made them; each of them works for the hash of   *)
(* the render it comes from, here its field hash.                          *)
(*                                                                         *)
(* A step is a handler of the page run to its end.  Times are flags that   *)
(* Elapse takes back.  An aborted request rejects as soon as the running   *)
(* handler returns, so its catch and finally are part of that step.        *)
(* loading and error are only shown and left out.                          *)
(***************************************************************************)
EXTENDS Naturals

CONSTANTS
    MaxSends,      \* bound: the transactions a page sends
    Verdict        \* what may become of them

Terminal == {"CONFIRMED", "FAILED", "EXPIRED", "DROPPED_REPLACED"}
ASSUME HookAssumption == MaxSends \in Nat /\ Verdict \subseteq Terminal

Hash == 1 .. MaxSends          \* in the order they are sent; 0 is none
Status == {"NONE", "PENDING"} \cup Terminal

VARIABLES
    row,           \* the status of each transaction in the API's table
    hook,          \* the refs and the state of the hook, and its page's visibility
    sends,         \* how many transactions the page has sent
    outbox,        \* rows that are on their way through the stream
    told,          \* how often each final status of each was announced
    haunted        \* whether a reconnect has ever outlived its hash

vars == <<row, outbox, hook, sends, told, haunted>>

Record == [hash : 0 .. MaxSends, status : Status]
NoRecord == [hash |-> 0, status |-> "NONE"]
\* sseRef: up once connected, calm when the last record used is two seconds old.
Stream == [hash : 0 .. MaxSends, up : BOOLEAN, calm : BOOLEAN]
NoStream == [hash |-> 0, up |-> FALSE, calm |-> TRUE]
\* A request and the statuses its row has had since: the server reads one.
Fetch == [hash : 0 .. MaxSends, since : SUBSET Status]
NoFetch == [hash |-> 0, since |-> {}]

Request == {"own", "shared"}
\* own is the request with the signal of the first effect, shared the one
\* with the signal in abortRef; poll is the hash that pollTimer works for.
\* waits stands for nextAllowedAtRef and backoffUntilRef, a time to come;
\* reconnects are the hashes whose onerror set a timer that is still to fire.
Hook == [visible : BOOLEAN, hash : 0 .. MaxSends, shown : Record, last : Record,
         called : SUBSET Terminal, es : Stream, sseOpen : BOOLEAN,
         poll : 0 .. MaxSends, own : Fetch, shared : Fetch,
         inFlight : BOOLEAN, waits : BOOLEAN,
         reconnects : SUBSET Hash]

Init ==
    /\ row = [h \in Hash |-> "NONE"]
    /\ hook = [visible |-> TRUE, hash |-> 0, shown |-> NoRecord, last |-> NoRecord, called |-> {},
               es |-> NoStream, sseOpen |-> FALSE, poll |-> 0,
               own |-> NoFetch, shared |-> NoFetch,
               inFlight |-> FALSE, waits |-> FALSE,
               reconnects |-> {}]
    /\ sends = 0
    /\ outbox = {}
    /\ told = [h \in Hash |-> [v \in Terminal |-> 0]]
    /\ haunted = FALSE

-----------------------------------------------------------------------------
\* The helpers of the hook, from one state of it to the next.
CleanupTimers(s) == [s EXCEPT !.poll = 0]
CloseSSE(s) == [s EXCEPT !.es = NoStream, !.sseOpen = FALSE]

\* Two requests at once: the answer to the first unlocks the second.
FetchOnce(s, h, mine) ==
    IF ~s.visible \/ s.waits \/ s.inFlight THEN s
    ELSE LET asked == [hash |-> h, since |-> {row[h]}]
             aborts == s.shared # NoFetch IN
         [s EXCEPT !.own = IF mine THEN asked ELSE s.own,
                   !.shared = IF mine THEN NoFetch ELSE asked,
                   !.waits = TRUE, !.inFlight = ~aborts]

StartPolling(s, h) ==
    IF s.poll # 0 THEN s
    ELSE [(IF s.sseOpen THEN s ELSE FetchOnce(s, h, FALSE)) EXCEPT !.poll = h]

StreamOrNothing(s, h) ==
    IF s.visible THEN [CloseSSE(s) EXCEPT !.es = [NoStream EXCEPT !.hash = h]] ELSE s

StartSSE(s, h) ==
    IF s.visible THEN [CloseSSE(s) EXCEPT !.es = [NoStream EXCEPT !.hash = h]]
    ELSE StartPolling(s, h)

IsTerminal(status) == status \in Terminal
Announces(s, r) == IsTerminal(r.status) /\ r.status \notin s.called

FireUnmarked(s, r) ==
    IF IsTerminal(r.status) THEN CloseSSE(CleanupTimers(s)) ELSE s
FireAtAny(s, r) ==
    CloseSSE(CleanupTimers([s EXCEPT !.called = s.called \cup {r.status}]))

\* Each callback once; the first final status stops polls and stream, not the
\* requests in flight.
FireCallbacks(s, r) ==
    IF IsTerminal(r.status)
    THEN CloseSSE(CleanupTimers([s EXCEPT !.called = s.called \cup {r.status}]))
    ELSE s

IsNews(s, r) == r # s.last
Take(s, r) == FireCallbacks([s EXCEPT !.last = r, !.shown = r], r)

\* s takes r, and whoever listens is told.  A third time counts as a second.
Tell(s, r) ==
    IF IsNews(s, r) /\ Announces(s, r)
    THEN told' = [told EXCEPT ![r.hash][r.status] = IF @ = 2 THEN 2 ELSE @ + 1]
    ELSE UNCHANGED told

-----------------------------------------------------------------------------
Page == UNCHANGED <<row, outbox, sends>>

\* Cleanup of both effects, then both effects for the new hash.  The requests
\* of the old one reject afterwards: they unlock and delay those of the new.
CleanedUnaborted(h) ==
    [CloseSSE(CleanupTimers(hook)) EXCEPT
        !.hash = h, !.called = {}, !.inFlight = FALSE, !.waits = FALSE,
        !.shown = IF h = 0 THEN NoRecord ELSE hook.shown]

Cleaned(h) ==
    [CloseSSE(CleanupTimers(hook)) EXCEPT
        !.hash = h, !.called = {}, !.own = NoFetch, !.shared = NoFetch,
        !.inFlight = FALSE, !.waits = FALSE,
        !.shown = IF h = 0 THEN NoRecord ELSE hook.shown]

Follow(h) ==
    LET begun == IF h = 0 THEN Cleaned(h)
                 ELSE StartSSE(FetchOnce(Cleaned(h), h, TRUE), h) IN
    hook' = IF hook.own = NoFetch /\ hook.shared = NoFetch THEN begun
            ELSE [begun EXCEPT !.inFlight = FALSE, !.waits = TRUE]

\* onSend sets the hash of a transfer, a new one each time, or none if the
\* transfer failed.
SetHash ==
    /\ sends < MaxSends
    /\ sends' = sends + 1
    /\ Follow(sends + 1)
    /\ UNCHANGED <<row, outbox, told, haunted>>

SetNoHash ==
    /\ hook.hash # 0
    /\ Follow(0)
    /\ Page /\ UNCHANGED <<told, haunted>>

\* The interval of startPolling.
Tick ==
    /\ hook.poll # 0 /\ ~hook.sseOpen
    /\ hook' = FetchOnce(hook, hook.poll, FALSE)
    /\ hook' # hook
    /\ Page /\ UNCHANGED <<told, haunted>>

DoneLocked(k) == [hook EXCEPT ![k] = NoFetch]
Done(k) == [hook EXCEPT ![k] = NoFetch, !.inFlight = FALSE]

Answer(k) ==
    \E status \in hook[k].since :
        LET r == [hash |-> hook[k].hash, status |-> status] IN
        /\ IF status # "NONE" /\ IsNews(hook, r)
           THEN hook' = Take(Done(k), r) /\ Tell(hook, r)
           ELSE hook' = Done(k) /\ UNCHANGED told
        /\ Page /\ UNCHANGED haunted

FetchFails(k) ==
    /\ hook[k] # NoFetch
    /\ hook' = [Done(k) EXCEPT !.waits = TRUE]
    /\ Page /\ UNCHANGED <<told, haunted>>

-----------------------------------------------------------------------------
StreamOpens ==
    /\ hook.es # NoStream /\ ~hook.es.up
    /\ hook' = [CleanupTimers(hook) EXCEPT !.es.up = TRUE, !.sseOpen = TRUE]
    /\ Page /\ UNCHANGED <<told, haunted>>

\* onerror polls meanwhile, for the hash of the stream, and sets a timer that
\* nobody clears.  The browser may connect the same stream again by itself.
StreamBreaks ==
    /\ hook.es # NoStream
    /\ LET h == hook.es.hash
           broken == [hook EXCEPT !.sseOpen = FALSE, !.es.up = FALSE]
       IN hook' = [StartPolling(broken, h) EXCEPT !.reconnects = hook.reconnects \cup {h}]
    /\ Page /\ UNCHANGED <<told, haunted>>

Reconnect(h) ==
    /\ h \in hook.reconnects
    /\ LET fired == [hook EXCEPT !.reconnects = hook.reconnects \ {h}]
       IN hook' = IF hook.visible THEN StartSSE(fired, h) ELSE fired
    /\ haunted' = (haunted \/ (hook.visible /\ h # hook.hash))
    /\ Page /\ UNCHANGED told

\* Time passes: the least interval and the back-off, or the debounce ends.
Elapse ==
    /\ \/ hook.waits /\ hook' = [hook EXCEPT !.waits = FALSE]
       \/ ~hook.es.calm /\ hook' = [hook EXCEPT !.es.calm = TRUE]
    /\ Page /\ UNCHANGED <<told, haunted>>

-----------------------------------------------------------------------------
\* The events of window and document; the hook listens while it has a hash.
Restart(s) ==
    IF s.hash = 0 THEN s ELSE StartSSE(FetchOnce(s, s.hash, FALSE), s.hash)

Deafened(s) == IF s.hash = 0 THEN s ELSE [s EXCEPT !.sseOpen = FALSE]

Hide ==
    /\ hook.visible
    /\ hook' = Deafened([hook EXCEPT !.visible = FALSE])
    /\ Page /\ UNCHANGED <<told, haunted>>

Show ==
    /\ ~hook.visible
    /\ hook' = Restart([hook EXCEPT !.visible = TRUE])
    /\ Page /\ UNCHANGED <<told, haunted>>

\* No request or stream of the model looks at navigator.onLine: the two events
\* come and go as they like.
GoOffline == hook' = Deafened(hook) /\ Page /\ UNCHANGED <<told, haunted>>
GoOnline == hook' = Restart(hook) /\ Page /\ UNCHANGED <<told, haunted>>

-----------------------------------------------------------------------------
\* The API: POST makes a row, a webhook or a job settles it, and an expired
\* one may turn out to be confirmed.  Jobs push nothing.
Reading(h, v) ==
    [k \in DOMAIN hook |->
        IF k \in Request /\ hook[k].hash = h
        THEN [hook[k] EXCEPT !.since = @ \cup {v}] ELSE hook[k]]

RowChanges(h) ==
    \E v \in Verdict \cup {"PENDING"}, pushed \in BOOLEAN :
        /\ \/ row[h] = "NONE" /\ pushed
           \/ row[h] = "PENDING" /\ v # "PENDING"
           \/ row[h] = "EXPIRED" /\ v = "CONFIRMED"
        /\ row' = [row EXCEPT ![h] = v]
        /\ outbox' = IF pushed THEN outbox \cup {[hash |-> h, status |-> v]} ELSE outbox
        /\ hook' = Reading(h, v)
        /\ UNCHANGED <<sends, told, haunted>>

\* Handlers push after their write, in any order, to whoever is connected.
\* onmessage drops what is for another hash, within two seconds of the last
\* record it used, or no news.
Message(r) ==
    /\ r \in outbox
    /\ outbox' = outbox \ {r}
    /\ IF hook.es.up /\ hook.es.calm /\ r.hash = hook.es.hash /\ IsNews(hook, r)
       THEN hook' = Take([hook EXCEPT !.es.calm = FALSE], r) /\ Tell(hook, r)
       ELSE UNCHANGED <<hook, told>>
    /\ UNCHANGED <<row, sends, haunted>>

-----------------------------------------------------------------------------
Next ==
    \/ SetHash \/ SetNoHash \/ Tick \/ Elapse
    \/ \E k \in Request : Answer(k) \/ FetchFails(k)
    \/ StreamOpens \/ StreamBreaks
    \/ \E h \in Hash : Reconnect(h) \/ RowChanges(h)
    \/ Hide \/ Show \/ GoOffline \/ GoOnline
    \/ \E r \in outbox : Message(r)

Spec == Init /\ [][Next]_vars

\* The browser runs timers, every connection and request succeeds or fails,
\* and polls that are repeated for ever do not all fail.
Connects == StreamOpens \/ (~hook.es.up /\ StreamBreaks)
Settles(k) == Answer(k) \/ FetchFails(k)
FairSpec ==
    /\ Spec
    /\ WF_vars(Tick) /\ WF_vars(Elapse) /\ WF_vars(Connects)
    /\ WF_vars(Settles("own")) /\ SF_vars(Answer("shared"))

-----------------------------------------------------------------------------
HookTypeOK ==
    /\ row \in [Hash -> Status]
    /\ outbox \subseteq Record
    /\ hook \in Hook
    /\ sends \in 0 .. MaxSends
    /\ told \in [Hash -> [Terminal -> 0 .. 2]]
    /\ haunted \in BOOLEAN

\* Whatever requests and messages are still under way when the hash changes,
\* a record that appears on the page is of the transaction it follows, unless
\* a reconnect has outlived its hash.
ShownIsFollowed ==
    [][hook'.shown # hook.shown /\ hook'.hash # 0 =>
          hook'.shown.hash = hook'.hash \/ haunted]_vars

\* Status callbacks fire the first time only (useTxStatus.ts:18): no outcome
\* of a transaction is announced twice, however often stream and polls repeat
\* it or contradict each other, unless a reconnect has outlived its hash.
AnnouncedOnce == haunted \/ \A h \in Hash, v \in Terminal : told[h][v] < 2

\* While nothing final was heard of the transaction, the hook listens to a
\* stream or polls, whatever breaks, hides or goes offline.
NeverDeaf ==
    hook.hash # 0 /\ hook.called = {} => hook.es # NoStream \/ hook.poll # 0

\* A final status does not stay unheard while the page is visible and the
\* stream closed: polling stands in for it.  (With an open stream it may: what
\* the jobs write is never pushed, and the debounce drops messages.)
Unheard(h) ==
    /\ hook.hash = h /\ hook.visible /\ ~hook.es.up /\ ~haunted
    /\ IsTerminal(row[h])
    /\ \A v \in Terminal : told[h][v] = 0
EventuallyAnnounced == \A h \in Hash : ~<>[]Unheard(h)

\* The instance for TLC ends a behaviour where a reconnect outlives its hash:
\* the page is then taken back to an older transaction and may announce it
\* again, which the properties above except.
NotHaunted == ~haunted
=============================================================================
