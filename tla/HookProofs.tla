----------------------------- MODULE HookProofs -----------------------------
(***************************************************************************)
(* Proofs about TxStatusHook, for any number of sends and any verdicts.    *)
(* The invariant says what the refs of the hook are about: everything that *)
(* is under way is for the transaction the page follows (OwnAffairs), until*)
(* a reconnect has outlived its hash, and what is announced is remembered. *)
(***************************************************************************)
EXTENDS TxStatusHook, TLAPS

\* A stream and a request that are there are for a hash.
HookFine(s) ==
    /\ s \in Hook
    /\ s.es.hash = 0 => s.es = NoStream
    /\ \A k \in Request : s[k].hash = 0 => s[k].since = {}

\* Everything under way in s is for h.
Only(s, h) ==
    /\ s.es.hash \in {0, h}
    /\ s.poll \in {0, h}
    /\ \A k \in Request : s[k].hash \in {0, h}

Listens(s) == s.es # NoStream \/ s.poll # 0

OwnAffairs == haunted \/ Only(hook, hook.hash)

Remembered ==
    \/ haunted
    \/ /\ hook.hash \in {0, sends}
       /\ \A h \in Hash, v \in Terminal :
            /\ told[h][v] < 2
            /\ h > sends => told[h][v] = 0
            /\ h = hook.hash /\ told[h][v] # 0 => v \in hook.called

HookIInv == HookTypeOK /\ HookFine(hook) /\ OwnAffairs /\ Remembered /\ NeverDeaf

-----------------------------------------------------------------------------
\* What a handler leaves as it is unless it takes a record or a new hash.
SameTold(s, t) ==
    /\ s.shown = t.shown /\ s.last = t.last /\ s.called = t.called
    /\ s.hash = t.hash /\ s.visible = t.visible

LEMMA Constants1 ==
    /\ NoStream \in Stream /\ NoFetch \in Fetch /\ NoRecord \in Record
    /\ NoStream.hash = 0 /\ NoFetch.hash = 0 /\ NoFetch.since = {}
    /\ \A h \in Hash : h \in 0 .. MaxSends /\ h # 0
    /\ \A h \in 0 .. MaxSends : h = 0 \/ h \in Hash
<1> USE HookAssumption
<1>1. 0 \in 0 .. MaxSends OBVIOUS
<1>2. "NONE" \in Status BY DEF Status
<1> QED BY <1>1, <1>2 DEF NoStream, Stream, NoFetch, Fetch, NoRecord, Record, Hash

LEMMA CleanupTimersFine ==
    ASSUME NEW s, HookFine(s)
    PROVE  /\ HookFine(CleanupTimers(s)) /\ SameTold(CleanupTimers(s), s)
           /\ CleanupTimers(s).es = s.es /\ CleanupTimers(s).own = s.own
           /\ CleanupTimers(s).shared = s.shared /\ CleanupTimers(s).poll = 0
<1>1. 0 \in 0 .. MaxSends BY HookAssumption
<1> QED BY <1>1 DEF HookFine, CleanupTimers, SameTold, Hook, Request

LEMMA CloseSSEFine ==
    ASSUME NEW s, HookFine(s)
    PROVE  /\ HookFine(CloseSSE(s)) /\ SameTold(CloseSSE(s), s)
           /\ CloseSSE(s).es = NoStream /\ CloseSSE(s).own = s.own
           /\ CloseSSE(s).shared = s.shared /\ CloseSSE(s).poll = s.poll
<1>1. NoStream \in Stream BY Constants1
<1> QED BY <1>1 DEF HookFine, CloseSSE, SameTold, Hook, Request

LEMMA FetchOnceFine ==
    ASSUME NEW s, HookFine(s), NEW h \in Hash, NEW mine \in BOOLEAN,
           row \in [Hash -> Status]
    PROVE  LET t == FetchOnce(s, h, mine) IN
           /\ HookFine(t) /\ SameTold(t, s)
           /\ t.es = s.es /\ t.poll = s.poll
           /\ t.own.hash \in {0, s.own.hash, h} /\ t.shared.hash \in {0, s.shared.hash, h}
<1> DEFINE asked == [hash |-> h, since |-> {row[h]}]
<1>1. asked \in Fetch /\ asked.hash = h /\ h # 0 BY Constants1 DEF Fetch
<1>2. NoFetch \in Fetch /\ NoFetch.hash = 0 /\ NoFetch.since = {} BY Constants1
<1>3. CASE ~s.visible \/ s.waits \/ s.inFlight
  BY <1>3 DEF FetchOnce, SameTold
<1>4. CASE ~(~s.visible \/ s.waits \/ s.inFlight)
  <2> DEFINE t == [s EXCEPT !.own = IF mine THEN asked ELSE s.own,
                            !.shared = IF mine THEN NoFetch ELSE asked,
                            !.waits = TRUE, !.inFlight = ~(s.shared # NoFetch)]
  <2>1. FetchOnce(s, h, mine) = t BY <1>4 DEF FetchOnce
  <2>2. t \in Hook BY <1>1, <1>2 DEF HookFine, Hook
  <2>3. /\ t.own = IF mine THEN asked ELSE s.own
        /\ t.shared = IF mine THEN NoFetch ELSE asked
        /\ t.es = s.es /\ t.poll = s.poll /\ SameTold(t, s)
    BY DEF HookFine, Hook, SameTold
  <2>4. HookFine(t)
    BY <2>2, <2>3, <1>1, <1>2 DEF HookFine, Request
  <2> HIDE DEF t
  <2> QED BY <2>1, <2>3, <2>4, <1>1, <1>2
<1> QED BY <1>3, <1>4

LEMMA StartPollingFine ==
    ASSUME NEW s, HookFine(s), NEW h \in Hash, row \in [Hash -> Status]
    PROVE  LET t == StartPolling(s, h) IN
           /\ HookFine(t) /\ SameTold(t, s)
           /\ t.es = s.es /\ t.poll \in {s.poll, h} /\ t.poll # 0
           /\ t.own.hash \in {0, s.own.hash, h} /\ t.shared.hash \in {0, s.shared.hash, h}
<1> DEFINE u == IF s.sseOpen THEN s ELSE FetchOnce(s, h, FALSE)
<1>1. /\ HookFine(u) /\ SameTold(u, s) /\ u.es = s.es
      /\ u.own.hash \in {0, s.own.hash, h} /\ u.shared.hash \in {0, s.shared.hash, h}
  BY FetchOnceFine DEF SameTold
<1>2. h \in 0 .. MaxSends BY Constants1
<1>3. CASE s.poll # 0 BY <1>3 DEF StartPolling, SameTold
<1>4. CASE s.poll = 0
  <2> DEFINE t == [u EXCEPT !.poll = h]
  <2>1. StartPolling(s, h) = t BY <1>4 DEF StartPolling
  <2> HIDE DEF u
  <2>2. /\ t \in Hook /\ t.poll = h /\ t.es = u.es /\ t.own = u.own /\ t.shared = u.shared
        /\ SameTold(t, u)
    BY <1>1, <1>2 DEF HookFine, Hook, SameTold
  <2>3. HookFine(t) BY <1>1, <2>2 DEF HookFine, Request
  <2>4. SameTold(t, s) BY <1>1, <2>2 DEF SameTold
  <2>5. /\ t.es = s.es /\ t.poll \in {s.poll, h} /\ t.poll # 0
        /\ t.own.hash \in {0, s.own.hash, h} /\ t.shared.hash \in {0, s.shared.hash, h}
    BY <2>2, <1>1, Constants1
  <2> HIDE DEF t
  <2> QED BY <2>1, <2>3, <2>4, <2>5
<1> QED BY <1>3, <1>4

LEMMA StartSSEFine ==
    ASSUME NEW s, HookFine(s), NEW h \in Hash, row \in [Hash -> Status]
    PROVE  LET t == StartSSE(s, h) IN
           /\ HookFine(t) /\ SameTold(t, s) /\ Listens(t)
           /\ t.es.hash \in {s.es.hash, h} /\ t.poll \in {s.poll, h}
           /\ t.own.hash \in {0, s.own.hash, h} /\ t.shared.hash \in {0, s.shared.hash, h}
<1>1. CASE s.visible
  <2> DEFINE es == [NoStream EXCEPT !.hash = h]
             u == CloseSSE(s)
             t == [u EXCEPT !.es = es]
  <2>1. es \in Stream /\ es.hash = h /\ h # 0 BY Constants1 DEF Stream, NoStream
  <2>2. HookFine(u) /\ SameTold(u, s) /\ u.own = s.own /\ u.shared = s.shared /\ u.poll = s.poll
    BY CloseSSEFine
  <2>3. StartSSE(s, h) = t BY <1>1 DEF StartSSE
  <2> HIDE DEF u, es
  <2>4. /\ t \in Hook /\ t.es = es /\ t.own = u.own /\ t.shared = u.shared /\ t.poll = u.poll
        /\ SameTold(t, u)
    BY <2>1, <2>2 DEF HookFine, Hook, SameTold
  <2>5. HookFine(t) BY <2>1, <2>2, <2>4 DEF HookFine, Request
  <2>6. SameTold(t, s) BY <2>2, <2>4 DEF SameTold
  <2>7. Listens(t) BY <2>1, <2>4, Constants1 DEF Listens
  <2> HIDE DEF t
  <2> QED BY <2>1, <2>2, <2>3, <2>4, <2>5, <2>6, <2>7
<1>2. CASE ~s.visible
  <2>1. StartSSE(s, h) = StartPolling(s, h) BY <1>2 DEF StartSSE
  <2>2. h # 0 BY Constants1
  <2> QED BY <2>1, <2>2, StartPollingFine DEF Listens
<1> QED BY <1>1, <1>2

\* A final record is remembered and stops stream and polls.
LEMMA TakeFine ==
    ASSUME NEW s, HookFine(s), NEW r \in Record
    PROVE  LET t == Take(s, r) IN
           /\ HookFine(t) /\ t.hash = s.hash /\ t.shown = r
           /\ t.own = s.own /\ t.shared = s.shared
           /\ t.es \in {s.es, NoStream} /\ t.poll \in {s.poll, 0}
           /\ r.status \in Terminal => t.called = s.called \cup {r.status}
           /\ r.status \notin Terminal => t.called = s.called /\ t.es = s.es /\ t.poll = s.poll
<1> DEFINE u == [s EXCEPT !.last = r, !.shown = r]
           v == [u EXCEPT !.called = u.called \cup {r.status}]
           t == CloseSSE(CleanupTimers(v))
<1>1. /\ u \in Hook /\ u.hash = s.hash /\ u.shown = r /\ u.own = s.own /\ u.shared = s.shared
      /\ u.es = s.es /\ u.poll = s.poll /\ u.called = s.called
  BY DEF HookFine, Hook
<1>2. HookFine(u) BY <1>1 DEF HookFine, Request
<1> HIDE DEF u
<1>3. CASE r.status \in Terminal
  <2>1. Take(s, r) = t BY <1>3 DEF Take, FireCallbacks, IsTerminal, u
  <2>2. /\ v \in Hook /\ v.hash = u.hash /\ v.shown = u.shown /\ v.own = u.own
        /\ v.shared = u.shared /\ v.es = u.es /\ v.poll = u.poll
        /\ v.called = u.called \cup {r.status}
    BY <1>3, <1>1 DEF Hook
  <2>3. HookFine(v) BY <1>2, <2>2 DEF HookFine, Request
  <2> HIDE DEF v
  <2>4. /\ HookFine(CleanupTimers(v)) /\ SameTold(CleanupTimers(v), v)
        /\ CleanupTimers(v).own = v.own /\ CleanupTimers(v).shared = v.shared
        /\ CleanupTimers(v).poll = 0
    BY <2>3, CleanupTimersFine
  <2>5. /\ HookFine(t) /\ SameTold(t, CleanupTimers(v)) /\ t.es = NoStream
        /\ t.own = v.own /\ t.shared = v.shared /\ t.poll = 0
    BY <2>4, CloseSSEFine
  <2> HIDE DEF t
  <2> QED BY <1>1, <1>3, <2>1, <2>2, <2>4, <2>5 DEF SameTold
<1>4. CASE r.status \notin Terminal
  <2>1. Take(s, r) = u BY <1>4 DEF Take, FireCallbacks, IsTerminal, u
  <2> QED BY <1>1, <1>2, <1>4, <2>1
<1> QED BY <1>3, <1>4

LEMMA RestartFine ==
    ASSUME NEW s, HookFine(s), row \in [Hash -> Status]
    PROVE  LET t == Restart(s) IN
           /\ HookFine(t) /\ SameTold(t, s)
           /\ Only(s, s.hash) => Only(t, s.hash)
           /\ Listens(s) => Listens(t)
<1>1. CASE s.hash = 0 BY <1>1 DEF Restart, SameTold
<1>2. CASE s.hash # 0
  <2> DEFINE u == FetchOnce(s, s.hash, FALSE)
             t == StartSSE(u, s.hash)
  <2>1. s.hash \in Hash BY <1>2, Constants1 DEF HookFine, Hook
  <2>2. Restart(s) = t BY <1>2 DEF Restart
  <2>3. /\ HookFine(u) /\ SameTold(u, s) /\ u.es = s.es /\ u.poll = s.poll
        /\ u.own.hash \in {0, s.own.hash, s.hash} /\ u.shared.hash \in {0, s.shared.hash, s.hash}
    BY <2>1, FetchOnceFine
  <2> HIDE DEF u
  <2>4. /\ HookFine(t) /\ SameTold(t, u) /\ Listens(t)
        /\ t.es.hash \in {u.es.hash, s.hash} /\ t.poll \in {u.poll, s.hash}
        /\ t.own.hash \in {0, u.own.hash, s.hash} /\ t.shared.hash \in {0, u.shared.hash, s.hash}
    BY <2>1, <2>3, StartSSEFine
  <2> HIDE DEF t
  <2>5. Only(s, s.hash) => Only(t, s.hash) BY <2>3, <2>4 DEF Only, Request
  <2> QED BY <2>2, <2>3, <2>4, <2>5 DEF SameTold
<1> QED BY <1>1, <1>2

LEMMA DeafenedFine ==
    ASSUME NEW s, HookFine(s)
    PROVE  LET t == Deafened(s) IN
           /\ HookFine(t) /\ SameTold(t, s)
           /\ Only(s, s.hash) => Only(t, s.hash)
           /\ Listens(s) => Listens(t)
<1>1. CASE s.hash = 0 BY <1>1 DEF Deafened, SameTold
<1>2. CASE s.hash # 0
  <2> DEFINE t == [s EXCEPT !.sseOpen = FALSE]
  <2>1. Deafened(s) = t BY <1>2 DEF Deafened
  <2>2. /\ t \in Hook /\ t.es = s.es /\ t.poll = s.poll /\ t.own = s.own /\ t.shared = s.shared
        /\ SameTold(t, s)
    BY DEF HookFine, Hook, SameTold
  <2>3. HookFine(t) BY <2>2 DEF HookFine, Request
  <2> HIDE DEF t
  <2> QED BY <2>1, <2>2, <2>3 DEF Only, Listens, Request
<1> QED BY <1>1, <1>2

LEMMA CleanedFine ==
    ASSUME HookFine(hook), NEW h \in 0 .. MaxSends
    PROVE  LET t == Cleaned(h) IN
           /\ HookFine(t) /\ t.hash = h /\ t.called = {} /\ Only(t, h)
           /\ h # 0 => t.shown = hook.shown
<1> DEFINE u == CloseSSE(CleanupTimers(hook))
           t == Cleaned(h)
<1>1. /\ HookFine(CleanupTimers(hook)) /\ SameTold(CleanupTimers(hook), hook)
      /\ CleanupTimers(hook).poll = 0
  BY CleanupTimersFine
<1>2. HookFine(u) /\ u.es = NoStream /\ u.poll = 0
  BY <1>1, CloseSSEFine
<1>3. NoFetch \in Fetch /\ NoRecord \in Record /\ NoStream.hash = 0 /\ NoFetch.hash = 0 /\ NoFetch.since = {}
  BY Constants1
<1>4. t = [u EXCEPT !.hash = h, !.called = {}, !.own = NoFetch, !.shared = NoFetch,
                    !.inFlight = FALSE, !.waits = FALSE,
                    !.shown = IF h = 0 THEN NoRecord ELSE hook.shown]
  BY DEF Cleaned
<1> HIDE DEF u, t
<1>5. /\ t \in Hook /\ t.hash = h /\ t.called = {} /\ t.own = NoFetch /\ t.shared = NoFetch
      /\ t.es = u.es /\ t.poll = u.poll /\ (h # 0 => t.shown = hook.shown)
  BY <1>2, <1>3, <1>4 DEF HookFine, Hook
<1>6. HookFine(t) BY <1>2, <1>3, <1>5 DEF HookFine, Request
<1>7. Only(t, h) BY <1>2, <1>3, <1>5 DEF Only, Request
<1> QED BY <1>5, <1>6, <1>7 DEF t

\* A new hash starts with nothing of the old one under way.
LEMMA FollowFine ==
    ASSUME HookFine(hook), row \in [Hash -> Status], NEW h \in 0 .. MaxSends, Follow(h)
    PROVE  /\ HookFine(hook') /\ hook'.hash = h /\ hook'.called = {} /\ Only(hook', h)
           /\ h # 0 => hook'.shown = hook.shown /\ Listens(hook')
<1> DEFINE c == Cleaned(h)
           f == FetchOnce(c, h, TRUE)
           b == IF h = 0 THEN c ELSE StartSSE(f, h)
           d == [b EXCEPT !.inFlight = FALSE, !.waits = TRUE]
<1>1. /\ HookFine(c) /\ c.hash = h /\ c.called = {} /\ Only(c, h)
      /\ h # 0 => c.shown = hook.shown
  BY CleanedFine
<1>2. hook' = b \/ hook' = d BY DEF Follow
<1> HIDE DEF c
<1>3. /\ HookFine(b) /\ b.hash = h /\ b.called = {} /\ Only(b, h)
      /\ h # 0 => b.shown = hook.shown /\ Listens(b)
  <2>1. CASE h = 0 BY <2>1, <1>1
  <2>2. CASE h # 0
    <3> DEFINE t == StartSSE(f, h)
    <3>1. h \in Hash BY <2>2, Constants1
    <3>2. /\ HookFine(f) /\ SameTold(f, c) /\ f.es = c.es /\ f.poll = c.poll
          /\ f.own.hash \in {0, c.own.hash, h} /\ f.shared.hash \in {0, c.shared.hash, h}
      BY <3>1, <1>1, FetchOnceFine
    <3> HIDE DEF f
    <3>3. /\ HookFine(t) /\ SameTold(t, f) /\ Listens(t)
          /\ t.es.hash \in {f.es.hash, h} /\ t.poll \in {f.poll, h}
          /\ t.own.hash \in {0, f.own.hash, h} /\ t.shared.hash \in {0, f.shared.hash, h}
      BY <3>1, <3>2, StartSSEFine
    <3>4. b = t BY <2>2
    <3> HIDE DEF t, b
    <3>5. Only(t, h) BY <1>1, <3>2, <3>3 DEF Only, Request
    <3> QED BY <1>1, <3>2, <3>3, <3>4, <3>5 DEF SameTold
  <2> QED BY <2>1, <2>2
<1> HIDE DEF b
<1>4. /\ d \in Hook /\ d.hash = b.hash /\ d.called = b.called /\ d.shown = b.shown
      /\ d.es = b.es /\ d.poll = b.poll /\ d.own = b.own /\ d.shared = b.shared
  BY <1>3 DEF HookFine, Hook
<1>5. HookFine(d) BY <1>3, <1>4 DEF HookFine, Request
<1>6. Only(d, h) BY <1>3, <1>4 DEF Only, Request
<1>7. h # 0 => Listens(d) BY <1>3, <1>4 DEF Listens
<1> HIDE DEF d
<1> QED BY <1>2, <1>3, <1>4, <1>5, <1>6, <1>7

-----------------------------------------------------------------------------
\* ShownIsFollowed, of one step.
ShownStep == hook'.shown # hook.shown /\ hook'.hash # 0 =>
                 hook'.shown.hash = hook'.hash \/ haunted

\* A step that takes no record and no new hash.
Quiet ==
    /\ row' \in [Hash -> Status] /\ outbox' \subseteq Record
    /\ UNCHANGED <<sends, told>>
    /\ haunted' \in BOOLEAN /\ (haunted => haunted')
    /\ HookFine(hook')
    /\ hook'.hash = hook.hash /\ hook'.called = hook.called /\ hook'.shown = hook.shown
    /\ haunted' \/ haunted \/ (Only(hook, hook.hash) => Only(hook', hook.hash))
    /\ Listens(hook) => Listens(hook')

LEMMA QuietStep ==
    ASSUME HookIInv, Quiet
    PROVE  HookIInv' /\ ShownStep
<1>1. HookTypeOK' BY DEF HookIInv, HookTypeOK, Quiet, HookFine
<1>2. HookFine(hook)' BY DEF Quiet, HookFine
<1>3. OwnAffairs' BY DEF HookIInv, OwnAffairs, Quiet, Only
<1>4. Remembered' BY DEF HookIInv, Remembered, Quiet
<1>5. NeverDeaf' BY DEF HookIInv, NeverDeaf, Quiet, Listens
<1> QED BY <1>1, <1>2, <1>3, <1>4, <1>5 DEF HookIInv, ShownStep, Quiet

\* Page, with nothing told: what the quiet actions of the page have in common.
LEMMA PageStep ==
    ASSUME HookIInv, Page, UNCHANGED <<told, haunted>>, HookFine(hook'), SameTold(hook', hook),
           Only(hook, hook.hash) => Only(hook', hook.hash),
           Listens(hook) => Listens(hook')
    PROVE  HookIInv' /\ ShownStep
<1>1. Quiet BY DEF HookIInv, HookTypeOK, Page, Quiet, SameTold
<1> QED BY <1>1, QuietStep

\* A step that takes a record: whatever came with it, its outcome is remembered
\* where it is told.
LEMMA HeardStep ==
    ASSUME HookIInv, NEW s, HookFine(s), SameTold(s, hook),
           Only(hook, hook.hash) => Only(s, hook.hash),
           Listens(hook) => Listens(s),
           NEW r \in Record, r.hash # 0, haunted \/ r.hash = hook.hash,
           IsNews(hook, r), Tell(hook, r), hook' = Take(s, r),
           UNCHANGED <<row, sends, haunted>>, outbox' \subseteq Record
    PROVE  HookIInv' /\ ShownStep
<1> DEFINE t == Take(s, r)
<1>1. /\ HookFine(t) /\ t.hash = s.hash /\ t.shown = r
      /\ t.own = s.own /\ t.shared = s.shared
      /\ t.es \in {s.es, NoStream} /\ t.poll \in {s.poll, 0}
      /\ r.status \in Terminal => t.called = s.called \cup {r.status}
      /\ r.status \notin Terminal => t.called = s.called /\ t.es = s.es /\ t.poll = s.poll
  BY TakeFine
<1>2. hook' = t OBVIOUS
<1> HIDE DEF t
<1>3. HookFine(hook)' BY <1>1, <1>2 DEF HookFine
<1>4. r.hash \in Hash BY Constants1 DEF Record
<1>5. told \in [Hash -> [Terminal -> 0 .. 2]] BY DEF HookIInv, HookTypeOK
<1>6. \/ r.status \in Terminal /\ r.status \notin hook.called
         /\ told' = [told EXCEPT ![r.hash][r.status] =
                        IF told[r.hash][r.status] = 2 THEN 2 ELSE told[r.hash][r.status] + 1]
      \/ (r.status \in Terminal => r.status \in hook.called) /\ told' = told
  BY <1>4, <1>5 DEF Tell, Announces, IsTerminal
<1>7. told' \in [Hash -> [Terminal -> 0 .. 2]]
  BY <1>4, <1>5, <1>6
<1>8. HookTypeOK' BY <1>3, <1>7 DEF HookIInv, HookTypeOK, HookFine
<1>9. OwnAffairs'
  <2>1. NoStream.hash = 0 BY Constants1
  <2> QED BY <1>1, <1>2, <2>1 DEF HookIInv, OwnAffairs, Only, SameTold, Request
<1>10. Remembered'
  <2> SUFFICES ASSUME ~haunted PROVE Remembered' BY DEF Remembered
  <2>1. /\ r.hash = hook.hash /\ hook'.hash = hook.hash /\ sends' = sends
        /\ hook.hash \in {0, sends}
    BY <1>1, <1>2 DEF HookIInv, Remembered, SameTold
  <2>2. hook'.called = IF r.status \in Terminal THEN hook.called \cup {r.status} ELSE hook.called
    BY <1>1, <1>2 DEF SameTold
  <2>3. ASSUME NEW h \in Hash, NEW v \in Terminal
        PROVE  /\ told'[h][v] < 2
               /\ h > sends => told'[h][v] = 0
               /\ h = hook.hash /\ told'[h][v] # 0 => v \in hook'.called
    <3>1. /\ told[h][v] < 2 /\ (h > sends => told[h][v] = 0)
          /\ h = hook.hash /\ told[h][v] # 0 => v \in hook.called
          /\ told[h][v] \in 0 .. 2 /\ h \in Nat /\ sends \in Nat
      BY <1>5 DEF HookIInv, HookTypeOK, Remembered, Hash
    <3>2. CASE told' = told BY <3>1, <3>2, <2>2
    <3>3. CASE /\ r.status \in Terminal /\ r.status \notin hook.called
               /\ told' = [told EXCEPT ![r.hash][r.status] =
                        IF told[r.hash][r.status] = 2 THEN 2 ELSE told[r.hash][r.status] + 1]
      <4>1. CASE h = r.hash /\ v = r.status
        <5>1. told[h][v] = 0 BY <3>1, <3>3, <4>1, <2>1
        <5>2. told'[h][v] = 1 BY <1>4, <1>5, <3>3, <4>1, <5>1
        <5>3. ~(h > sends) BY <1>4, <2>1, <4>1, <3>1, HookAssumption DEF Hash
        <5> QED BY <5>2, <5>3, <2>2, <4>1, <3>3
      <4>2. CASE ~(h = r.hash /\ v = r.status)
        <5>1. told'[h][v] = told[h][v] BY <1>4, <1>5, <3>3, <4>2
        <5> QED BY <5>1, <3>1, <2>2
      <4> QED BY <4>1, <4>2
    <3> QED BY <1>6, <3>2, <3>3
  <2> QED BY <2>1, <2>3 DEF Remembered
<1>11. NeverDeaf'
  <2>1. CASE r.status \in Terminal
    BY <1>1, <1>2, <2>1 DEF NeverDeaf
  <2>2. CASE r.status \notin Terminal
    BY <1>1, <1>2, <2>2 DEF NeverDeaf, HookIInv, SameTold, Listens
  <2> QED BY <2>1, <2>2
<1>12. ShownStep BY <1>1, <1>2 DEF ShownStep, SameTold
<1> QED BY <1>3, <1>8, <1>9, <1>10, <1>11, <1>12 DEF HookIInv

-----------------------------------------------------------------------------
\* The actions, each with what it may disturb.
LEMMA SetHashSteps ==
    ASSUME HookIInv, SetHash \/ SetNoHash
    PROVE  HookIInv' /\ ShownStep
<1>1. ASSUME NEW g \in 0 .. MaxSends, Follow(g), UNCHANGED <<row, outbox, told, haunted>>,
             sends' \in 0 .. MaxSends, g = 0 \/ (g = sends' /\ sends' = sends + 1),
             g = 0 => sends' = sends
      PROVE  HookIInv' /\ ShownStep
  <2>1. /\ HookFine(hook') /\ hook'.hash = g /\ hook'.called = {} /\ Only(hook', g)
        /\ g # 0 => hook'.shown = hook.shown /\ Listens(hook')
    BY <1>1, FollowFine DEF HookIInv, HookTypeOK
  <2>2. HookFine(hook)' BY <2>1 DEF HookFine
  <2>3. HookTypeOK' BY <1>1, <2>1 DEF HookIInv, HookTypeOK, HookFine
  <2>4. OwnAffairs' BY <2>1 DEF OwnAffairs, Only
  <2>5. Remembered'
    <3> SUFFICES ASSUME ~haunted PROVE Remembered' BY <1>1 DEF Remembered
    <3>1. ASSUME NEW k \in Hash, NEW v \in Terminal
          PROVE  /\ told[k][v] < 2 /\ (k > sends' => told[k][v] = 0)
                 /\ k = g => told[k][v] = 0
      <4>1. /\ told[k][v] < 2 /\ (k > sends => told[k][v] = 0)
            /\ k \in Nat /\ k # 0 /\ sends \in Nat
        BY Constants1 DEF HookIInv, HookTypeOK, Remembered, Hash
      <4> QED BY <4>1, <1>1
    <3> QED BY <1>1, <2>1, <3>1 DEF Remembered
  <2>6. NeverDeaf' BY <2>1 DEF NeverDeaf, Listens
  <2>7. ShownStep BY <2>1 DEF ShownStep
  <2> QED BY <2>2, <2>3, <2>4, <2>5, <2>6, <2>7 DEF HookIInv
<1>2. CASE SetHash
  <2>1. /\ sends + 1 \in 0 .. MaxSends /\ sends' = sends + 1
        /\ Follow(sends + 1) /\ UNCHANGED <<row, outbox, told, haunted>>
    BY <1>2, HookAssumption DEF SetHash, HookIInv, HookTypeOK
  <2> QED BY <2>1, <1>1, HookAssumption DEF HookIInv, HookTypeOK
<1>3. CASE SetNoHash
  <2>1. /\ 0 \in 0 .. MaxSends /\ sends' = sends /\ sends \in 0 .. MaxSends
        /\ Follow(0) /\ UNCHANGED <<row, outbox, told, haunted>>
    BY <1>3, HookAssumption DEF SetNoHash, Page, HookIInv, HookTypeOK
  <2> QED BY <2>1, <1>1
<1> QED BY <1>2, <1>3

LEMMA DoneFine ==
    ASSUME HookFine(hook), NEW k \in Request
    PROVE  LET t == Done(k) IN
           /\ HookFine(t) /\ SameTold(t, hook)
           /\ t.es = hook.es /\ t.poll = hook.poll
           /\ Only(hook, hook.hash) => Only(t, hook.hash)
           /\ Listens(hook) => Listens(t)
<1> DEFINE t == Done(k)
<1>1. NoFetch \in Fetch /\ NoFetch.hash = 0 /\ NoFetch.since = {} BY Constants1
<1>2. /\ t \in Hook /\ SameTold(t, hook) /\ t.es = hook.es /\ t.poll = hook.poll
      /\ t.own = (IF k = "own" THEN NoFetch ELSE hook.own)
      /\ t.shared = (IF k = "shared" THEN NoFetch ELSE hook.shared)
  BY <1>1 DEF Done, HookFine, Hook, Request, SameTold
<1> HIDE DEF t
<1>3. HookFine(t) BY <1>1, <1>2 DEF HookFine, Request
<1>4. Only(hook, hook.hash) => Only(t, hook.hash) BY <1>1, <1>2 DEF Only, Request
<1>5. Listens(hook) => Listens(t) BY <1>2 DEF Listens
<1> QED BY <1>2, <1>3, <1>4, <1>5 DEF t

LEMMA AnswerStep ==
    ASSUME HookIInv, NEW k \in Request, Answer(k)
    PROVE  HookIInv' /\ ShownStep
<1> DEFINE t == Done(k)
<1>1. /\ HookFine(t) /\ SameTold(t, hook)
      /\ Only(hook, hook.hash) => Only(t, hook.hash)
      /\ Listens(hook) => Listens(t)
  BY DoneFine DEF HookIInv
<1> HIDE DEF t
<1>2. PICK status \in hook[k].since :
        LET r == [hash |-> hook[k].hash, status |-> status] IN
        /\ IF status # "NONE" /\ IsNews(hook, r)
           THEN hook' = Take(t, r) /\ Tell(hook, r)
           ELSE hook' = t /\ UNCHANGED told
        /\ Page /\ UNCHANGED haunted
  BY DEF Answer, t
<1> DEFINE r == [hash |-> hook[k].hash, status |-> status]
<1>3. CASE ~(status # "NONE" /\ IsNews(hook, r))
  BY <1>1, <1>2, <1>3, PageStep
<1>4. CASE status # "NONE" /\ IsNews(hook, r)
  <2>1. /\ hook[k] \in Fetch /\ (hook[k].hash = 0 => hook[k].since = {})
        /\ haunted \/ hook[k].hash \in {0, hook.hash}
    BY DEF HookIInv, OwnAffairs, Only, HookFine, Request, Hook
  <2>2. /\ r \in Record /\ r.hash # 0 /\ (haunted \/ r.hash = hook.hash)
    BY <1>2, <2>1 DEF Fetch, Record
  <2>3. /\ hook' = Take(t, r) /\ Tell(hook, r) /\ IsNews(hook, r)
        /\ UNCHANGED <<row, sends, haunted>> /\ outbox' \subseteq Record
    BY <1>2, <1>4 DEF Page, HookIInv, HookTypeOK
  <2> HIDE DEF r
  <2> QED BY <1>1, <2>2, <2>3, HeardStep
<1> QED BY <1>3, <1>4

LEMMA RequestSteps ==
    ASSUME HookIInv, Tick \/ \E k \in Request : FetchFails(k)
    PROVE  HookIInv' /\ ShownStep
<1>1. CASE Tick
  <2> DEFINE t == FetchOnce(hook, hook.poll, FALSE)
  <2>1. hook.poll \in Hash /\ row \in [Hash -> Status] /\ HookFine(hook)
    BY <1>1, Constants1 DEF Tick, HookIInv, HookTypeOK, HookFine, Hook
  <2>2. /\ HookFine(t) /\ SameTold(t, hook) /\ t.es = hook.es /\ t.poll = hook.poll
        /\ t.own.hash \in {0, hook.own.hash, hook.poll}
        /\ t.shared.hash \in {0, hook.shared.hash, hook.poll}
    BY <2>1, FetchOnceFine
  <2>3. hook' = t /\ Page /\ UNCHANGED <<told, haunted>> BY <1>1 DEF Tick
  <2> HIDE DEF t
  <2>4. Only(hook, hook.hash) => Only(t, hook.hash) BY <2>2 DEF Only, Request
  <2>5. Listens(hook) => Listens(t) BY <2>2 DEF Listens
  <2> QED BY <2>2, <2>3, <2>4, <2>5, PageStep
<1>2. ASSUME NEW k \in Request, FetchFails(k)
      PROVE  HookIInv' /\ ShownStep
  <2> DEFINE d == Done(k)
             t == [d EXCEPT !.waits = TRUE]
  <2>1. /\ HookFine(d) /\ SameTold(d, hook)
        /\ Only(hook, hook.hash) => Only(d, hook.hash)
        /\ Listens(hook) => Listens(d)
    BY DoneFine DEF HookIInv
  <2>2. hook' = t /\ Page /\ UNCHANGED <<told, haunted>> BY <1>2 DEF FetchFails
  <2> HIDE DEF d
  <2>3. /\ t \in Hook /\ SameTold(t, d) /\ t.es = d.es /\ t.poll = d.poll
        /\ t.own = d.own /\ t.shared = d.shared
    BY <2>1 DEF HookFine, Hook, SameTold
  <2>4. HookFine(t) BY <2>1, <2>3 DEF HookFine, Request
  <2>5. SameTold(t, hook) BY <2>1, <2>3 DEF SameTold
  <2>6. /\ Only(hook, hook.hash) => Only(t, hook.hash)
        /\ Listens(hook) => Listens(t)
    BY <2>1, <2>3 DEF Only, Listens, Request
  <2> HIDE DEF t
  <2> QED BY <2>2, <2>4, <2>5, <2>6, PageStep
<1> QED BY <1>1, <1>2

LEMMA StreamSteps ==
    ASSUME HookIInv, StreamOpens \/ StreamBreaks \/ Elapse
    PROVE  HookIInv' /\ ShownStep
<1>1. HookFine(hook) /\ row \in [Hash -> Status] BY DEF HookIInv, HookTypeOK
<1>2. CASE StreamOpens
  <2> DEFINE c == CleanupTimers(hook)
             t == [c EXCEPT !.es.up = TRUE, !.sseOpen = TRUE]
  <2>1. /\ HookFine(c) /\ SameTold(c, hook) /\ c.es = hook.es /\ c.own = hook.own
        /\ c.shared = hook.shared /\ c.poll = 0
    BY <1>1, CleanupTimersFine
  <2>2. hook' = t /\ hook.es # NoStream /\ Page /\ UNCHANGED <<told, haunted>>
    BY <1>2 DEF StreamOpens
  <2> HIDE DEF c
  <2>3. /\ t \in Hook /\ SameTold(t, c) /\ t.es.hash = c.es.hash /\ t.poll = c.poll
        /\ t.own = c.own /\ t.shared = c.shared
    BY <2>1 DEF HookFine, Hook, SameTold, Stream
  <2> HIDE DEF t
  <2>4. hook.es.hash # 0 BY <1>1, <2>2 DEF HookFine
  <2>5. HookFine(t) BY <2>1, <2>3, <2>4 DEF HookFine, Request
  <2>6. Only(hook, hook.hash) => Only(t, hook.hash) BY <2>1, <2>3 DEF Only, Request
  <2>7. Listens(t) BY <2>1, <2>3, <2>4, Constants1 DEF Listens
  <2>8. SameTold(t, hook) BY <2>1, <2>3 DEF SameTold
  <2> QED BY <2>2, <2>5, <2>6, <2>7, <2>8, PageStep
<1>3. CASE StreamBreaks
  <2> DEFINE h == hook.es.hash
             b == [hook EXCEPT !.sseOpen = FALSE, !.es.up = FALSE]
             p == StartPolling(b, h)
             t == [p EXCEPT !.reconnects = hook.reconnects \cup {h}]
  <2>1. hook' = t /\ hook.es # NoStream /\ Page /\ UNCHANGED <<told, haunted>>
    BY <1>3 DEF StreamBreaks
  <2>2. h # 0 /\ h \in Hash BY <1>1, <2>1, Constants1 DEF HookFine, Hook, Stream
  <2>3. /\ b \in Hook /\ SameTold(b, hook) /\ b.es.hash = h /\ b.poll = hook.poll
        /\ b.own = hook.own /\ b.shared = hook.shared
    BY <1>1 DEF HookFine, Hook, SameTold, Stream
  <2> HIDE DEF b
  <2>4. HookFine(b) BY <1>1, <2>2, <2>3 DEF HookFine, Request
  <2>5. /\ HookFine(p) /\ SameTold(p, b) /\ p.es = b.es /\ p.poll \in {b.poll, h} /\ p.poll # 0
        /\ p.own.hash \in {0, b.own.hash, h} /\ p.shared.hash \in {0, b.shared.hash, h}
    BY <2>2, <2>4, <1>1, StartPollingFine
  <2> HIDE DEF p
  <2>6. /\ t \in Hook /\ SameTold(t, p) /\ t.es = p.es /\ t.poll = p.poll
        /\ t.own = p.own /\ t.shared = p.shared
    BY <1>1, <2>2, <2>5 DEF HookFine, Hook, SameTold
  <2> HIDE DEF t
  <2>7. HookFine(t) BY <2>5, <2>6 DEF HookFine, Request
  <2>8. Only(hook, hook.hash) => Only(t, hook.hash) BY <2>3, <2>5, <2>6 DEF Only, Request
  <2>9. Listens(t) BY <2>5, <2>6 DEF Listens
  <2>10. SameTold(t, hook) BY <2>3, <2>5, <2>6 DEF SameTold
  <2> QED BY <2>1, <2>7, <2>8, <2>9, <2>10, PageStep
<1>4. CASE Elapse
  <2>1. PICK t : /\ hook' = t
                 /\ \/ t = [hook EXCEPT !.waits = FALSE]
                    \/ ~hook.es.calm /\ t = [hook EXCEPT !.es.calm = TRUE]
    BY <1>4 DEF Elapse
  <2>2. Page /\ UNCHANGED <<told, haunted>> BY <1>4 DEF Elapse
  <2>3. /\ t \in Hook /\ SameTold(t, hook) /\ t.es.hash = hook.es.hash /\ t.poll = hook.poll
        /\ t.own = hook.own /\ t.shared = hook.shared
        /\ t.es = hook.es \/ ~hook.es.calm
    BY <1>1, <2>1 DEF HookFine, Hook, SameTold, Stream
  <2>4. t.es = hook.es \/ hook.es.hash # 0
    BY <1>1, <2>3 DEF HookFine, NoStream
  <2>5. HookFine(t) BY <1>1, <2>3, <2>4 DEF HookFine, Request
  <2>6. Only(hook, hook.hash) => Only(t, hook.hash) BY <2>3 DEF Only, Request
  <2>7. Listens(hook) => Listens(t) BY <2>3, <2>4, Constants1 DEF Listens
  <2> QED BY <2>1, <2>2, <2>3, <2>5, <2>6, <2>7, PageStep
<1> QED BY <1>2, <1>3, <1>4

LEMMA ReconnectStep ==
    ASSUME HookIInv, NEW h \in Hash, Reconnect(h)
    PROVE  HookIInv' /\ ShownStep
<1> DEFINE f == [hook EXCEPT !.reconnects = hook.reconnects \ {h}]
           t == StartSSE(f, h)
<1>1. HookFine(hook) /\ row \in [Hash -> Status] BY DEF HookIInv, HookTypeOK
<1>2. /\ f \in Hook /\ SameTold(f, hook) /\ f.es = hook.es /\ f.poll = hook.poll
      /\ f.own = hook.own /\ f.shared = hook.shared
  BY <1>1 DEF HookFine, Hook, SameTold
<1>3. /\ hook' = IF hook.visible THEN t ELSE f
      /\ haunted' = (haunted \/ (hook.visible /\ h # hook.hash))
      /\ Page /\ UNCHANGED told
  BY DEF Reconnect
<1> HIDE DEF f
<1>4. HookFine(f) BY <1>1, <1>2 DEF HookFine, Request
<1>5. /\ HookFine(t) /\ SameTold(t, f) /\ Listens(t)
      /\ t.es.hash \in {f.es.hash, h} /\ t.poll \in {f.poll, h}
      /\ t.own.hash \in {0, f.own.hash, h} /\ t.shared.hash \in {0, f.shared.hash, h}
  BY <1>1, <1>4, StartSSEFine
<1> HIDE DEF t
<1>6. /\ HookFine(hook') /\ SameTold(hook', hook) /\ (Listens(hook) => Listens(hook'))
  <2>1. Listens(hook) => Listens(f) BY <1>2 DEF Listens
  <2>2. SameTold(t, hook) BY <1>2, <1>5 DEF SameTold
  <2>3. CASE hook.visible BY <2>2, <2>3, <1>3, <1>5
  <2>4. CASE ~hook.visible BY <2>1, <2>4, <1>2, <1>3, <1>4
  <2> QED BY <2>3, <2>4
<1>7. haunted' \/ (Only(hook, hook.hash) => Only(hook', hook.hash))
  <2>1. CASE hook.visible /\ h = hook.hash
    BY <2>1, <1>2, <1>3, <1>5 DEF Only, Request
  <2>2. CASE ~hook.visible BY <2>2, <1>2, <1>3 DEF Only, Request
  <2>3. CASE hook.visible /\ h # hook.hash BY <2>3, <1>3
  <2> QED BY <2>1, <2>2, <2>3
<1>8. haunted' \in BOOLEAN /\ (haunted => haunted')
  BY <1>3
<1>9. Quiet
  BY <1>3, <1>6, <1>7, <1>8 DEF Quiet, Page, SameTold, HookIInv, HookTypeOK
<1> QED BY <1>9, QuietStep

LEMMA WindowSteps ==
    ASSUME HookIInv, Hide \/ Show \/ GoOffline \/ GoOnline
    PROVE  HookIInv' /\ ShownStep
<1>1. HookFine(hook) /\ row \in [Hash -> Status] BY DEF HookIInv, HookTypeOK
<1>2. PICK s : /\ s \in {hook, [hook EXCEPT !.visible = TRUE], [hook EXCEPT !.visible = FALSE]}
               /\ hook' = Deafened(s) \/ hook' = Restart(s)
  BY DEF Hide, Show, GoOffline, GoOnline
<1>3. Page /\ UNCHANGED <<told, haunted>>
  BY DEF Hide, Show, GoOffline, GoOnline
<1>4. /\ s \in Hook /\ s.shown = hook.shown /\ s.called = hook.called /\ s.hash = hook.hash
      /\ s.es = hook.es /\ s.poll = hook.poll /\ s.own = hook.own /\ s.shared = hook.shared
  BY <1>1, <1>2 DEF HookFine, Hook
<1>5. HookFine(s) BY <1>1, <1>4 DEF HookFine, Request
<1>6. /\ HookFine(hook') /\ SameTold(hook', s)
      /\ Only(s, s.hash) => Only(hook', s.hash)
      /\ Listens(s) => Listens(hook')
  BY <1>1, <1>2, <1>5, RestartFine, DeafenedFine
<1>7. /\ Only(hook, hook.hash) => Only(s, s.hash)
      /\ Listens(hook) => Listens(s)
  BY <1>4 DEF Only, Listens, Request
<1>8. Quiet
  BY <1>3, <1>4, <1>6, <1>7 DEF Quiet, Page, SameTold, HookIInv, HookTypeOK
<1> QED BY <1>8, QuietStep

\* The API writes a row: requests for it may read either status.
LEMMA RowStep ==
    ASSUME HookIInv, NEW h \in Hash, RowChanges(h)
    PROVE  HookIInv' /\ ShownStep
<1>1. HookFine(hook) /\ row \in [Hash -> Status] BY DEF HookIInv, HookTypeOK
<1>2. PICK v \in Verdict \cup {"PENDING"}, pushed \in BOOLEAN :
        /\ row' = [row EXCEPT ![h] = v]
        /\ outbox' = IF pushed THEN outbox \cup {[hash |-> h, status |-> v]} ELSE outbox
        /\ hook' = Reading(h, v)
        /\ UNCHANGED <<sends, told, haunted>>
  BY DEF RowChanges
<1>3. v \in Status BY HookAssumption DEF Status
<1>4. row' \in [Hash -> Status] BY <1>1, <1>2, <1>3
<1>5. outbox' \subseteq Record
  <2>1. [hash |-> h, status |-> v] \in Record BY <1>3, Constants1 DEF Record
  <2> QED BY <1>2, <2>1 DEF HookIInv, HookTypeOK
<1> DEFINE read(f) == IF f.hash = h THEN [f EXCEPT !.since = f.since \cup {v}] ELSE f
<1>6. ASSUME NEW f \in Fetch
      PROVE  read(f) \in Fetch /\ read(f).hash = f.hash /\ (f.hash = 0 => read(f) = f)
  BY <1>3, Constants1 DEF Fetch
<1>7. DOMAIN hook = {"visible", "hash", "shown", "last", "called", "es", "sseOpen",
                     "poll", "own", "shared", "inFlight", "waits", "reconnects"}
  BY <1>1 DEF HookFine, Hook
<1>8. /\ hook'.visible = hook.visible /\ hook'.hash = hook.hash /\ hook'.shown = hook.shown
      /\ hook'.last = hook.last /\ hook'.called = hook.called /\ hook'.es = hook.es
      /\ hook'.sseOpen = hook.sseOpen /\ hook'.poll = hook.poll
      /\ hook'.inFlight = hook.inFlight /\ hook'.waits = hook.waits
      /\ hook'.reconnects = hook.reconnects
      /\ hook'.own = read(hook.own) /\ hook'.shared = read(hook.shared)
  BY <1>2, <1>7 DEF Reading, Request
<1>9. hook' = [visible |-> hook'.visible, hash |-> hook'.hash, shown |-> hook'.shown,
               last |-> hook'.last, called |-> hook'.called, es |-> hook'.es,
               sseOpen |-> hook'.sseOpen, poll |-> hook'.poll, own |-> hook'.own,
               shared |-> hook'.shared, inFlight |-> hook'.inFlight,
               waits |-> hook'.waits, reconnects |-> hook'.reconnects]
  BY <1>2, <1>7 DEF Reading
<1>10. /\ hook.own \in Fetch /\ hook.shared \in Fetch
       /\ hook'.own \in Fetch /\ hook'.shared \in Fetch
       /\ hook'.own.hash = hook.own.hash /\ hook'.shared.hash = hook.shared.hash
       /\ hook.own.hash = 0 => hook'.own = hook.own
       /\ hook.shared.hash = 0 => hook'.shared = hook.shared
  <2>1. hook.own \in Fetch /\ hook.shared \in Fetch BY <1>1 DEF HookFine, Hook
  <2> HIDE DEF read
  <2> QED BY <2>1, <1>6, <1>8
<1>11. hook' \in Hook BY <1>1, <1>8, <1>9, <1>10 DEF HookFine, Hook
<1>12. HookFine(hook') BY <1>1, <1>8, <1>10, <1>11 DEF HookFine, Request
<1>13. Only(hook, hook.hash) => Only(hook', hook.hash) BY <1>8, <1>10 DEF Only, Request
<1>14. Listens(hook) => Listens(hook') BY <1>8 DEF Listens
<1>15. Quiet
  BY <1>2, <1>4, <1>5, <1>8, <1>12, <1>13, <1>14 DEF Quiet, HookIInv, HookTypeOK
<1> QED BY <1>15, QuietStep

LEMMA MessageStep ==
    ASSUME HookIInv, NEW r \in outbox, Message(r)
    PROVE  HookIInv' /\ ShownStep
<1>1. /\ HookFine(hook) /\ row \in [Hash -> Status] /\ r \in Record /\ outbox \subseteq Record
  BY DEF HookIInv, HookTypeOK
<1>2. outbox' \subseteq Record /\ UNCHANGED <<row, sends, haunted>> BY <1>1 DEF Message
<1>3. CASE UNCHANGED <<hook, told>>
  <2>1. Quiet BY <1>1, <1>2, <1>3 DEF Quiet, HookIInv, HookTypeOK
  <2> QED BY <2>1, QuietStep
<1>4. CASE /\ hook.es.up /\ r.hash = hook.es.hash /\ IsNews(hook, r)
           /\ hook' = Take([hook EXCEPT !.es.calm = FALSE], r) /\ Tell(hook, r)
  <2> DEFINE s == [hook EXCEPT !.es.calm = FALSE]
  <2>1. r.hash # 0
    <3>1. hook.es # NoStream BY <1>4 DEF NoStream
    <3> QED BY <3>1, <1>1, <1>4 DEF HookFine
  <2>2. haunted \/ r.hash = hook.hash BY <2>1, <1>4 DEF HookIInv, OwnAffairs, Only
  <2>3. /\ s \in Hook /\ SameTold(s, hook) /\ s.es.hash = hook.es.hash /\ s.poll = hook.poll
        /\ s.own = hook.own /\ s.shared = hook.shared
    BY <1>1 DEF HookFine, Hook, SameTold, Stream
  <2>4. hook' = Take(s, r) BY <1>4
  <2> HIDE DEF s
  <2>5. HookFine(s) BY <1>1, <1>4, <2>1, <2>3 DEF HookFine, Request
  <2>6. Only(hook, hook.hash) => Only(s, hook.hash) BY <2>3 DEF Only, Request
  <2>7. Listens(s) BY <2>1, <2>3, <1>4, Constants1 DEF Listens
  <2> QED BY <1>1, <1>2, <1>4, <2>1, <2>2, <2>3, <2>4, <2>5, <2>6, <2>7, HeardStep
<1> QED BY <1>3, <1>4 DEF Message

-----------------------------------------------------------------------------
LEMMA HookInit ==
    ASSUME Init
    PROVE  HookIInv
<1>1. HookTypeOK
  <2>1. hook \in Hook
    <3>1. 0 \in 0 .. MaxSends BY HookAssumption
    <3> QED BY <3>1, Constants1 DEF Init, Hook
  <2>2. row \in [Hash -> Status] BY DEF Init, Status
  <2>3. sends \in 0 .. MaxSends BY HookAssumption DEF Init
  <2>4. told \in [Hash -> [Terminal -> 0 .. 2]] BY DEF Init
  <2> QED BY <2>1, <2>2, <2>3, <2>4 DEF Init, HookTypeOK
<1>2. HookFine(hook)
  BY <1>1, Constants1 DEF Init, HookTypeOK, HookFine, Request
<1>3. OwnAffairs BY Constants1 DEF Init, OwnAffairs, Only, Request
<1>4. Remembered BY DEF Init, Remembered
<1>5. NeverDeaf BY DEF Init, NeverDeaf
<1> QED BY <1>1, <1>2, <1>3, <1>4, <1>5 DEF HookIInv

LEMMA HookNext ==
    ASSUME HookIInv, [Next]_vars
    PROVE  HookIInv' /\ ShownStep
<1>1. CASE Next
  BY <1>1, SetHashSteps, AnswerStep, RequestSteps, StreamSteps, ReconnectStep,
     WindowSteps, RowStep, MessageStep DEF Next
<1>2. CASE UNCHANGED vars
  <2>1. Quiet BY <1>2 DEF vars, Quiet, HookIInv, HookTypeOK
  <2> QED BY <2>1, QuietStep
<1> QED BY <1>1, <1>2

\* Everything under way is for the transaction that the page follows, and what
\* was announced is remembered, until a reconnect outlives its hash.
THEOREM HookInvariance == Spec => []HookIInv
<1>1. Init => HookIInv BY HookInit
<1>2. HookIInv /\ [Next]_vars => HookIInv' BY HookNext
<1> QED BY <1>1, <1>2, PTL DEF Spec

\* What the refs of the hook hold is of its type (useTxStatus.ts:39-63).
THEOREM HookTypeCorrect == Spec => []HookTypeOK
<1>1. HookIInv => HookTypeOK BY DEF HookIInv
<1> QED BY <1>1, HookInvariance, PTL

\* A hook that has heard nothing final has a stream or polls
\* (useTxStatus.ts:191-262).
THEOREM HookListens == Spec => []NeverDeaf
<1>1. HookIInv => NeverDeaf BY DEF HookIInv
<1> QED BY <1>1, HookInvariance, PTL

\* No outcome is announced twice (useTxStatus.ts:103-124).
THEOREM AnnouncesOnce == Spec => []AnnouncedOnce
<1>1. HookIInv => AnnouncedOnce BY DEF HookIInv, Remembered, AnnouncedOnce
<1> QED BY <1>1, HookInvariance, PTL

\* Nothing of an older transaction appears on the page
\* (useTxStatus.ts:128-189).
THEOREM FollowsItsHash == Spec => ShownIsFollowed
<1>1. HookIInv /\ [Next]_vars =>
        [hook'.shown # hook.shown /\ hook'.hash # 0 =>
            hook'.shown.hash = hook'.hash \/ haunted]_vars
  BY HookNext DEF ShownStep
<1> QED BY <1>1, HookInvariance, PTL DEF Spec, ShownIsFollowed
=============================================================================
