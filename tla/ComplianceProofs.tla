--------------------------- MODULE ComplianceProofs ---------------------------
(***************************************************************************)
(* Proofs about Compliance, for any configurations, clients, headers,      *)
(* places, lists, addresses and any number of requests and sync runs.      *)
(* Answers come from caches and tables written at other times; the         *)
(* invariant says how old what they hold may be (SourcesFine, GeoFine,     *)
(* FeedFine) and what each request may conclude from it until it is        *)
(* answered (ReqFine): ticks pass between requests only.                   *)
(***************************************************************************)
EXTENDS Compliance, FiniteSetTheorems, WellFoundedInduction, TLAPS

ReqState ==
    [pc : {"idle", "lookup", "registry", "judge", "lists", "sanctions", "waiting",
           "clear", "hit", "done"},
     guard : BOOLEAN, ip : Ip \cup {"none"}, headers : Headers \cup {"none"},
     to : Address \cup {"none", "invalid"}, place : Place \cup {NoPlace, Blind},
     outcome : Outcome,
     rows : SUBSET {"PROVIDER_ERROR", "GEOFENCE BLOCKED", "SANCTIONS ALLOWED", "SANCTIONS BLOCKED"}]

CheckState ==
    [pc : {"asking", "done"}, to : Address \cup {"none"}, tries : 0 .. Retries,
     result : {"none", "clear", "hit", "error"}]

SyncState ==
    [pc : {"idle", "fetch", "rows"}, since : Nat, items : SUBSET Address, version : Nat]

SettingFine ==
    setting \in Settings /\ source = setting.source /\ production = setting.production

\* The editions are numbered, and an address not on the last one is not counted.
EditionsFine ==
    /\ Current \in Nat \ {0} /\ DOMAIN editions = 1 .. Current
    /\ \A i \in 1 .. Current : editions[i] \subseteq Address
    /\ listedFor \in [Address -> 0 .. Oldest]
    /\ \A a \in Address : a \notin Listed => listedFor[a] = 0

\* An answer that clears an address is at least as old as its listing.
BreakerFine ==
    /\ DOMAIN answers = Address
    /\ \A a \in Address :
         /\ answers[a] \in [age : 0 .. AnswerTTL, result : {"none", "clear", "hit"}]
         /\ answers[a].age < AnswerTTL => answers[a].result # "none"
         /\ answers[a].age < AnswerTTL /\ answers[a].result = "clear"
               => listedFor[a] <= answers[a].age
    /\ failCount \in 0 .. Threshold /\ openFor \in 0 .. Cooldown
    /\ failCount # 0 => source = "breaker"

Known == table \cup lost

\* What a run of the sync read is covered, and what it fetched is covered but
\* for the rows still to come.
RunFine(run, known) ==
    /\ run \in SyncState
    /\ run.pc = "fetch" => /\ run.since \in 1 .. Current
                           /\ editions[run.since] \subseteq known
    /\ run.pc = "rows" => /\ run.version \in 1 .. Current
                          /\ editions[run.version] \subseteq known \cup run.items

FeedFine ==
    /\ table \subseteq Address /\ lost \subseteq Address
    /\ stored \in 1 .. Current /\ editions[stored] \subseteq Known
    /\ DOMAIN sync = Syncer
    /\ \A s \in Syncer : RunFine(sync[s], Known)

\* A cache that was written after the last change of what it caches is right.
GeoFine ==
    /\ place \in [Ip -> Place] /\ placeAge \in [Ip -> 0 .. LookupTTL]
    /\ DOMAIN lookups = Ip
    /\ \A i \in Ip :
         /\ lookups[i] \in [age : 0 .. LookupTTL, place : Place \cup {Null, NoPlace}]
         /\ lookups[i].age < placeAge[i] /\ lookups[i].place # Null
               => lookups[i].place = place[i]
    /\ listsAge \in 0 .. ListTTL /\ listCache.age \in 0 .. ListTTL
    /\ DOMAIN listCache = {"age", "val"}
    /\ listCache.age < listsAge => listCache.val = lists

-----------------------------------------------------------------------------
\* Requests.  A request waits for the provider exactly while it may be asked.
CallsMatch(r, k) ==
    /\ k.pc = "asking" => r.pc = "waiting" /\ k.to = r.to /\ k.to \in Address
    /\ r.pc # "waiting" => k = NoCheck
    /\ r.pc \in {"sanctions", "waiting", "clear", "hit"} => setting.sanctions /\ r.to # "none"
    /\ r.pc = "waiting" => r.to \in Address /\ (k.pc = "done" => k.result # "none")
    /\ r.pc = "registry" => r.ip \in Ip

\* What the provider may have overlooked of address a.
Unlisted(a) ==
    /\ source = "remote" => listedFor[a] = 0
    /\ source = "breaker" /\ production => listedFor[a] < AnswerTTL

ToldClear(r, k) ==
    \/ r.pc = "waiting" /\ k.pc = "done" /\ k.result = "clear"
    \/ r.pc = "clear"
    \/ r.pc = "done" /\ r.outcome = "pass"

ClearIsUnlisted(r, k) ==
    ToldClear(r, k) /\ setting.sanctions /\ ~setting.failOpen /\ r.to \in Address
        => Unlisted(r.to)

\* GuardLeavesRows, of one request.
RowsThere(r) ==
    r.guard /\ r.pc = "done" =>
        /\ r.outcome = "pass" /\ setting.sanctions /\ r.to # "none"
              => "SANCTIONS ALLOWED" \in r.rows
        /\ r.outcome = "sanctions" => "SANCTIONS BLOCKED" \in r.rows
        /\ r.outcome = "geofence" => "GEOFENCE BLOCKED" \in r.rows

Blocked(r) ==
    LET facts == Detected(r.headers, place[r.ip]) IN
    IF facts.country = Unknown THEN ~GeoFailOpen ELSE ShouldBlock(facts, lists) # "ok"

\* The request goes by a place that its client has been at for long.
Settled(r) ==
    setting.geofence /\ r.ip \in Ip /\ r.place # Blind /\ placeAge[r.ip] = LookupTTL

Through == {"sanctions", "waiting", "clear", "hit"}

JudgedRightly(r) ==
    /\ Settled(r) /\ r.pc \in {"judge", "lists"} => r.place = place[r.ip]
    /\ r.pc = "lists" => Detected(r.headers, r.place).country # Unknown
    /\ Settled(r) /\ listsAge = ListTTL =>
         /\ r.pc \in Through => ~Blocked(r)
         /\ r.pc = "done" /\ r.outcome # "crash" => (r.outcome = "geofence" <=> Blocked(r))

ReqFine(r, k) ==
    /\ r \in ReqState /\ k \in CheckState
    /\ CallsMatch(r, k) /\ ClearIsUnlisted(r, k) /\ RowsThere(r) /\ JudgedRightly(r)

RequestsFine ==
    /\ DOMAIN req = Asker /\ DOMAIN check = Asker
    /\ \A q \in Asker : ReqFine(req[q], check[q])

SourcesFine == EditionsFine /\ BreakerFine /\ FeedFine
ComplianceIInv == SettingFine /\ SourcesFine /\ GeoFine /\ RequestsFine

-----------------------------------------------------------------------------
\* A step of one request: the caches it fills are no matter to the others.
SharedStays ==
    UNCHANGED <<setting, source, production, listedFor, place, placeAge, lists, listsAge>>

LEMMA OneRequest ==
    ASSUME RequestsFine, SharedStays, NEW q \in Asker, NEW r, NEW k, ReqFine(r, k),
           req' = [req EXCEPT ![q] = r] \/ (req' = req /\ r = req[q]),
           check' = [check EXCEPT ![q] = k] \/ (check' = check /\ k = check[q])
    PROVE  RequestsFine'
<1>1. ASSUME NEW x \in Asker PROVE ReqFine(req'[x], check'[x])
  BY <1>1 DEF RequestsFine
<1>2. \A s, c : ReqFine(s, c) => ReqFine(s, c)'
  <2> TAKE s, c
  <2>1. CallsMatch(s, c)' = CallsMatch(s, c) BY DEF SharedStays, CallsMatch
  <2>2. ClearIsUnlisted(s, c)' = ClearIsUnlisted(s, c)
    BY DEF SharedStays, ClearIsUnlisted, ToldClear, Unlisted
  <2>3. RowsThere(s)' = RowsThere(s) BY DEF SharedStays, RowsThere
  <2>4. Settled(s)' = Settled(s) BY DEF SharedStays, Settled
  <2>5. Blocked(s)' = Blocked(s) BY DEF SharedStays, Blocked, GeoFailOpen
  <2>6. JudgedRightly(s)' = JudgedRightly(s) BY <2>4, <2>5 DEF SharedStays, JudgedRightly
  <2> QED BY <2>1, <2>2, <2>3, <2>6 DEF ReqFine
<1>3. DOMAIN req' = Asker /\ DOMAIN check' = Asker BY DEF RequestsFine
<1> QED BY <1>1, <1>2, <1>3 DEF RequestsFine

LEMMA Constants2 ==
    /\ NoCheck \in CheckState /\ NoCheck.pc = "done" /\ NoCheck.result = "none"
    /\ Idle \in ReqState /\ Idle.pc = "idle"
    /\ NoLookup \in [age : 0 .. LookupTTL, place : Place \cup {Null, NoPlace}]
BY SourcesAssumption, ComplianceAssumption
   DEF NoCheck, Done, CheckState, Idle, ReqState, Outcome, NoLookup

\* Between requests nothing is asked and nothing answered.
LEMMA QuietRequest ==
    ASSUME NEW r \in ReqState, r.pc \in {"idle", "lookup"}
    PROVE  ReqFine(r, NoCheck)
BY Constants2 DEF ReqFine, CallsMatch, ClearIsUnlisted, ToldClear, RowsThere, JudgedRightly, Through

-----------------------------------------------------------------------------
\* What a request was asked stays as it is while it is handled.
SameAsk(r, s) ==
    /\ s.guard = r.guard /\ s.ip = r.ip /\ s.headers = r.headers /\ s.to = r.to
    /\ s.place = r.place

LEMMA SameJudgement ==
    ASSUME NEW r, NEW s, SameAsk(r, s)
    PROVE  Settled(s) = Settled(r) /\ Blocked(s) = Blocked(r)
<1>1. Settled(s) = Settled(r) BY DEF SameAsk, Settled
<1>2. Blocked(s) = Blocked(r) BY DEF SameAsk, Blocked
<1> QED BY <1>1, <1>2

Row == {"PROVIDER_ERROR", "GEOFENCE BLOCKED", "SANCTIONS ALLOWED", "SANCTIONS BLOCKED"}

LEMMA AnswerGives ==
    ASSUME NEW q \in Asker, DOMAIN req = Asker, req[q] \in ReqState, NEW o \in Outcome, Answer(q, o)
    PROVE  \E s \in ReqState : /\ req' = [req EXCEPT ![q] = s] /\ SameAsk(req[q], s)
                               /\ s.pc = "done" /\ s.outcome = o
<1> DEFINE s == [req[q] EXCEPT !.pc = "done", !.outcome = o]
<1>1. s \in ReqState BY DEF ReqState
<1>2. SameAsk(req[q], s) /\ s.pc = "done" /\ s.outcome = o BY DEF ReqState, SameAsk
<1>3. req' = [req EXCEPT ![q] = s] BY DEF Answer
<1> QED BY <1>1, <1>2, <1>3

LEMMA GoGives ==
    ASSUME NEW q \in Asker, DOMAIN req = Asker, req[q] \in ReqState,
           NEW pc \in {"registry", "lists", "waiting", "clear", "hit"}, Go(q, pc)
    PROVE  \E s \in ReqState : /\ req' = [req EXCEPT ![q] = s] /\ SameAsk(req[q], s) /\ s.pc = pc
<1> DEFINE s == [req[q] EXCEPT !.pc = pc]
<1>1. s \in ReqState BY DEF ReqState
<1>2. SameAsk(req[q], s) /\ s.pc = pc BY DEF ReqState, SameAsk
<1>3. req' = [req EXCEPT ![q] = s] BY DEF Go
<1> QED BY <1>1, <1>2, <1>3

\* An answer o with its row, or the one for a failing audit.
EndsAs(r, s, row, o, failed) ==
    /\ SameAsk(r, s) /\ s.pc = "done"
    /\ (s.outcome = o /\ row \in s.rows) \/ s.outcome = failed

LEMMA AuditedGives ==
    ASSUME NEW q \in Asker, DOMAIN req = Asker, req[q] \in ReqState, NEW row \in Row,
           NEW o \in Outcome, NEW failed \in Outcome, Audited(q, row, o, failed)
    PROVE  \E s \in ReqState : /\ req' = [req EXCEPT ![q] = s]
                               /\ EndsAs(req[q], s, row, o, failed)
<1>1. CASE Answer(q, failed) BY <1>1, AnswerGives DEF EndsAs
<1>2. CASE req' = [req EXCEPT ![q].pc = "done", ![q].outcome = o, ![q].rows = @ \cup {row}]
  <2> DEFINE s == [req[q] EXCEPT !.pc = "done", !.outcome = o, !.rows = @ \cup {row}]
  <2>1. s \in ReqState
    <3>1. req[q].rows \cup {row} \in SUBSET Row BY DEF ReqState, Row
    <3> QED BY <3>1 DEF ReqState, Row
  <2>2. SameAsk(req[q], s) /\ s.pc = "done" /\ s.outcome = o /\ s.rows = req[q].rows \cup {row}
    BY DEF ReqState, SameAsk
  <2>3. req' = [req EXCEPT ![q] = s] BY <1>2
  <2> QED BY <2>1, <2>2, <2>3 DEF EndsAs
<1> QED BY <1>1, <1>2 DEF Audited

\* An answer is fine when its rows are there, it clears nobody listed and
\* refuses by geofence exactly whom it should.
LEMMA DoneFine ==
    ASSUME NEW r \in ReqState, NEW s \in ReqState, SameAsk(r, s), s.pc = "done", RowsThere(s),
           (s.outcome = "pass" /\ setting.sanctions /\ ~setting.failOpen /\ s.to \in Address)
               => Unlisted(s.to),
           Settled(r) /\ listsAge = ListTTL /\ s.outcome # "crash"
               => (s.outcome = "geofence" <=> Blocked(r))
    PROVE  ReqFine(s, NoCheck)
<1>1. Settled(s) = Settled(r) /\ Blocked(s) = Blocked(r) BY SameJudgement
<1>2. CallsMatch(s, NoCheck) BY Constants2 DEF CallsMatch
<1>3. ClearIsUnlisted(s, NoCheck) BY DEF ClearIsUnlisted, ToldClear
<1>4. JudgedRightly(s) BY <1>1 DEF JudgedRightly, Through
<1> QED BY <1>2, <1>3, <1>4, Constants2 DEF ReqFine

\* So it is when the handling breaks off.
LEMMA CrashFine ==
    ASSUME NEW r \in ReqState, NEW s \in ReqState, SameAsk(r, s), s.pc = "done",
           s.outcome = "crash"
    PROVE  ReqFine(s, NoCheck)
<1>1. RowsThere(s) BY DEF RowsThere
<1> QED BY <1>1, DoneFine

\* On to the sanctions, or through when they are off or nobody is named.
LEMMA ContinueFine ==
    ASSUME NEW q \in Asker, DOMAIN req = Asker, NEW r \in ReqState, Continue(q, r),
           setting \in Settings, Settled(r) /\ listsAge = ListTTL => ~Blocked(r)
    PROVE  \E s : req' = [req EXCEPT ![q] = s] /\ ReqFine(s, NoCheck)
<1>1. CASE AfterGeofence(q, r.to) = "pass"
  <2> DEFINE s == [r EXCEPT !.pc = "done", !.outcome = "pass"]
  <2>1. req' = [req EXCEPT ![q] = s] BY <1>1 DEF Continue
  <2>2. s \in ReqState BY DEF ReqState, Outcome
  <2>3. SameAsk(r, s) /\ s.pc = "done" /\ s.outcome = "pass" BY DEF SameAsk, ReqState
  <2> HIDE DEF s
  <2>4. ~setting.sanctions \/ s.to = "none" BY <1>1, <2>3 DEF AfterGeofence, SameAsk
  <2>5. RowsThere(s) BY <2>3, <2>4 DEF RowsThere
  <2>6. ReqFine(s, NoCheck) BY <2>2, <2>3, <2>4, <2>5, DoneFine, ComplianceAssumption
  <2> QED BY <2>1, <2>6
<1>2. CASE AfterGeofence(q, r.to) # "pass"
  <2> DEFINE s == [r EXCEPT !.pc = "sanctions"]
  <2>1. req' = [req EXCEPT ![q] = s] BY <1>2 DEF Continue
  <2>2. s \in ReqState BY DEF ReqState
  <2>3. SameAsk(r, s) /\ s.pc = "sanctions" BY DEF SameAsk, ReqState
  <2> HIDE DEF s
  <2>4. setting.sanctions /\ s.to # "none" BY <1>2, <2>3 DEF AfterGeofence, SameAsk
  <2>5. Settled(s) = Settled(r) /\ Blocked(s) = Blocked(r) BY <2>3, SameJudgement
  <2>6. CallsMatch(s, NoCheck) BY <2>3, <2>4, Constants2 DEF CallsMatch
  <2>7. ClearIsUnlisted(s, NoCheck) /\ RowsThere(s)
    BY <2>3 DEF ClearIsUnlisted, ToldClear, RowsThere
  <2>8. JudgedRightly(s) BY <2>3, <2>5 DEF JudgedRightly, Through
  <2> QED BY <2>1, <2>2, <2>6, <2>7, <2>8, Constants2 DEF ReqFine
<1> QED BY <1>1, <1>2

-----------------------------------------------------------------------------
LEMMA WhatHolds ==
    ASSUME ComplianceIInv, NEW q \in Asker
    PROVE  /\ DOMAIN req = Asker /\ DOMAIN check = Asker /\ RequestsFine
           /\ req[q] \in ReqState /\ check[q] \in CheckState /\ ReqFine(req[q], check[q])
           /\ setting \in Settings /\ source = setting.source /\ production = setting.production
           /\ SettingFine /\ EditionsFine /\ BreakerFine /\ FeedFine /\ GeoFine
BY DEF ComplianceIInv, SettingFine, SourcesFine, RequestsFine, ReqFine

\* A request arrives, or leaves.
LEMMA ArriveStep ==
    ASSUME ComplianceIInv, NEW q \in Asker, Arrive(q)
    PROVE  RequestsFine' /\ Geo /\ Sources
<1>1. PICK a \in Arriving :
        LET r == [Idle EXCEPT !.guard = a.guard, !.ip = a.ip,
                              !.headers = a.headers, !.to = a.to] IN
        IF setting.geofence THEN req' = [req EXCEPT ![q] = [r EXCEPT !.pc = "lookup"]]
        ELSE Continue(q, r)
  BY DEF Arrive
<1> DEFINE r == [Idle EXCEPT !.guard = a.guard, !.ip = a.ip,
                             !.headers = a.headers, !.to = a.to]
           s == [r EXCEPT !.pc = "lookup"]
<1>2. /\ a.guard \in BOOLEAN /\ a.ip \in Ip \cup {"none"} /\ a.headers \in Headers \cup {"none"}
      /\ a.to \in Address \cup {"none", "invalid"}
  BY DEF Arriving, Receiver
<1>3. r \in ReqState /\ s \in ReqState /\ s.pc = "lookup"
  BY <1>2, Constants2 DEF ReqState
<1>4. Geo /\ Sources /\ SharedStays /\ check' = check /\ check[q] = NoCheck
  <2>1. Geo /\ Sources BY DEF Arrive
  <2>2. SharedStays /\ check' = check BY <2>1 DEF Geo, Sources, geoVars, sourceVars, SharedStays
  <2> QED BY <2>1, <2>2, WhatHolds DEF Arrive, At, ReqFine, CallsMatch
<1>5. CASE setting.geofence
  <2>1. req' = [req EXCEPT ![q] = s] BY <1>1, <1>5
  <2> HIDE DEF s
  <2>2. ReqFine(s, NoCheck) BY <1>3, QuietRequest
  <2> QED BY <1>4, <2>1, <2>2, WhatHolds, OneRequest
<1>6. CASE ~setting.geofence
  <2>1. Continue(q, r) BY <1>1, <1>6
  <2> HIDE DEF r
  <2>2. ~Settled(r) BY <1>6 DEF Settled
  <2>3. PICK t : req' = [req EXCEPT ![q] = t] /\ ReqFine(t, NoCheck)
    BY <1>3, <2>1, <2>2, WhatHolds, ContinueFine
  <2> QED BY <1>4, <2>3, WhatHolds, OneRequest
<1> QED BY <1>5, <1>6

LEMMA LeaveStep ==
    ASSUME ComplianceIInv, NEW q \in Asker, Leave(q)
    PROVE  RequestsFine' /\ Geo /\ Sources
<1>1. Geo /\ Sources /\ req' = [req EXCEPT ![q] = Idle] BY DEF Leave
<1>2. SharedStays /\ check' = check BY <1>1 DEF Geo, Sources, geoVars, sourceVars, SharedStays
<1>3. check[q] = NoCheck BY WhatHolds DEF Leave, At, ReqFine, CallsMatch
<1>4. ReqFine(Idle, NoCheck) BY Constants2, QuietRequest
<1> QED BY <1>1, <1>2, <1>3, <1>4, WhatHolds, OneRequest

-----------------------------------------------------------------------------
\* The geofence.

LEMMA PlacedFine ==
    ASSUME ComplianceIInv, NEW q \in Asker, NEW p \in Place \cup {NoPlace, Blind}, Placed(q, p),
           SharedStays, check' = check, req[q].pc \in {"lookup", "registry"},
           (p # Blind /\ req[q].ip \in Ip /\ placeAge[req[q].ip] = LookupTTL)
               => p = place[req[q].ip]
    PROVE  RequestsFine'
<1> DEFINE s == [req[q] EXCEPT !.pc = "judge", !.place = p]
<1>0. req[q] \in ReqState BY WhatHolds
<1>1. s \in ReqState BY ONLY <1>0, p \in Place \cup {NoPlace, Blind} DEF ReqState
<1>2. s.pc = "judge" /\ s.place = p /\ s.ip = req[q].ip BY ONLY <1>0 DEF ReqState
<1>3. req' = [req EXCEPT ![q] = s] BY DEF Placed
<1> HIDE DEF s
<1>4. check[q] = NoCheck BY WhatHolds DEF ReqFine, CallsMatch
<1>5. CallsMatch(s, NoCheck) BY <1>2, Constants2 DEF CallsMatch
<1>6. ClearIsUnlisted(s, NoCheck) /\ RowsThere(s)
  BY <1>2 DEF ClearIsUnlisted, ToldClear, RowsThere
<1>7. JudgedRightly(s)
  <2>1. Settled(s) => s.place = place[s.ip] BY <1>2 DEF Settled
  <2> QED BY <1>2, <2>1 DEF JudgedRightly, Through
<1>8. ReqFine(s, NoCheck) BY <1>1, <1>5, <1>6, <1>7, Constants2 DEF ReqFine
<1> QED BY <1>3, <1>4, <1>8, WhatHolds, OneRequest

LEMMA CrashStep ==
    ASSUME ComplianceIInv, NEW q \in Asker, req[q].pc \notin {"waiting"}, Answer(q, "crash"),
           SharedStays, check' = check
    PROVE  RequestsFine'
<1>1. PICK s \in ReqState : /\ req' = [req EXCEPT ![q] = s] /\ SameAsk(req[q], s)
                            /\ s.pc = "done" /\ s.outcome = "crash"
  BY WhatHolds, AnswerGives DEF Outcome
<1>2. ReqFine(s, NoCheck) BY <1>1, WhatHolds, CrashFine
<1>3. check[q] = NoCheck BY WhatHolds DEF ReqFine, CallsMatch
<1> QED BY <1>1, <1>2, <1>3, WhatHolds, OneRequest

\* A lookup that is still fresh was cached after the last move of a client who
\* has not moved for as long (utils/geo.ts).
LEMMA LookupStep ==
    ASSUME ComplianceIInv, NEW q \in Asker, Lookup(q)
    PROVE  RequestsFine' /\ Geo /\ Sources
<1> DEFINE i == req[q].ip
<1>1. Geo /\ Sources /\ req[q].pc = "lookup" BY DEF Lookup, At
<1>2. SharedStays /\ check' = check BY <1>1 DEF Geo, Sources, geoVars, sourceVars, SharedStays
<1>3. i \in Ip \cup {"none"} BY WhatHolds DEF ReqState
<1>4. CASE Answer(q, "crash") BY <1>1, <1>2, <1>4, CrashStep
<1>5. CASE i # "none" /\ Go(q, "registry")
  <2>1. PICK s \in ReqState : /\ req' = [req EXCEPT ![q] = s] /\ SameAsk(req[q], s)
                              /\ s.pc = "registry"
    BY <1>5, WhatHolds, GoGives
  <2>2. CallsMatch(s, NoCheck) BY <1>3, <1>5, <2>1, Constants2 DEF CallsMatch, SameAsk
  <2>3. ClearIsUnlisted(s, NoCheck) /\ RowsThere(s) /\ JudgedRightly(s)
    BY <2>1 DEF ClearIsUnlisted, ToldClear, RowsThere, JudgedRightly, Through
  <2>4. ReqFine(s, NoCheck) BY <2>2, <2>3, Constants2 DEF ReqFine
  <2>5. check[q] = NoCheck BY <1>1, WhatHolds DEF ReqFine, CallsMatch
  <2> QED BY <1>1, <1>2, <2>1, <2>4, <2>5, WhatHolds, OneRequest
<1>6. CASE i # "none" /\ Cached(i) /\ lookups[i].place # Null /\ Placed(q, lookups[i].place)
  <2>1. /\ lookups[i] \in [age : 0 .. LookupTTL, place : Place \cup {Null, NoPlace}]
        /\ placeAge[i] \in 0 .. LookupTTL
        /\ lookups[i].age < placeAge[i] /\ lookups[i].place # Null => lookups[i].place = place[i]
    BY <1>3, <1>6, WhatHolds DEF GeoFine
  <2>2. lookups[i].age < LookupTTL BY <1>6 DEF Cached, Fresh
  <2>3. lookups[i].place \in Place \cup {NoPlace, Blind} BY <1>6, <2>1
  <2>4. placeAge[i] = LookupTTL => lookups[i].place = place[i] BY <1>6, <2>1, <2>2
  <2> QED BY <1>1, <1>2, <1>6, <2>3, <2>4, PlacedFine
<1>7. CASE Placed(q, Blind) BY <1>1, <1>2, <1>7, PlacedFine
<1> QED BY <1>1, <1>4, <1>5, <1>6, <1>7 DEF Lookup

LEMMA RegistryStep ==
    ASSUME ComplianceIInv, NEW q \in Asker, RegistryAnswers(q) \/ RegistryFails(q)
    PROVE  RequestsFine' /\ GeoFine' /\ Sources
<1> DEFINE i == req[q].ip
<1>1. /\ Sources /\ req[q].pc = "registry"
      /\ UNCHANGED <<place, placeAge, lists, listsAge, listCache>>
  BY DEF RegistryAnswers, RegistryFails, At
<1>2. SharedStays /\ check' = check BY <1>1 DEF Sources, sourceVars, SharedStays
<1>3. i \in Ip BY <1>1, WhatHolds DEF ReqFine, CallsMatch
<1>4. place[i] \in Place BY <1>3, WhatHolds DEF GeoFine
<1>5. ASSUME NEW p \in {place[i], Null}, lookups' = [lookups EXCEPT ![i] = [age |-> 0, place |-> p]]
      PROVE  GeoFine'
  <2>1. [age |-> 0, place |-> p] \in [age : 0 .. LookupTTL, place : Place \cup {Null, NoPlace}]
    BY <1>4, <1>5, ComplianceAssumption
  <2>2. ASSUME NEW j \in Ip
        PROVE  /\ lookups'[j] \in [age : 0 .. LookupTTL, place : Place \cup {Null, NoPlace}]
               /\ lookups'[j].age < placeAge[j] /\ lookups'[j].place # Null
                     => lookups'[j].place = place[j]
    <3>1. CASE j = i BY <1>3, <1>5, <2>1, <3>1, WhatHolds DEF GeoFine
    <3>2. CASE j # i BY <1>3, <1>5, <3>2, WhatHolds DEF GeoFine
    <3> QED BY <3>1, <3>2
  <2> QED BY <1>1, <1>5, <2>2, WhatHolds DEF GeoFine
<1>6. CASE RegistryAnswers(q)
  <2>1. Placed(q, place[i]) /\ lookups' = [lookups EXCEPT ![i] = [age |-> 0, place |-> place[i]]]
    BY <1>6 DEF RegistryAnswers
  <2> QED BY <1>1, <1>2, <1>4, <1>5, <2>1, PlacedFine
<1>7. CASE RegistryFails(q)
  <2>1. Answer(q, "crash") /\ lookups' = [lookups EXCEPT ![i] = [age |-> 0, place |-> Null]]
    BY <1>7 DEF RegistryFails
  <2> QED BY <1>1, <1>2, <1>5, <2>1, CrashStep
<1> QED BY <1>6, <1>7

\* Whether to refuse, once it is known.
LEMMA RefuseFine ==
    ASSUME ComplianceIInv, NEW q \in Asker, Refuse(q), req[q].pc # "waiting",
           SharedStays, check' = check, Settled(req[q]) /\ listsAge = ListTTL => Blocked(req[q])
    PROVE  RequestsFine'
<1> DEFINE r == req[q]
<1>1. PICK s \in ReqState : /\ req' = [req EXCEPT ![q] = s] /\ SameAsk(r, s) /\ s.pc = "done"
                            /\ \/ s.outcome = "geofence"
                                  /\ (r.guard => "GEOFENCE BLOCKED" \in s.rows)
                               \/ s.outcome = "crash"
  <2>1. CASE r.guard
    <3>1. Audited(q, "GEOFENCE BLOCKED", "geofence", "crash") BY <2>1 DEF Refuse
    <3>2. "geofence" \in Outcome /\ "crash" \in Outcome /\ "GEOFENCE BLOCKED" \in Row
      BY DEF Outcome, Row
    <3>3. PICK s \in ReqState : /\ req' = [req EXCEPT ![q] = s]
                                /\ EndsAs(r, s, "GEOFENCE BLOCKED", "geofence", "crash")
      BY <3>1, <3>2, WhatHolds, AuditedGives
    <3> QED BY <3>3 DEF EndsAs
  <2>2. CASE ~r.guard
    <3>1. Answer(q, "geofence") BY <2>2 DEF Refuse
    <3> QED BY <2>2, <3>1, WhatHolds, AnswerGives DEF Outcome
  <2> QED BY <2>1, <2>2
<1>2. RowsThere(s) BY <1>1 DEF RowsThere, SameAsk
<1>3. ReqFine(s, NoCheck) BY <1>1, <1>2, WhatHolds, DoneFine
<1>4. check[q] = NoCheck BY WhatHolds DEF ReqFine, CallsMatch
<1> QED BY <1>1, <1>3, <1>4, WhatHolds, OneRequest

LEMMA ContinuesFine ==
    ASSUME ComplianceIInv, NEW q \in Asker, Continue(q, req[q]), req[q].pc # "waiting",
           SharedStays, check' = check, Settled(req[q]) /\ listsAge = ListTTL => ~Blocked(req[q])
    PROVE  RequestsFine'
<1>1. PICK s : req' = [req EXCEPT ![q] = s] /\ ReqFine(s, NoCheck)
  BY WhatHolds, ContinueFine
<1>2. check[q] = NoCheck BY WhatHolds DEF ReqFine, CallsMatch
<1> QED BY <1>1, <1>2, WhatHolds, OneRequest

LEMMA JudgeByFine ==
    ASSUME ComplianceIInv, NEW q \in Asker, NEW val, JudgeBy(q, val),
           req[q].pc \in {"judge", "lists"}, SharedStays, check' = check,
           Facts(q).country # Unknown, listsAge = ListTTL => val = lists
    PROVE  RequestsFine'
<1> DEFINE r == req[q]
<1>1. Settled(r) => r.place = place[r.ip] BY WhatHolds DEF ReqFine, JudgedRightly
<1>2. Settled(r) /\ listsAge = ListTTL => Blocked(r) = (ShouldBlock(Facts(q), val) # "ok")
  BY <1>1 DEF Blocked, Facts
<1>3. CASE ShouldBlock(Facts(q), val) = "ok"
  BY <1>2, <1>3, ContinuesFine DEF JudgeBy
<1>4. CASE ShouldBlock(Facts(q), val) # "ok"
  BY <1>2, <1>4, RefuseFine DEF JudgeBy
<1> QED BY <1>3, <1>4

\* The lists that are cached are those of the tables, when these have not
\* changed for the time of the cache (geofence.service.ts).
LEMMA JudgeStep ==
    ASSUME ComplianceIInv, NEW q \in Asker, Judge(q)
    PROVE  RequestsFine' /\ Geo /\ Sources
<1>1. Geo /\ Sources /\ req[q].pc = "judge" BY DEF Judge, At
<1>2. SharedStays /\ check' = check BY <1>1 DEF Geo, Sources, geoVars, sourceVars, SharedStays
<1>3. CASE Facts(q).country = Unknown
  <2>1. Settled(req[q]) => Blocked(req[q]) = ~GeoFailOpen
    <3>1. Settled(req[q]) => req[q].place = place[req[q].ip]
      BY <1>1, WhatHolds DEF ReqFine, JudgedRightly
    <3> QED BY <1>3, <3>1 DEF Blocked, Facts
  <2>2. CASE GeoFailOpen BY <1>1, <1>2, <1>3, <2>1, <2>2, ContinuesFine DEF Judge
  <2>3. CASE ~GeoFailOpen BY <1>1, <1>2, <1>3, <2>1, <2>3, RefuseFine DEF Judge
  <2> QED BY <2>2, <2>3
<1>4. CASE Facts(q).country # Unknown /\ CacheFresh
  <2>1. JudgeBy(q, listCache.val) BY <1>4 DEF Judge
  <2>2. listsAge = ListTTL => listCache.val = lists
    BY <1>4, WhatHolds DEF CacheFresh, Fresh, GeoFine
  <2> QED BY <1>1, <1>2, <1>4, <2>1, <2>2, JudgeByFine
<1>5. CASE Facts(q).country # Unknown /\ ~CacheFresh
  <2>1. PICK s \in ReqState : req' = [req EXCEPT ![q] = s] /\ SameAsk(req[q], s) /\ s.pc = "lists"
    BY <1>5, WhatHolds, GoGives DEF Judge
  <2>2. Settled(s) => s.place = place[s.ip]
    BY <1>1, <2>1, WhatHolds, SameJudgement DEF ReqFine, JudgedRightly, SameAsk
  <2>3. JudgedRightly(s)
    BY <1>5, <2>1, <2>2 DEF JudgedRightly, Through, SameAsk, Facts
  <2>4. CallsMatch(s, NoCheck) /\ ClearIsUnlisted(s, NoCheck) /\ RowsThere(s)
    BY <2>1, Constants2 DEF CallsMatch, ClearIsUnlisted, ToldClear, RowsThere
  <2>5. ReqFine(s, NoCheck) BY <2>3, <2>4, Constants2 DEF ReqFine
  <2>6. check[q] = NoCheck BY <1>1, WhatHolds DEF ReqFine, CallsMatch
  <2> QED BY <1>1, <1>2, <2>1, <2>5, <2>6, WhatHolds, OneRequest
<1> QED BY <1>1, <1>3, <1>4, <1>5

LEMMA ListsStep ==
    ASSUME ComplianceIInv, NEW q \in Asker, LoadLists(q) \/ ListsFails(q)
    PROVE  RequestsFine' /\ GeoFine' /\ Sources
<1>1. CASE LoadLists(q)
  <2>1. /\ Sources /\ req[q].pc = "lists" /\ JudgeBy(q, lists)
        /\ listCache' = [age |-> 0, val |-> lists]
        /\ UNCHANGED <<place, placeAge, lookups, lists, listsAge>>
    BY <1>1 DEF LoadLists, At
  <2>2. SharedStays /\ check' = check BY <2>1 DEF Sources, sourceVars, SharedStays
  <2>3. Facts(q).country # Unknown BY <2>1, WhatHolds DEF ReqFine, JudgedRightly, Facts
  <2>4. RequestsFine' BY <2>1, <2>2, <2>3, JudgeByFine
  <2>5. GeoFine' BY <2>1, WhatHolds, ComplianceAssumption DEF GeoFine
  <2> QED BY <2>1, <2>4, <2>5
<1>2. CASE ListsFails(q)
  <2>1. Geo /\ Sources /\ req[q].pc = "lists" /\ Answer(q, "crash") BY <1>2 DEF ListsFails, At
  <2>2. SharedStays /\ check' = check BY <2>1 DEF Geo, Sources, geoVars, sourceVars, SharedStays
  <2>3. GeoFine' BY <2>1, WhatHolds DEF Geo, geoVars, GeoFine
  <2> QED BY <2>1, <2>2, <2>3, CrashStep
<1> QED BY <1>1, <1>2

-----------------------------------------------------------------------------
\* The sanctions.  What the guard still has to know of the geofence: that it
\* did not refuse.
LEMMA GoneThrough ==
    ASSUME ComplianceIInv, NEW q \in Asker, req[q].pc \in Through,
           NEW s, NEW k \in CheckState, s \in ReqState, SameAsk(req[q], s),
           s.pc \in Through \/ (s.pc = "done" /\ s.outcome # "geofence"),
           CallsMatch(s, k), ClearIsUnlisted(s, k), RowsThere(s)
    PROVE  ReqFine(s, k)
<1>1. Settled(req[q]) /\ listsAge = ListTTL => ~Blocked(req[q])
  BY WhatHolds DEF ReqFine, JudgedRightly
<1>2. Settled(s) = Settled(req[q]) /\ Blocked(s) = Blocked(req[q]) BY SameJudgement
<1>3. JudgedRightly(s) BY <1>1, <1>2 DEF JudgedRightly, Through
<1> QED BY <1>3 DEF ReqFine

\* What Begun answers by itself is as good as the answer that was cached.
LEMMA BegunFine ==
    ASSUME ComplianceIInv, NEW a \in Address
    PROVE  LET k == Begun(a) IN
           /\ k \in CheckState
           /\ k.pc = "asking" => k.to = a
           /\ k.pc = "done" => k.result # "none"
           /\ k.pc = "done" /\ k.result = "clear" => Unlisted(a)
<1>1. /\ answers[a] \in [age : 0 .. AnswerTTL, result : {"none", "clear", "hit"}]
      /\ answers[a].age < AnswerTTL => answers[a].result # "none"
      /\ answers[a].age < AnswerTTL /\ answers[a].result = "clear"
            => listedFor[a] <= answers[a].age
      /\ listedFor[a] \in 0 .. Oldest
  BY DEF ComplianceIInv, SourcesFine, BreakerFine, EditionsFine
<1>2. CASE Begun(a) = Asking(a, 0) BY <1>2, SourcesAssumption DEF Asking, CheckState
<1>3. CASE Begun(a) = Asking(a, Retries) BY <1>3, SourcesAssumption DEF Asking, CheckState
<1>4. CASE /\ source = "breaker" /\ Fresh(answers[a].age, AnswerTTL)
           /\ Begun(a) = Done(answers[a].result)
  <2>1. answers[a].age < AnswerTTL BY <1>4 DEF Fresh
  <2>2. Done(answers[a].result) \in CheckState BY <1>1, SourcesAssumption DEF Done, CheckState
  <2>3. answers[a].result = "clear" => Unlisted(a)
    <3>1. Oldest \in Nat BY SourcesAssumption DEF Oldest
    <3> QED BY <1>1, <1>4, <2>1, <3>1, SourcesAssumption DEF Unlisted
  <2> QED BY <1>1, <1>4, <2>1, <2>2, <2>3 DEF Done
<1>5. CASE source = "breaker" /\ Begun(a) = Guessed
  <2>1. Guessed \in CheckState BY SourcesAssumption DEF Guessed, Done, CheckState
  <2> QED BY <1>5, <2>1 DEF Guessed, Done, Unlisted
<1> QED BY <1>2, <1>3, <1>4, <1>5 DEF Begun

LEMMA AskStep ==
    ASSUME ComplianceIInv, NEW q \in Asker, AskSanctions(q)
    PROVE  RequestsFine'
<1> DEFINE r == req[q]
<1>1. /\ r.pc = "sanctions" /\ SharedStays
      /\ r \in ReqState /\ DOMAIN req = Asker /\ DOMAIN check = Asker
      /\ check[q] = NoCheck /\ r.to # "none" /\ setting.sanctions
  <2>1. r.pc = "sanctions" /\ SharedStays BY DEF AskSanctions, At, Geo, geoVars, SharedStays
  <2> QED BY <2>1, WhatHolds DEF ReqFine, CallsMatch
<1>2. CASE r.to = "invalid"
  <2>1. Answer(q, "unavailable") /\ check' = check BY <1>2 DEF AskSanctions
  <2>2. PICK s \in ReqState : /\ req' = [req EXCEPT ![q] = s] /\ SameAsk(r, s)
                              /\ s.pc = "done" /\ s.outcome = "unavailable"
    BY <1>1, <2>1, AnswerGives DEF Outcome
  <2>3. CallsMatch(s, NoCheck) /\ ClearIsUnlisted(s, NoCheck) /\ RowsThere(s)
    BY <2>2, Constants2 DEF CallsMatch, ClearIsUnlisted, ToldClear, RowsThere
  <2>4. ReqFine(s, NoCheck) BY <1>1, <2>2, <2>3, Constants2, GoneThrough DEF Through
  <2> QED BY <1>1, <2>1, <2>2, <2>4, WhatHolds, OneRequest
<1>3. CASE r.to # "invalid"
  <2> DEFINE k == Begun(r.to)
  <2>1. Go(q, "waiting") /\ check' = [check EXCEPT ![q] = k] BY <1>3 DEF AskSanctions, Ask
  <2>2. r.to \in Address BY <1>1, <1>3 DEF ReqState
  <2>3. /\ k \in CheckState
        /\ k.pc = "asking" => k.to = r.to
        /\ k.pc = "done" => k.result # "none"
        /\ k.pc = "done" /\ k.result = "clear" => Unlisted(r.to)
    BY <2>2, BegunFine
  <2> HIDE DEF k
  <2>4. PICK s \in ReqState : req' = [req EXCEPT ![q] = s] /\ SameAsk(r, s) /\ s.pc = "waiting"
    BY <1>1, <2>1, GoGives
  <2>5. CallsMatch(s, k) BY <1>1, <2>2, <2>3, <2>4 DEF CallsMatch, SameAsk
  <2>6. ClearIsUnlisted(s, k) /\ RowsThere(s)
    BY <2>3, <2>4 DEF ClearIsUnlisted, ToldClear, RowsThere, SameAsk
  <2>7. ReqFine(s, k) BY <1>1, <2>3, <2>4, <2>5, <2>6, GoneThrough DEF Through
  <2> QED BY <1>1, <2>1, <2>4, <2>7, WhatHolds, OneRequest
<1> QED BY <1>2, <1>3

LEMMA VerdictStep ==
    ASSUME ComplianceIInv, NEW q \in Asker, Verdict(q)
    PROVE  RequestsFine'
<1> DEFINE r == req[q]
           result == check[q].result
<1>1. /\ r.pc = "waiting" /\ check[q].pc = "done" /\ SharedStays
      /\ check' = [check EXCEPT ![q] = NoCheck]
  BY DEF Verdict, At, Geo, geoVars, SharedStays
<1>2. /\ r \in ReqState /\ DOMAIN req = Asker /\ result \in {"clear", "hit", "error"}
      /\ r.to # "none" /\ setting.sanctions /\ setting.failOpen \in BOOLEAN
      /\ ClearIsUnlisted(r, check[q])
  <2>1. check[q] \in CheckState /\ result # "none" BY <1>1, WhatHolds DEF ReqFine, CallsMatch
  <2>2. setting.failOpen \in BOOLEAN BY WhatHolds, ComplianceAssumption
  <2> QED BY <1>1, <2>1, <2>2, WhatHolds DEF ReqFine, CallsMatch, CheckState
<1>3. ASSUME NEW s \in ReqState, req' = [req EXCEPT ![q] = s], SameAsk(r, s),
             \/ s.pc = "done" /\ s.outcome = "unavailable"
             \/ s.pc = "hit"
             \/ s.pc = "clear" /\ (result = "clear" \/ setting.failOpen)
      PROVE  RequestsFine'
  <2>1. CallsMatch(s, NoCheck) /\ RowsThere(s)
    BY <1>2, <1>3, Constants2 DEF CallsMatch, RowsThere, SameAsk
  <2>2. ClearIsUnlisted(s, NoCheck)
    BY <1>1, <1>2, <1>3 DEF ClearIsUnlisted, ToldClear, SameAsk
  <2>3. ReqFine(s, NoCheck) BY <1>1, <1>3, <2>1, <2>2, Constants2, GoneThrough DEF Through
  <2> QED BY <1>1, <1>3, <2>3, WhatHolds, OneRequest
<1>4. "unavailable" \in Outcome /\ "PROVIDER_ERROR" \in Row BY DEF Outcome, Row
<1>5. CASE result = "error" /\ ~setting.failOpen
  <2>1. Audited(q, "PROVIDER_ERROR", "unavailable", "unavailable") BY <1>5 DEF Verdict
  <2>2. PICK s \in ReqState : /\ req' = [req EXCEPT ![q] = s]
                              /\ EndsAs(r, s, "PROVIDER_ERROR", "unavailable", "unavailable")
    BY <1>2, <1>4, <2>1, AuditedGives
  <2> QED BY <1>3, <2>2 DEF EndsAs
<1>6. CASE result = "error" /\ setting.failOpen
  <2>1. CASE Answer(q, "unavailable")
    <3>1. PICK s \in ReqState : /\ req' = [req EXCEPT ![q] = s] /\ SameAsk(r, s)
                                /\ s.pc = "done" /\ s.outcome = "unavailable"
      BY <1>2, <1>4, <2>1, AnswerGives
    <3> QED BY <1>3, <3>1
  <2>2. CASE req' = [req EXCEPT ![q].pc = "clear", ![q].rows = @ \cup {"PROVIDER_ERROR"}]
    <3> DEFINE s == [r EXCEPT !.pc = "clear", !.rows = @ \cup {"PROVIDER_ERROR"}]
    <3>1. s \in ReqState
      <4>1. r.rows \cup {"PROVIDER_ERROR"} \in SUBSET Row BY <1>2, <1>4 DEF ReqState, Row
      <4> QED BY <1>2, <4>1 DEF ReqState, Row
    <3>2. SameAsk(r, s) /\ s.pc = "clear" BY <1>2 DEF ReqState, SameAsk
    <3>3. req' = [req EXCEPT ![q] = s] BY <2>2
    <3> HIDE DEF s
    <3> QED BY <1>3, <1>6, <3>1, <3>2, <3>3
  <2> QED BY <1>6, <2>1, <2>2 DEF Verdict
<1>7. CASE result = "clear" \/ result = "hit"
  <2>1. PICK pc \in {"clear", "hit"} : Go(q, pc) /\ pc = result BY <1>7 DEF Verdict
  <2>2. PICK s \in ReqState : req' = [req EXCEPT ![q] = s] /\ SameAsk(r, s) /\ s.pc = pc
    BY <1>2, <2>1, GoGives
  <2> QED BY <1>3, <2>1, <2>2
<1> QED BY <1>2, <1>5, <1>6, <1>7

LEMMA ConcludeStep ==
    ASSUME ComplianceIInv, NEW q \in Asker, Conclude(q)
    PROVE  RequestsFine' /\ Geo /\ Sources
<1> DEFINE r == req[q]
<1>1. Geo /\ Sources /\ r.pc \in {"clear", "hit"} BY DEF Conclude, At
<1>2. SharedStays /\ check' = check BY <1>1 DEF Geo, Sources, geoVars, sourceVars, SharedStays
<1>3. /\ r \in ReqState /\ DOMAIN req = Asker /\ check[q] = NoCheck
      /\ ClearIsUnlisted(r, NoCheck)
  BY <1>1, WhatHolds DEF ReqFine, CallsMatch
<1>4. ASSUME NEW s \in ReqState, req' = [req EXCEPT ![q] = s], SameAsk(r, s), s.pc = "done",
             \/ s.outcome = "unavailable"
             \/ r.pc = "clear" /\ s.outcome = "pass" /\ (s.guard => "SANCTIONS ALLOWED" \in s.rows)
             \/ r.pc = "hit" /\ s.outcome = "sanctions" /\ (s.guard => "SANCTIONS BLOCKED" \in s.rows)
      PROVE  RequestsFine'
  <2>1. CallsMatch(s, NoCheck) /\ RowsThere(s)
    BY <1>4, Constants2 DEF CallsMatch, RowsThere
  <2>2. ClearIsUnlisted(s, NoCheck) BY <1>3, <1>4 DEF ClearIsUnlisted, ToldClear, SameAsk
  <2>3. ReqFine(s, NoCheck) BY <1>1, <1>4, <2>1, <2>2, Constants2, GoneThrough DEF Through
  <2> QED BY <1>2, <1>3, <1>4, <2>3, WhatHolds, OneRequest
<1>5. /\ {"pass", "sanctions", "unavailable"} \subseteq Outcome
      /\ "SANCTIONS ALLOWED" \in Row /\ "SANCTIONS BLOCKED" \in Row
  BY DEF Outcome, Row
<1>6. CASE r.pc = "clear" /\ r.guard
  <2>1. Audited(q, "SANCTIONS ALLOWED", "pass", "unavailable") BY <1>6 DEF Conclude, At
  <2>2. "pass" \in Outcome /\ "unavailable" \in Outcome BY <1>5
  <2>3. PICK s \in ReqState : /\ req' = [req EXCEPT ![q] = s]
                              /\ EndsAs(r, s, "SANCTIONS ALLOWED", "pass", "unavailable")
    BY <1>3, <1>5, <2>1, <2>2, AuditedGives
  <2> QED BY <1>1, <1>4, <1>6, <2>3 DEF EndsAs
<1>7. CASE r.pc = "hit" /\ r.guard
  <2>1. Audited(q, "SANCTIONS BLOCKED", "sanctions", "unavailable") BY <1>7 DEF Conclude, At
  <2>2. "sanctions" \in Outcome /\ "unavailable" \in Outcome BY <1>5
  <2>3. PICK s \in ReqState : /\ req' = [req EXCEPT ![q] = s]
                              /\ EndsAs(r, s, "SANCTIONS BLOCKED", "sanctions", "unavailable")
    BY <1>3, <1>5, <2>1, <2>2, AuditedGives
  <2> QED BY <1>1, <1>4, <1>7, <2>3 DEF EndsAs
<1>8. CASE ~r.guard
  <2>1. PICK o \in {"pass", "sanctions"} :
          Answer(q, o) /\ r.pc = (IF o = "pass" THEN "clear" ELSE "hit")
    BY <1>1, <1>8 DEF Conclude, At
  <2>2. o \in Outcome BY <1>5
  <2>3. PICK s \in ReqState : /\ req' = [req EXCEPT ![q] = s] /\ SameAsk(r, s)
                              /\ s.pc = "done" /\ s.outcome = o
    BY <1>3, <2>1, <2>2, AnswerGives
  <2>4. ~s.guard BY <1>8, <2>3 DEF SameAsk
  <2> QED BY <1>1, <1>4, <2>1, <2>3, <2>4
<1> QED BY <1>1, <1>6, <1>7, <1>8

-----------------------------------------------------------------------------
\* The provider.  It clears whom the list does not name, now.
LEMMA FoundClear ==
    ASSUME ComplianceIInv, NEW a \in Address
    PROVE  /\ Found(a) \in {"clear", "hit"}
           /\ Found(a) = "clear" /\ source # "local" => listedFor[a] = 0
BY DEF ComplianceIInv, SourcesFine, EditionsFine, Found, OnList

LEMMA WhileAsking ==
    ASSUME ComplianceIInv, NEW q \in Asker, check[q].pc = "asking",
           NEW k \in CheckState, check' = [check EXCEPT ![q] = k], req' = req, SharedStays,
           k.pc = "asking" => k.to = check[q].to,
           k.pc = "done" => k.result # "none",
           k.pc = "done" /\ k.result = "clear" => Unlisted(check[q].to)
    PROVE  RequestsFine'
<1> DEFINE r == req[q]
<1>1. r.pc = "waiting" /\ check[q].to = r.to /\ r.to \in Address /\ ReqFine(r, check[q])
  BY WhatHolds DEF ReqFine, CallsMatch
<1>2. CallsMatch(r, k) BY <1>1 DEF ReqFine, CallsMatch
<1>3. ClearIsUnlisted(r, k) BY <1>1 DEF ClearIsUnlisted, ToldClear
<1>4. ReqFine(r, k) BY <1>1, <1>2, <1>3 DEF ReqFine
<1> QED BY <1>4, WhatHolds, OneRequest

LEMMA AnswersStep ==
    ASSUME ComplianceIInv, NEW q \in Asker, Answers(q), UNCHANGED <<setting, geoVars, req>>
    PROVE  RequestsFine' /\ BreakerFine'
<1> DEFINE a == check[q].to
<1>1. /\ check[q].pc = "asking" /\ check' = [check EXCEPT ![q] = Done(Found(a))]
      /\ UNCHANGED <<source, production, editions, listedFor, feed>> /\ SharedStays
  BY DEF Answers, geoVars, SharedStays
<1>2. a \in Address BY <1>1, WhatHolds DEF ReqFine, CallsMatch
<1>3. Found(a) \in {"clear", "hit"} /\ (Found(a) = "clear" /\ source # "local" => listedFor[a] = 0)
  BY <1>2, FoundClear
<1>4. RequestsFine'
  <2>1. Done(Found(a)) \in CheckState /\ Done(Found(a)).pc = "done" /\ Done(Found(a)).result = Found(a)
    BY <1>3, SourcesAssumption DEF Done, CheckState
  <2>2. Found(a) = "clear" => Unlisted(a) BY <1>3, SourcesAssumption DEF Unlisted
  <2> QED BY <1>1, <2>1, <2>2, <1>3, WhileAsking
<1>5. CASE source = "breaker"
  <2>1. answers' = [answers EXCEPT ![a] = [age |-> 0, result |-> Found(a)]] /\ RecordSuccess
    BY <1>5 DEF Answers
  <2>2. ASSUME NEW b \in Address
        PROVE  /\ answers'[b] \in [age : 0 .. AnswerTTL, result : {"none", "clear", "hit"}]
               /\ answers'[b].age < AnswerTTL => answers'[b].result # "none"
               /\ answers'[b].age < AnswerTTL /\ answers'[b].result = "clear"
                     => listedFor[b] <= answers'[b].age
    <3>1. CASE b = a
      <4>1. answers'[b] = [age |-> 0, result |-> Found(a)]
        BY <1>2, <2>1, <3>1, WhatHolds DEF BreakerFine
      <4> QED BY <1>3, <1>5, <3>1, <4>1, SourcesAssumption
    <3>2. CASE b # a BY <2>1, <3>2, WhatHolds DEF BreakerFine
    <3> QED BY <3>1, <3>2
  <2>3. failCount' = 0 /\ openFor' \in 0 .. Cooldown
    BY <2>1, SourcesAssumption DEF RecordSuccess
  <2>4. DOMAIN answers' = Address BY <2>1, WhatHolds DEF BreakerFine
  <2>5. failCount' \in 0 .. Threshold BY <2>3, SourcesAssumption
  <2> QED BY <1>1, <1>4, <2>2, <2>3, <2>4, <2>5 DEF BreakerFine
<1>6. CASE source # "breaker"
  <2>1. UNCHANGED breaker BY <1>6 DEF Answers
  <2> QED BY <1>1, <1>4, <2>1, WhatHolds DEF breaker, BreakerFine
<1> QED BY <1>5, <1>6

LEMMA AskFailsStep ==
    ASSUME ComplianceIInv, NEW q \in Asker, AskFails(q), UNCHANGED <<setting, geoVars, req>>
    PROVE  RequestsFine' /\ BreakerFine'
<1> DEFINE c == check[q]
<1>1. /\ c.pc = "asking" /\ SharedStays
      /\ UNCHANGED <<source, production, editions, listedFor, answers, feed>>
  BY DEF AskFails, geoVars, SharedStays
<1>2. c \in CheckState BY WhatHolds
<1>3. CASE source = "breaker"
  <2>1. RecordFail /\ check' = [check EXCEPT ![q] =
           IF c.tries > 0 THEN [c EXCEPT !.tries = @ - 1] ELSE Guessed]
    BY <1>3 DEF AskFails
  <2>2. ASSUME c.tries > 0 PROVE RequestsFine'
    <3> DEFINE k == [c EXCEPT !.tries = @ - 1]
    <3>1. k \in CheckState
      <4>1. c.tries - 1 \in 0 .. Retries BY <1>2, <2>2, SourcesAssumption DEF CheckState
      <4> QED BY <1>2, <4>1 DEF CheckState
    <3>2. k.pc = "asking" /\ k.to = c.to BY <1>1, <1>2 DEF CheckState
    <3>3. check' = [check EXCEPT ![q] = k] BY <2>1, <2>2
    <3> HIDE DEF k
    <3> QED BY <1>1, <3>1, <3>2, <3>3, WhileAsking
  <2>3. ASSUME ~(c.tries > 0) PROVE RequestsFine'
    <3>1. Guessed \in CheckState /\ Guessed.pc = "done" /\ Guessed.result # "none"
      BY SourcesAssumption DEF Guessed, Done, CheckState
    <3>2. Guessed.result = "clear" => Unlisted(c.to) BY <1>3 DEF Guessed, Done, Unlisted
    <3> QED BY <1>1, <2>1, <2>3, <3>1, <3>2, WhileAsking
  <2>4. failCount' \in 0 .. Threshold /\ openFor' \in 0 .. Cooldown
    BY <2>1, WhatHolds, SourcesAssumption DEF RecordFail, BreakerFine
  <2> QED BY <1>1, <1>3, <2>2, <2>3, <2>4, WhatHolds DEF BreakerFine
<1>4. CASE source # "breaker"
  <2>1. UNCHANGED <<failCount, openFor>> /\ check' = [check EXCEPT ![q] = Done("error")]
    BY <1>4 DEF AskFails
  <2>2. /\ Done("error") \in CheckState /\ Done("error").pc = "done"
        /\ Done("error").result = "error"
    BY SourcesAssumption DEF Done, CheckState
  <2>3. RequestsFine' BY <1>1, <2>1, <2>2, WhileAsking
  <2> QED BY <1>1, <2>1, <2>3, WhatHolds DEF BreakerFine
<1> QED BY <1>3, <1>4

-----------------------------------------------------------------------------
\* The sync.  One run goes on, the others find at least what they found before.
LEMMA OneRun ==
    ASSUME FeedFine, NEW s \in Syncer, NEW n, sync' = [sync EXCEPT ![s] = n], editions' = editions,
           table' \subseteq Address, lost' \subseteq Address, Known \subseteq Known',
           stored' \in 1 .. Current, editions[stored'] \subseteq Known', RunFine(n, Known')
    PROVE  FeedFine'
<1>1. Current' = Current BY DEF Current
<1>2. ASSUME NEW t \in Syncer PROVE RunFine(sync'[t], Known')
  <2>1. CASE t = s BY <2>1 DEF FeedFine
  <2>2. CASE t # s
    <3>1. sync'[t] = sync[t] /\ RunFine(sync[t], Known) BY <2>2 DEF FeedFine
    <3> QED BY <3>1 DEF RunFine
  <2> QED BY <2>1, <2>2
<1>3. \A t \in Syncer : RunFine(sync[t], Known)' BY <1>1, <1>2 DEF RunFine
<1>4. DOMAIN sync' = Syncer BY DEF FeedFine
<1> QED BY <1>1, <1>3, <1>4 DEF FeedFine

LEMMA FeedHolds ==
    ASSUME ComplianceIInv, NEW s \in Syncer
    PROVE  /\ FeedFine /\ RunFine(sync[s], Known) /\ sync[s] \in SyncState /\ NoSync \in SyncState
           /\ Current \in Nat \ {0} /\ stored \in 1 .. Current
           /\ table \subseteq Address /\ lost \subseteq Address
           /\ editions[stored] \subseteq Known
           /\ Listed \subseteq Address
BY DEF ComplianceIInv, SourcesFine, FeedFine, EditionsFine, RunFine, SyncState, NoSync, Listed

LEMMA ReadStep ==
    ASSUME ComplianceIInv, NEW s \in Syncer, Read(s)
    PROVE  FeedFine'
<1> DEFINE n == [NoSync EXCEPT !.pc = "fetch", !.since = stored]
<1>1. /\ sync' = [sync EXCEPT ![s] = n]
      /\ UNCHANGED <<table, stored, lost, editions>>
  BY DEF Read, SyncStep
<1>2. n \in SyncState /\ n.pc = "fetch" /\ n.since = stored
  <2>1. stored \in Nat BY FeedHolds
  <2> QED BY ONLY <2>1 DEF SyncState, NoSync
<1> HIDE DEF n
<1>3. Known' = Known /\ Current' = Current BY <1>1 DEF Known, Current
<1>4. RunFine(n, Known') BY <1>1, <1>2, <1>3, FeedHolds DEF RunFine
<1> QED BY <1>1, <1>3, <1>4, FeedHolds, OneRun

\* What is fetched is the difference of the last edition to one already covered.
LEMMA FetchedStep ==
    ASSUME ComplianceIInv, NEW s \in Syncer, Fetched(s)
    PROVE  FeedFine'
<1> DEFINE items == Listed \ editions[sync[s].since]
           n == [sync[s] EXCEPT !.pc = "rows", !.items = items, !.version = Current]
<1>1. /\ sync[s].pc = "fetch" /\ sync' = [sync EXCEPT ![s] = IF items = {} THEN NoSync ELSE n]
      /\ UNCHANGED <<table, stored, lost, editions>>
  BY DEF Fetched, SyncStep
<1>2. Known' = Known /\ Current' = Current BY <1>1 DEF Known, Current
<1>3. editions[sync[s].since] \subseteq Known BY <1>1, FeedHolds DEF RunFine
<1>4. n \in SyncState /\ n.pc = "rows" /\ n.items = items /\ n.version = Current
  <2>1. items \in SUBSET Address BY FeedHolds
  <2> HIDE DEF items
  <2> QED BY <2>1, FeedHolds DEF SyncState
<1>5. editions[Current] \subseteq Known \cup items BY <1>3 DEF Listed
<1> HIDE DEF items, n
<1>6. RunFine(n, Known') BY <1>1, <1>2, <1>4, <1>5, FeedHolds DEF RunFine
<1>7. RunFine(NoSync, Known') BY FeedHolds DEF RunFine, NoSync
<1> QED BY <1>1, <1>2, <1>6, <1>7, FeedHolds, OneRun

\* A row is in the table or known to be lost, whatever the other runs do to it.
LEMMA UpsertStep ==
    ASSUME ComplianceIInv, NEW s \in Syncer, NEW a \in Address, UpsertRow(s, a)
    PROVE  FeedFine'
<1> DEFINE n == [sync[s] EXCEPT !.items = @ \ {a}]
<1>1. /\ sync[s].pc = "rows" /\ sync' = [sync EXCEPT ![s] = n]
      /\ stored' = stored /\ editions' = editions
      /\ \/ table' = table \cup {a} /\ lost' = lost \ {a}
         \/ lost' = lost \cup ({a} \ table) /\ table' = table
  BY DEF UpsertRow, SyncStep
<1>2. Known' = Known \cup {a} BY <1>1 DEF Known
<1>3. table' \subseteq Address /\ lost' \subseteq Address BY <1>1, FeedHolds
<1>4. n \in SyncState /\ n.pc = "rows" /\ n.items = sync[s].items \ {a} /\ n.version = sync[s].version
  <2>1. sync[s].items \ {a} \in SUBSET Address BY FeedHolds DEF SyncState
  <2> QED BY <1>1, <2>1, FeedHolds DEF SyncState
<1>5. Current' = Current BY <1>1 DEF Current
<1> HIDE DEF n
<1>6. RunFine(n, Known')
  <2>1. sync[s].version \in 1 .. Current /\ editions[sync[s].version] \subseteq Known \cup sync[s].items
    BY <1>1, FeedHolds DEF RunFine
  <2>2. editions[n.version] \subseteq Known' \cup n.items BY <1>2, <1>4, <2>1
  <2> QED BY <1>1, <1>4, <1>5, <2>1, <2>2 DEF RunFine
<1> QED BY <1>1, <1>2, <1>3, <1>6, FeedHolds, OneRun

LEMMA EndStep ==
    ASSUME ComplianceIInv, NEW s \in Syncer, SaveVersion(s) \/ SyncDies(s)
    PROVE  FeedFine'
<1>1. sync' = [sync EXCEPT ![s] = NoSync] /\ UNCHANGED <<table, lost, editions>>
  BY DEF SaveVersion, SyncDies, SyncStep
<1>2. Known' = Known /\ Current' = Current BY <1>1 DEF Known, Current
<1>3. RunFine(NoSync, Known') BY FeedHolds DEF RunFine, NoSync
<1>4. stored' \in 1 .. Current /\ editions[stored'] \subseteq Known
  <2>1. CASE SaveVersion(s)
    BY <2>1, FeedHolds DEF SaveVersion, RowsDone, RunFine
  <2>2. CASE SyncDies(s) BY <2>2, FeedHolds DEF SyncDies
  <2> QED BY <2>1, <2>2
<1> QED BY <1>1, <1>2, <1>3, <1>4, FeedHolds, OneRun

-----------------------------------------------------------------------------
\* What happens around the requests: listings only end, and a place or a table
\* that changes is young again.
NoneOlder ==
    /\ \A a \in Address : listedFor'[a] = listedFor[a] \/ listedFor'[a] = 0
    /\ \A i \in Ip : placeAge'[i] = LookupTTL => placeAge[i] = LookupTTL /\ place'[i] = place[i]
    /\ listsAge' = ListTTL => listsAge = ListTTL /\ lists' = lists

LEMMA AllRequests ==
    ASSUME ComplianceIInv, UNCHANGED <<setting, source, production, req, check>>, NoneOlder
    PROVE  RequestsFine' /\ SettingFine'
<1>1. ASSUME NEW q \in Asker PROVE ReqFine(req[q], check[q])'
  <2> DEFINE r == req[q]
             k == check[q]
  <2>1. ReqFine(r, k) /\ r \in ReqState BY WhatHolds
  <2>2. CallsMatch(r, k)' BY <2>1 DEF ReqFine, CallsMatch
  <2>3. ASSUME NEW a \in Address, Unlisted(a) PROVE Unlisted(a)'
    BY <2>3, SourcesAssumption DEF NoneOlder, Unlisted
  <2>4. ClearIsUnlisted(r, k)' BY <2>1, <2>3 DEF ReqFine, ClearIsUnlisted, ToldClear
  <2>5. RowsThere(r)' BY <2>1 DEF ReqFine, RowsThere
  <2>6. Settled(r)' => Settled(r) /\ place'[r.ip] = place[r.ip]
    BY DEF Settled, NoneOlder
  <2>7. Settled(r)' /\ listsAge' = ListTTL => Blocked(r)' = Blocked(r)
    BY <2>6 DEF Blocked, NoneOlder, GeoFailOpen
  <2>8. JudgedRightly(r)'
    BY <2>1, <2>6, <2>7 DEF ReqFine, JudgedRightly, NoneOlder
  <2> QED BY <2>1, <2>2, <2>4, <2>5, <2>8 DEF ReqFine
<1>2. DOMAIN req' = Asker /\ DOMAIN check' = Asker
  BY DEF ComplianceIInv, RequestsFine
<1>3. SettingFine' BY DEF ComplianceIInv, SettingFine
<1> QED BY <1>1, <1>2, <1>3 DEF RequestsFine

LEMMA PublishStep ==
    ASSUME ComplianceIInv, Publish, UNCHANGED <<setting, geoVars, req>>
    PROVE  ComplianceIInv'
<1>1. PICK list \in SUBSET Address :
        /\ editions' = [i \in 1 .. Current + 1 |-> IF i > Current THEN list ELSE editions[i]]
        /\ listedFor' = [a \in Address |-> IF a \in list THEN listedFor[a] ELSE 0]
  BY DEF Publish
<1>2. UNCHANGED <<source, production, check, breaker, feed>> BY DEF Publish
<1>3. /\ Current \in Nat \ {0} /\ EditionsFine /\ BreakerFine /\ FeedFine /\ GeoFine
      /\ Oldest \in Nat
  BY SourcesAssumption DEF ComplianceIInv, SourcesFine, EditionsFine, Oldest
<1>4. Current' = Current + 1
  <2>1. DOMAIN editions' = 1 .. Current + 1 BY <1>1
  <2>2. Cardinality(1 .. Current + 1) = Current + 1 BY <1>3, FS_Interval
  <2> QED BY <2>1, <2>2 DEF Current
<1>5. \A i \in 1 .. Current : editions'[i] = editions[i] BY <1>1, <1>3
<1>6. \A a \in Address : listedFor'[a] = listedFor[a] \/ listedFor'[a] = 0 BY <1>1
<1>7. EditionsFine'
  <2>1. Listed' = list BY <1>1, <1>3, <1>4 DEF Listed
  <2>2. \A i \in 1 .. Current + 1 : editions'[i] \subseteq Address
    BY <1>1, <1>3 DEF EditionsFine
  <2>3. listedFor' \in [Address -> 0 .. Oldest] BY <1>1, <1>3 DEF EditionsFine
  <2>4. \A a \in Address : a \notin list => listedFor'[a] = 0 BY <1>1
  <2> QED BY <1>1, <1>3, <1>4, <2>1, <2>2, <2>3, <2>4 DEF EditionsFine
<1>8. BreakerFine'
  <2>1. ASSUME NEW a \in Address, NEW n \in Nat, listedFor[a] <= n PROVE listedFor'[a] <= n
    BY <1>6, <2>1
  <2> QED BY <1>2, <1>3, <2>1 DEF breaker, BreakerFine
<1>9. FeedFine'
  <2>1. UNCHANGED <<table, stored, lost, sync>> /\ Known' = Known BY <1>2 DEF feed, Known
  <2>2. \A i \in 1 .. Current : i \in 1 .. Current' BY <1>3, <1>4
  <2>3. \A t \in Syncer : RunFine(sync[t], Known)'
    BY <1>3, <1>5, <2>1, <2>2 DEF FeedFine, RunFine
  <2> QED BY <1>3, <1>5, <2>1, <2>2, <2>3 DEF FeedFine
<1>10. GeoFine' BY <1>3 DEF geoVars, GeoFine
<1>11. RequestsFine' /\ SettingFine'
  <2>1. NoneOlder BY <1>6 DEF geoVars, NoneOlder
  <2> QED BY <1>2, <2>1, AllRequests
<1> QED BY <1>7, <1>8, <1>9, <1>10, <1>11 DEF ComplianceIInv, SourcesFine

\* The sources are as they were.
LEMMA SameSources ==
    ASSUME ComplianceIInv, Sources PROVE SettingFine' /\ SourcesFine'
<1>1. /\ UNCHANGED <<setting, source, production, editions, listedFor>>
      /\ UNCHANGED <<answers, failCount, openFor>> /\ UNCHANGED <<table, stored, lost, sync>>
  BY DEF Sources, sourceVars
<1>2. EditionsFine /\ BreakerFine /\ FeedFine /\ SettingFine
  BY DEF ComplianceIInv, SourcesFine
<1>3. Current' = Current /\ Listed' = Listed /\ Known' = Known BY <1>1 DEF Current, Listed, Known
<1>4. EditionsFine' BY <1>1, <1>2, <1>3 DEF EditionsFine
<1>5. BreakerFine' BY <1>1, <1>2 DEF BreakerFine
<1>6. FeedFine' BY <1>1, <1>2, <1>3 DEF FeedFine, RunFine
<1>7. SettingFine' BY <1>1, <1>2 DEF SettingFine
<1> QED BY <1>4, <1>5, <1>6, <1>7 DEF SourcesFine

\* A client moves, or the tables of blocked places change.
LEMMA WorldStep ==
    ASSUME ComplianceIInv,
           \/ \E i \in Ip, p \in Place : Move(i, p)
           \/ \E l \in Lists : ChangeLists(l)
    PROVE  ComplianceIInv'
<1>1. Sources /\ UNCHANGED <<lookups, listCache, req>> BY DEF Move, ChangeLists
<1>2. SettingFine' /\ SourcesFine' BY <1>1, SameSources
<1>3. GeoFine BY DEF ComplianceIInv
<1>4. ASSUME NEW i \in Ip, NEW p \in Place, Move(i, p) PROVE GeoFine' /\ NoneOlder
  <2>1. /\ place' = [place EXCEPT ![i] = p] /\ placeAge' = [placeAge EXCEPT ![i] = 0]
        /\ UNCHANGED <<lists, listsAge, listedFor>>
    BY <1>1, <1>4 DEF Move, Sources, sourceVars
  <2>2. /\ place' \in [Ip -> Place] /\ placeAge' \in [Ip -> 0 .. LookupTTL]
        /\ placeAge'[i] = 0 /\ \A j \in Ip \ {i} : placeAge'[j] = placeAge[j] /\ place'[j] = place[j]
    BY <1>3, <2>1, ComplianceAssumption DEF GeoFine
  <2>3. \A j \in Ip : /\ lookups'[j] \in [age : 0 .. LookupTTL, place : Place \cup {Null, NoPlace}]
                      /\ lookups'[j].age < placeAge'[j] /\ lookups'[j].place # Null
                            => lookups'[j].place = place'[j]
    <3> TAKE j \in Ip
    <3>1. CASE j = i BY <1>1, <1>3, <2>2, <3>1 DEF GeoFine
    <3>2. CASE j # i BY <1>1, <1>3, <2>2, <3>2 DEF GeoFine
    <3> QED BY <3>1, <3>2
  <2>4. GeoFine' BY <1>1, <1>3, <2>1, <2>2, <2>3 DEF GeoFine
  <2>5. NoneOlder BY <2>1, <2>2, ComplianceAssumption DEF NoneOlder
  <2> QED BY <2>4, <2>5
<1>5. ASSUME NEW l \in Lists, ChangeLists(l) PROVE GeoFine' /\ NoneOlder
  <2>1. lists' = l /\ listsAge' = 0 /\ UNCHANGED <<place, placeAge, listedFor>>
    BY <1>1, <1>5 DEF ChangeLists, Sources, sourceVars
  <2>2. GeoFine' BY <1>1, <1>3, <2>1, ComplianceAssumption DEF GeoFine
  <2>3. NoneOlder BY <2>1, ComplianceAssumption DEF NoneOlder
  <2> QED BY <2>2, <2>3
<1>6. GeoFine' /\ NoneOlder BY <1>4, <1>5
<1>7. RequestsFine' BY <1>1, <1>6, AllRequests DEF Sources, sourceVars
<1> QED BY <1>2, <1>6, <1>7 DEF ComplianceIInv

\* Time passes; nothing is asked meanwhile.
LEMMA TickStep ==
    ASSUME ComplianceIInv, Tick
    PROVE  ComplianceIInv'
<1>1. EditionsFine /\ BreakerFine /\ FeedFine /\ GeoFine /\ SettingFine
  BY DEF ComplianceIInv, SourcesFine
<1>2. /\ UNCHANGED <<source, production, editions, check, failCount>>
      /\ UNCHANGED <<table, stored, lost, sync>> /\ UNCHANGED <<place, lists, setting, req>>
  BY DEF Tick, SourcesTick, feed
<1>3. Current' = Current /\ Listed' = Listed /\ Known' = Known BY <1>2 DEF Current, Listed, Known
<1>4. AnswerTTL \in Nat /\ Cooldown \in Nat /\ Oldest \in Nat /\ AnswerTTL < Oldest
  BY SourcesAssumption DEF Oldest
<1>5. \A a \in Address : listedFor'[a] \in 0 .. Oldest /\ (a \notin Listed => listedFor'[a] = 0)
                         /\ listedFor'[a] <= listedFor[a] + 1
  BY <1>1, <1>4 DEF Tick, SourcesTick, Older, EditionsFine
<1>6. EditionsFine'
  <2>1. listedFor' = [a \in Address |-> IF a \in Listed THEN Older(listedFor[a], Oldest) ELSE 0]
    BY DEF Tick, SourcesTick
  <2>2. listedFor' \in [Address -> 0 .. Oldest] BY <1>5, <2>1
  <2> QED BY <1>1, <1>2, <1>3, <1>5, <2>2 DEF EditionsFine
<1>7. BreakerFine'
  <2>1. ASSUME NEW a \in Address
        PROVE  /\ answers'[a].result = answers[a].result
               /\ answers'[a].age = Older(answers[a].age, AnswerTTL)
               /\ answers'[a] \in [age : 0 .. AnswerTTL, result : {"none", "clear", "hit"}]
    <3>1. answers'[a] = [answers[a] EXCEPT !.age = Older(@, AnswerTTL)]
      BY DEF Tick, SourcesTick
    <3>2. answers[a] \in [age : 0 .. AnswerTTL, result : {"none", "clear", "hit"}]
      BY <1>1 DEF BreakerFine
    <3>3. Older(answers[a].age, AnswerTTL) \in 0 .. AnswerTTL BY <1>4, <3>2 DEF Older
    <3> QED BY <3>1, <3>2, <3>3
  <2>2. ASSUME NEW a \in Address, answers'[a].age < AnswerTTL
        PROVE  answers'[a].age = answers[a].age + 1 /\ answers[a].age < AnswerTTL
    BY <1>1, <1>4, <2>1, <2>2 DEF BreakerFine, Older
  <2>3. ASSUME NEW a \in Address
        PROVE  /\ answers'[a].age < AnswerTTL => answers'[a].result # "none"
               /\ answers'[a].age < AnswerTTL /\ answers'[a].result = "clear"
                     => listedFor'[a] <= answers'[a].age
    <3>1. /\ answers[a].age < AnswerTTL => answers[a].result # "none"
          /\ answers[a].age < AnswerTTL /\ answers[a].result = "clear"
                => listedFor[a] <= answers[a].age
          /\ listedFor[a] \in Nat /\ answers[a].age \in Nat
      BY <1>1, <1>4 DEF BreakerFine, EditionsFine
    <3> QED BY <1>4, <1>5, <2>1, <2>2, <3>1
  <2>4. openFor' \in 0 .. Cooldown BY <1>1, <1>4 DEF Tick, SourcesTick, Older, BreakerFine
  <2>5. DOMAIN answers' = Address BY DEF Tick, SourcesTick
  <2> QED BY <1>1, <1>2, <2>1, <2>3, <2>4, <2>5 DEF BreakerFine
<1>8. FeedFine' BY <1>1, <1>2, <1>3 DEF FeedFine, RunFine
<1>9. GeoFine'
  <2>1. LookupTTL \in Nat /\ ListTTL \in Nat BY ComplianceAssumption
  <2>2. ASSUME NEW i \in Ip
        PROVE  /\ placeAge'[i] \in 0 .. LookupTTL
               /\ lookups'[i] \in [age : 0 .. LookupTTL, place : Place \cup {Null, NoPlace}]
               /\ lookups'[i].age < placeAge'[i] /\ lookups'[i].place # Null
                     => lookups'[i].place = place'[i]
    <3>1. /\ placeAge'[i] = Older(placeAge[i], LookupTTL)
          /\ lookups'[i] = [lookups[i] EXCEPT !.age = Older(@, LookupTTL)]
      BY DEF Tick
    <3>2. /\ lookups[i] \in [age : 0 .. LookupTTL, place : Place \cup {Null, NoPlace}]
          /\ placeAge[i] \in 0 .. LookupTTL
          /\ lookups[i].age < placeAge[i] /\ lookups[i].place # Null
                => lookups[i].place = place[i]
      BY <1>1 DEF GeoFine
    <3>3. /\ Older(lookups[i].age, LookupTTL) \in 0 .. LookupTTL
          /\ Older(placeAge[i], LookupTTL) \in 0 .. LookupTTL
          /\ Older(lookups[i].age, LookupTTL) < Older(placeAge[i], LookupTTL)
                => lookups[i].age < placeAge[i]
      BY <2>1, <3>2 DEF Older
    <3>4. /\ lookups'[i].age = Older(lookups[i].age, LookupTTL)
          /\ lookups'[i].place = lookups[i].place
          /\ lookups'[i] \in [age : 0 .. LookupTTL, place : Place \cup {Null, NoPlace}]
      BY <3>1, <3>2, <3>3
    <3> QED BY <1>2, <3>1, <3>2, <3>3, <3>4
  <2>3. /\ listsAge' \in 0 .. ListTTL /\ listCache'.age \in 0 .. ListTTL
        /\ DOMAIN listCache' = {"age", "val"}
        /\ listCache'.age < listsAge' => listCache'.val = lists'
    <3>1. /\ listsAge' = Older(listsAge, ListTTL)
          /\ listCache' = [listCache EXCEPT !.age = Older(@, ListTTL)]
      BY DEF Tick
    <3>2. listCache'.age = Older(listCache.age, ListTTL) /\ listCache'.val = listCache.val
          /\ DOMAIN listCache' = {"age", "val"}
      BY <1>1, <3>1 DEF GeoFine
    <3> QED BY <1>1, <1>2, <2>1, <3>1, <3>2 DEF GeoFine, Older
  <2>4. DOMAIN lookups' = Ip /\ placeAge' \in [Ip -> 0 .. LookupTTL]
    BY <2>2 DEF Tick
  <2> QED BY <1>1, <1>2, <2>2, <2>3, <2>4 DEF GeoFine
<1>10. RequestsFine'
  <2>1. ASSUME NEW q \in Asker PROVE ReqFine(req[q], check[q])'
    <3>1. req[q].pc = "idle" /\ req[q] \in ReqState /\ check[q] = NoCheck
      BY WhatHolds DEF Tick, At, ReqFine, CallsMatch
    <3> QED BY <1>2, <3>1, Constants2
            DEF ReqFine, CallsMatch, ClearIsUnlisted, ToldClear, RowsThere, JudgedRightly, Through
  <2> QED BY <1>2, <2>1 DEF RequestsFine, ComplianceIInv
<1>11. SettingFine' BY <1>1, <1>2 DEF SettingFine
<1> QED BY <1>6, <1>7, <1>8, <1>9, <1>10, <1>11 DEF ComplianceIInv, SourcesFine

-----------------------------------------------------------------------------
LEMMA InitInv == Init => ComplianceIInv
<1> SUFFICES ASSUME Init PROVE ComplianceIInv OBVIOUS
<1>1. SettingFine BY DEF Init, SettingFine
<1>2. Oldest \in Nat BY SourcesAssumption DEF Oldest
<1>3. Current = 1
  <2>1. DOMAIN editions = {1} BY DEF Init, SourcesInit
  <2>2. Cardinality({1}) = 1 BY FS_Singleton
  <2> QED BY <2>1, <2>2 DEF Current
<1>4. EditionsFine BY <1>2, <1>3 DEF Init, SourcesInit, EditionsFine
<1>5. BreakerFine BY SourcesAssumption DEF Init, SourcesInit, NoAnswer, BreakerFine
<1>6. FeedFine
  <2>1. NoSync \in SyncState /\ NoSync.pc = "idle" BY DEF NoSync, SyncState
  <2> QED BY <1>3, <2>1 DEF Init, SourcesInit, FeedFine, RunFine
<1>7. GeoFine
  <2>1. Somewhere \in Place BY ComplianceAssumption DEF Somewhere
  <2>2. place \in [Ip -> Place] BY <2>1 DEF Init
  <2>3. \A i \in Ip : lookups[i] = NoLookup /\ placeAge[i] = 0 BY DEF Init
  <2>4. placeAge \in [Ip -> 0 .. LookupTTL] /\ DOMAIN lookups = Ip
    BY ComplianceAssumption DEF Init
  <2>5. \A i \in Ip : ~(lookups[i].age < placeAge[i])
    BY <2>3, ComplianceAssumption DEF NoLookup
  <2>6. /\ listsAge = 0 /\ listCache.age = ListTTL /\ DOMAIN listCache = {"age", "val"}
    BY DEF Init, NoLists
  <2>7. ListTTL \in Nat \ {0} BY ComplianceAssumption
  <2> QED BY <2>2, <2>3, <2>4, <2>5, <2>6, <2>7, Constants2 DEF GeoFine
<1>8. RequestsFine
  <2>1. ReqFine(Idle, NoCheck) BY Constants2, QuietRequest
  <2> QED BY <2>1 DEF Init, SourcesInit, RequestsFine
<1> QED BY <1>1, <1>4, <1>5, <1>6, <1>7, <1>8 DEF ComplianceIInv, SourcesFine

\* The geofence's caches, when nobody writes them.
LEMMA SameGeo ==
    ASSUME GeoFine, Geo PROVE GeoFine'
BY DEF Geo, geoVars, GeoFine

LEMMA RequestStep ==
    ASSUME ComplianceIInv, NEW q \in Asker, Arrive(q) \/ Step(q)
    PROVE  ComplianceIInv'
<1>1. GeoFine /\ BreakerFine /\ FeedFine /\ EditionsFine BY WhatHolds
<1>2. CASE Arrive(q) \/ Lookup(q) \/ Judge(q) \/ Conclude(q) \/ Leave(q)
  <2>1. RequestsFine' /\ Geo /\ Sources
    BY <1>2, ArriveStep, LookupStep, JudgeStep, ConcludeStep, LeaveStep
  <2> QED BY <1>1, <2>1, SameGeo, SameSources DEF ComplianceIInv
<1>3. CASE RegistryAnswers(q) \/ RegistryFails(q) \/ LoadLists(q) \/ ListsFails(q)
  <2>1. RequestsFine' /\ GeoFine' /\ Sources BY <1>3, RegistryStep, ListsStep
  <2> QED BY <2>1, SameSources DEF ComplianceIInv
<1>4. CASE AskSanctions(q) \/ Verdict(q)
  <2>1. RequestsFine' BY <1>4, AskStep, VerdictStep
  <2>2. /\ UNCHANGED <<source, production, editions, listedFor, breaker, feed, setting>>
        /\ Geo
    BY <1>4 DEF AskSanctions, Verdict
  <2>3. Current' = Current /\ Listed' = Listed /\ Known' = Known
    BY <2>2 DEF Current, Listed, feed, Known
  <2>4. EditionsFine' BY <1>1, <2>2, <2>3 DEF EditionsFine
  <2>5. BreakerFine' BY <1>1, <2>2 DEF breaker, BreakerFine
  <2>6. FeedFine' BY <1>1, <2>2, <2>3 DEF feed, FeedFine, RunFine
  <2>7. SettingFine' BY <2>2 DEF ComplianceIInv, SettingFine
  <2> QED BY <1>1, <2>1, <2>2, <2>4, <2>5, <2>6, <2>7, SameGeo
          DEF ComplianceIInv, SourcesFine
<1> QED BY <1>2, <1>3, <1>4 DEF Step

LEMMA SourceStepInv ==
    ASSUME ComplianceIInv, SourceStep, UNCHANGED <<setting, geoVars, req>>
    PROVE  ComplianceIInv'
<1>1. GeoFine /\ BreakerFine /\ FeedFine /\ EditionsFine
  BY DEF ComplianceIInv, SourcesFine
<1>2. GeoFine' BY <1>1, SameGeo DEF Geo
<1>3. ASSUME UNCHANGED <<source, production, editions, listedFor>>
      PROVE  EditionsFine' /\ SettingFine' /\ Current' = Current
  <2>1. Current' = Current /\ Listed' = Listed BY <1>3 DEF Current, Listed
  <2>2. EditionsFine' BY <1>1, <1>3, <2>1 DEF EditionsFine
  <2>3. SettingFine' BY <1>3 DEF ComplianceIInv, SettingFine
  <2> QED BY <2>1, <2>2, <2>3
<1>4. ASSUME NEW q \in Asker, Answers(q) \/ AskFails(q) PROVE ComplianceIInv'
  <2>1. RequestsFine' /\ BreakerFine' BY <1>4, AnswersStep, AskFailsStep
  <2>2. UNCHANGED <<source, production, editions, listedFor, feed>>
    BY <1>4 DEF Answers, AskFails
  <2>3. FeedFine' BY <1>1, <1>3, <2>2 DEF feed, FeedFine, RunFine, Known
  <2> QED BY <1>2, <1>3, <2>1, <2>2, <2>3 DEF ComplianceIInv, SourcesFine
<1>5. ASSUME NEW s \in Syncer,
             \/ Read(s) \/ Fetched(s) \/ SaveVersion(s) \/ SyncDies(s)
             \/ \E a \in Address : UpsertRow(s, a)
      PROVE  ComplianceIInv'
  <2>1. FeedFine' BY <1>5, ReadStep, FetchedStep, EndStep, UpsertStep
  <2>2. UNCHANGED <<source, production, editions, listedFor, check, breaker>>
    BY <1>5 DEF Read, Fetched, SaveVersion, SyncDies, UpsertRow, SyncStep
  <2>3. BreakerFine' BY <1>1, <2>2 DEF breaker, BreakerFine
  <2>4. NoneOlder BY <2>2 DEF geoVars, NoneOlder
  <2>5. RequestsFine' BY <2>2, <2>4, AllRequests
  <2> QED BY <1>2, <1>3, <2>1, <2>2, <2>3, <2>5 DEF ComplianceIInv, SourcesFine
<1> QED BY <1>4, <1>5, PublishStep DEF SourceStep

LEMMA StepInv == ComplianceIInv /\ [Next]_vars => ComplianceIInv'
<1> SUFFICES ASSUME ComplianceIInv, [Next]_vars PROVE ComplianceIInv' OBVIOUS
<1>1. CASE \E q \in Asker : Arrive(q) \/ Step(q) BY <1>1, RequestStep
<1>2. CASE SourceStep /\ UNCHANGED <<setting, geoVars, req>> BY <1>2, SourceStepInv
<1>3. CASE \/ \E i \in Ip, p \in Place : Move(i, p)
           \/ \E l \in Lists : ChangeLists(l)
  BY <1>3, WorldStep
<1>4. CASE Tick BY <1>4, TickStep
<1>5. CASE UNCHANGED vars
  <2>1. Sources /\ Geo /\ UNCHANGED <<req, check, listedFor, source, production, setting>>
    BY <1>5 DEF vars, Sources, Geo, sourceVars
  <2>2. NoneOlder BY <2>1 DEF Geo, geoVars, NoneOlder
  <2>3. RequestsFine' BY <2>1, <2>2, AllRequests
  <2> QED BY <2>1, <2>3, SameGeo, SameSources DEF ComplianceIInv
<1> QED BY <1>1, <1>2, <1>3, <1>4, <1>5 DEF Next

\* The inductive invariant holds of the compliance check (compliance/*.ts), for
\* every configuration, with any number of requests and of overlapping syncs.
THEOREM ComplianceInvariance == Spec => []ComplianceIInv
BY InitInv, StepInv, PTL DEF Spec

-----------------------------------------------------------------------------
\* Ages, counters, tables and requests keep their types (ComplianceTypeOK):
\* the breaker's counter stops at its threshold (trm.provider.ts), the stored
\* version is one that was published (sanctions.sync.service.ts).
THEOREM ComplianceTypeCorrect == Spec => []ComplianceTypeOK
<1>1. ComplianceIInv => ComplianceTypeOK
  <2> SUFFICES ASSUME ComplianceIInv PROVE ComplianceTypeOK OBVIOUS
  <2>1. EditionsFine /\ BreakerFine /\ FeedFine /\ GeoFine
    BY DEF ComplianceIInv, SourcesFine
  <2>2. \A q \in Asker : check[q] \in CheckState /\ req[q] \in ReqState BY WhatHolds
  <2>3. SourcesTypeOK
    BY <2>1, <2>2 DEF EditionsFine, BreakerFine, FeedFine, CheckState, SourcesTypeOK
  <2> QED BY <2>1, <2>2, <2>3 DEF GeoFine, ReqState, ComplianceTypeOK
<1> QED BY <1>1, ComplianceInvariance, PTL

\* The sanctions check fails closed (sanctions.service.ts isBlocked): nobody
\* gets through to an address while its provider lists it, but for as long as
\* an answer may be cached (trm.provider.ts).
THEOREM ListedRefused == Spec => []ListedIsRefused
<1>1. ComplianceIInv => ListedIsRefused
  <2> SUFFICES ASSUME ComplianceIInv, NEW q \in Asker,
                      Answered(q, "pass"), setting.sanctions, ~setting.failOpen,
                      req[q].to \in Address
               PROVE  Unlisted(req[q].to)
    BY DEF ListedIsRefused, Unlisted
  <2>1. ClearIsUnlisted(req[q], check[q]) BY WhatHolds DEF ReqFine
  <2> QED BY <2>1 DEF Answered, At, ClearIsUnlisted, ToldClear
<1> QED BY <1>1, ComplianceInvariance, PTL

\* The first rule that holds (Min of FiniteSetsExt).
LEMMA LeastIsThere ==
    ASSUME NEW S, S \subseteq Nat, S # {}
    PROVE  Min(S) \in S
<1> DEFINE R == OpToRel(<, Nat)
<1>1. \E x \in S : \A y \in S : ~ (<<y, x>> \in R)
  BY NatLessThanWellFounded, WFMin
<1>2. \A x \in S, y \in S : ~ (<<y, x>> \in R) => x <= y BY DEF OpToRel
<1> HIDE DEF R
<1>3. \E x \in S : \A y \in S : x <= y BY <1>1, <1>2
<1> QED BY <1>3 DEF Min

\* What the rules look for, in whatever order.
Suspect(r, val) ==
    \/ r.country \in val.countries
    \/ r.region # Unknown /\ <<r.country, r.region>> \in val.regions
    \/ r.threat # Unknown /\ r.threat >= MinThreat
    \/ r.bot # Unknown /\ r.bot <= MaxBot
    \/ r.asn \in DenyAsn \/ r.asType \in DenyAsType
    \/ r.signals \cap (BlockOn \ {"vpn_or_proxy"}) # {}
    \/ "vpn_or_proxy" \in BlockOn /\ r.signals \cap {"vpn", "proxy"} # {}
    \/ {"attacker", "abuser"} \cap r.signals # {}

\* The rules are complete and only an allowed network comes before them
\* (shouldBlock, utils/geo.ts:257): with any mark of a suspect a request of a known
\* country is refused, and for nothing else.
THEOREM AnyRuleRefuses ==
    ASSUME NEW r, NEW val
    PROVE  ShouldBlock(r, val) = "ok" <=> (r.asn \in AllowAsn \/ ~Suspect(r, val))
<1> DEFINE rules == Rules(r, val)
           hits == {i \in DOMAIN rules : rules[i].when}
<1>1. DOMAIN rules = 1 .. 14 BY DEF Rules
<1>2. \A i \in 1 .. 14 : rules[i].reason # "ok" BY DEF Rules, Rule, Signal, SignalOf
<1>3. (\E i \in 1 .. 14 : rules[i].when) <=> Suspect(r, val)
  <2>1. /\ rules[1].when <=> r.country \in val.countries
        /\ rules[2].when <=> (r.region # Unknown /\ <<r.country, r.region>> \in val.regions)
        /\ rules[3].when <=> (r.threat # Unknown /\ r.threat >= MinThreat)
        /\ rules[4].when <=> (r.bot # Unknown /\ r.bot <= MaxBot)
        /\ rules[5].when <=> r.asn \in DenyAsn
        /\ rules[6].when <=> r.asType \in DenyAsType
    BY DEF Rules, Rule
  <2>2. /\ rules[7].when <=> "bogon" \in r.signals \cap BlockOn
        /\ rules[8].when <=> "relay" \in r.signals \cap BlockOn
        /\ rules[9].when <=> "threat" \in r.signals \cap BlockOn
        /\ rules[10].when <=> "tor" \in r.signals \cap BlockOn
        /\ rules[11].when <=>
               ("vpn_or_proxy" \in BlockOn /\ r.signals \cap {"vpn", "proxy"} # {})
        /\ rules[12].when <=> "cloud" \in r.signals \cap BlockOn
        /\ rules[13].when <=> "attacker" \in r.signals
        /\ rules[14].when <=> "abuser" \in r.signals
    BY DEF Rules, Rule, Signal, SignalOf
  <2> HIDE DEF rules
  <2>3. BlockOn \subseteq {"bogon", "relay", "threat", "tor", "vpn_or_proxy", "cloud"}
    BY PolicyAssumption DEF Optional
  <2>4. r.signals \cap (BlockOn \ {"vpn_or_proxy"}) # {} <=>
          \/ rules[7].when \/ rules[8].when \/ rules[9].when \/ rules[10].when
          \/ rules[12].when
    <3>1. BlockOn \ {"vpn_or_proxy"}
            = BlockOn \cap {"bogon", "relay", "threat", "tor", "cloud"}
      BY <2>3
    <3>2. r.signals \cap (BlockOn \cap {"bogon", "relay", "threat", "tor", "cloud"}) # {}
            <=> \E s \in {"bogon", "relay", "threat", "tor", "cloud"} : s \in r.signals \cap BlockOn
      OBVIOUS
    <3> QED BY ONLY <2>2, <3>1, <3>2
  <2>5. {"attacker", "abuser"} \cap r.signals # {} <=> rules[13].when \/ rules[14].when
    BY <2>2
  <2>6. Suspect(r, val) <=>
          \/ rules[1].when \/ rules[2].when \/ rules[3].when \/ rules[4].when
          \/ rules[5].when \/ rules[6].when
          \/ rules[7].when \/ rules[8].when \/ rules[9].when \/ rules[10].when
          \/ rules[11].when \/ rules[12].when \/ rules[13].when \/ rules[14].when
    BY ONLY <2>1, <2>2, <2>4, <2>5 DEF Suspect
  <2>7. \A i \in 1 .. 14 : i \in {1, 2, 3, 4, 5, 6, 7, 8, 9, 10, 11, 12, 13, 14}
    OBVIOUS
  <2> QED BY ONLY <2>6, <2>7
<1>4. ShouldBlock(r, val) = IF r.asn \in AllowAsn \/ hits = {} THEN "ok" ELSE rules[Min(hits)].reason
  BY DEF ShouldBlock
<1> HIDE DEF rules
<1>5. hits \subseteq 1 .. 14 /\ (hits = {} <=> ~Suspect(r, val)) BY <1>1, <1>3
<1>6. hits # {} => Min(hits) \in 1 .. 14 BY <1>5, LeastIsThere
<1> QED BY <1>2, <1>4, <1>5, <1>6

\* The geofence (geofence.service.ts, utils/geo.ts) refuses exactly whom its
\* tables and the client's place say, once these have not changed for as long
\* as the caches of both live.
THEOREM GeofenceFollows == Spec => []DecisionsFollowTables
<1>1. ComplianceIInv => DecisionsFollowTables
  <2> SUFFICES ASSUME ComplianceIInv, NEW q \in Asker, setting.geofence, At(q, "done"),
                      req[q].ip \in Ip, req[q].place # Blind, listsAge = ListTTL,
                      placeAge[req[q].ip] = LookupTTL, req[q].outcome # "crash"
               PROVE  (req[q].outcome = "geofence") = Blocked(req[q])
    BY DEF DecisionsFollowTables, Blocked
  <2>1. JudgedRightly(req[q]) BY WhatHolds DEF ReqFine
  <2>2. req[q].outcome = "geofence" <=> Blocked(req[q])
    BY <2>1 DEF At, JudgedRightly, Settled
  <2>3. Blocked(req[q]) \in BOOLEAN
    <3>1. GeoFailOpen \in BOOLEAN BY DEF GeoFailOpen
    <3> QED BY <3>1 DEF Blocked
  <2> QED BY <2>2, <2>3
<1> QED BY <1>1, ComplianceInvariance, PTL

\* A verdict of the guard (compliance.guard.ts) leaves its row in the audit.
THEOREM VerdictsAudited == Spec => []GuardLeavesRows
<1>1. ComplianceIInv => GuardLeavesRows
  <2> SUFFICES ASSUME ComplianceIInv PROVE \A q \in Asker : RowsThere(req[q])
    BY DEF GuardLeavesRows, At, RowsThere
  <2> QED BY WhatHolds DEF ReqFine
<1> QED BY <1>1, ComplianceInvariance, PTL

\* The table covers the version that is stored with it (sanctions.sync.service.ts):
\* runs that overlap or die leave no listed address out, but for failed rows.
THEOREM SyncCovers == Spec => []TableCoversVersion
<1>1. ComplianceIInv => TableCoversVersion
  BY DEF ComplianceIInv, SourcesFine, FeedFine, Known, TableCoversVersion
<1> QED BY <1>1, ComplianceInvariance, PTL

\* A breaker that has opened, with no call under way, never closes again
\* (trm.provider.ts circuitOpen, recordSuccess): why OpenWithinCooldown, which says
\* what the comment there expects, is refuted.
THEOREM NeverCloses == Spec => OpenForGood
<1>1. ComplianceIInv /\ [Next]_vars => [Stuck => Stuck']_vars
  <2> SUFFICES ASSUME ComplianceIInv, Next, Stuck PROVE Stuck' BY DEF vars, Stuck
  <2>1. /\ failCount >= Threshold /\ \A q \in Asker : check[q].pc = "done"
        /\ source = "breaker" /\ DOMAIN check = Asker
    BY SourcesAssumption DEF Stuck, ComplianceIInv, SourcesFine, BreakerFine, RequestsFine
  <2>2. ASSUME UNCHANGED <<failCount, check>> PROVE Stuck' BY <2>1, <2>2 DEF Stuck
  <2>3. ASSUME NEW q \in Asker, Arrive(q) \/ Step(q) PROVE Stuck'
    <3>1. CASE AskSanctions(q)
      <4>1. failCount' = failCount BY <3>1 DEF AskSanctions, breaker
      <4>2. CASE UNCHANGED check BY <2>2, <4>1, <4>2
      <4>3. CASE check' = [check EXCEPT ![q] = Begun(req[q].to)]
        <5>1. Begun(req[q].to).pc = "done"
          BY <2>1 DEF Begun, CircuitOpen, Guessed, Done
        <5> QED BY <2>1, <4>1, <4>3, <5>1 DEF Stuck
      <4> QED BY <3>1, <4>2, <4>3 DEF AskSanctions, Ask
    <3>2. CASE Verdict(q)
      <4>1. failCount' = failCount /\ check' = [check EXCEPT ![q] = NoCheck]
        BY <3>2 DEF Verdict, breaker
      <4> QED BY <2>1, <4>1 DEF Stuck, NoCheck, Done
    <3>3. CASE Sources BY <2>2, <3>3 DEF Sources, sourceVars
    <3>4. \/ AskSanctions(q) \/ Verdict(q) \/ Sources
      BY <2>3 DEF Step, Arrive, Lookup, RegistryAnswers, RegistryFails, Judge, LoadLists,
                  ListsFails, Conclude, Leave
    <3> QED BY <3>1, <3>2, <3>3, <3>4
  <2>4. ASSUME SourceStep PROVE Stuck'
    <3>1. CASE Publish BY <2>2, <3>1 DEF Publish, breaker
    <3>2. CASE \E q \in Asker : Answers(q) \/ AskFails(q)
      BY <2>1, <3>2 DEF Answers, AskFails
    <3>3. CASE \E s \in Syncer : \/ Read(s) \/ Fetched(s) \/ SaveVersion(s) \/ SyncDies(s)
                                 \/ \E a \in Address : UpsertRow(s, a)
      BY <2>2, <3>3 DEF Read, Fetched, SaveVersion, SyncDies, UpsertRow, SyncStep, breaker
    <3> QED BY <2>4, <3>1, <3>2, <3>3 DEF SourceStep
  <2>5. ASSUME \/ \E i \in Ip, p \in Place : Move(i, p)
               \/ \E l \in Lists : ChangeLists(l)
        PROVE  Stuck'
    BY <2>2, <2>5 DEF Move, ChangeLists, Sources, sourceVars
  <2>6. ASSUME Tick PROVE Stuck' BY <2>2, <2>6 DEF Tick, SourcesTick
  <2> QED BY <2>3, <2>4, <2>5, <2>6 DEF Next
<1> QED BY <1>1, ComplianceInvariance, PTL DEF Spec, OpenForGood
=============================================================================
