------------------------------ MODULE Compliance ------------------------------
(***************************************************************************)
(* The compliance check of a request: the guard of POST /tx and the        *)
(* preflight the client asks before it sends, over the geofence (its caches *)
(* of lookups and of the blocked places) and the sanctions sources.  A     *)
(* request is a process; each step ends at an await.  Time passes in ticks *)
(* between requests: they are short against the times of the caches.       *)
(***************************************************************************)
EXTENDS SanctionsSources, GeoPolicy

CONSTANTS
    Settings,      \* the configurations to look at
    Ip, Place,     \* addresses of clients, and what ipregistry may say of them
    Headers,       \* headers that may come along
    Lists,         \* what the tables of blocked places may hold
    LookupTTL, ListTTL         \* IPREGISTRY_CACHE_TTL_S, BLOCKLIST_TTL_MS

\* A client is somewhere, and no address is the word for a missing receiver.
ASSUME ComplianceAssumption ==
    /\ LookupTTL \in Nat \ {0} /\ ListTTL \in Nat \ {0}
    /\ Place # {} /\ "none" \notin Address
    /\ Settings \subseteq [geofence : BOOLEAN, sanctions : BOOLEAN, production : BOOLEAN,
                           geoFailOpen : BOOLEAN, failOpen : BOOLEAN,
                           source : {"remote", "breaker", "local"}]

VARIABLES
    setting,       \* the environment variables the code reads
    place,         \* where each client is,
    placeAge,      \* and for how many ticks
    lookups,       \* cacheGeoThreat
    lists, listsAge,           \* the tables, and for how long they are so
    listCache,     \* countriesCache and regionsCache, always written together
    req            \* the requests

geoVars == <<place, placeAge, lookups, lists, listsAge, listCache>>
vars == <<sourceVars, setting, geoVars, req>>

NoLookup == [age |-> LookupTTL, place |-> NoPlace]
\* A lookup that failed is cached, too: geo and signals are null.
Null == [country |-> "null", region |-> Unknown]
\* What a request then goes by, if its headers have country and region.
Blind == [country |-> Unknown, region |-> Unknown,
          asn |-> Unknown, asType |-> Unknown, signals |-> {}]
NoLists == [age |-> ListTTL, val |-> [countries |-> {}, regions |-> {}]]

Somewhere == CHOOSE p \in Place : TRUE

Idle == [pc |-> "idle", guard |-> FALSE, ip |-> "none", headers |-> "none",
         to |-> "none", place |-> NoPlace, outcome |-> "none", rows |-> {}]
Outcome == {"none", "pass", "geofence", "sanctions", "unavailable", "crash"}

Init ==
    /\ setting \in Settings
    /\ source = setting.source /\ production = setting.production
    /\ SourcesInit
    /\ place \in [Ip -> IF setting.geofence THEN Place ELSE {Somewhere}]
    /\ placeAge = [i \in Ip |-> 0]
    /\ lookups = [i \in Ip |-> NoLookup]
    /\ lists \in (IF setting.geofence THEN Lists ELSE {NoLists.val}) /\ listsAge = 0
    /\ listCache = NoLists
    /\ req = [q \in Asker |-> Idle]

-----------------------------------------------------------------------------
At(q, pc) == req[q].pc = pc
Go(q, pc) == req' = [req EXCEPT ![q].pc = pc]
Answer(q, outcome) == req' = [req EXCEPT ![q].pc = "done", ![q].outcome = outcome]
Geo == UNCHANGED geoVars
Sources == UNCHANGED <<sourceVars, setting>>

AuditedOrNot(q, row, outcome, failed) ==
    \/ req' = [req EXCEPT ![q].pc = "done", ![q].outcome = outcome,
                          ![q].rows = @ \cup {row}]
    \/ Answer(q, outcome)

\* A row of the audit.  Where it fails there is none; then, in the guard's try,
\* the answer is 503, and elsewhere 500.
Audited(q, row, outcome, failed) ==
    \/ req' = [req EXCEPT ![q].pc = "done", ![q].outcome = outcome,
                          ![q].rows = @ \cup {row}]
    \/ Answer(q, failed)

\* After the geofence.  The guard takes chain and receiver from several fields,
\* the preflight from two; without a receiver or a chain there is no question.
AfterGeofence(q, a) ==
    IF setting.sanctions /\ a # "none" THEN "sanctions" ELSE "pass"

Continue(q, r) ==
    req' = [req EXCEPT ![q] =
              IF AfterGeofence(q, r.to) = "pass"
              THEN [r EXCEPT !.pc = "done", !.outcome = "pass"]
              ELSE [r EXCEPT !.pc = "sanctions"]]

\* A request; what no check will look at is left out of it.
Receiver == IF setting.sanctions THEN Address \cup {"none", "invalid"} ELSE {"none"}
Arriving ==
    [guard : BOOLEAN, to : Receiver,
     ip : IF setting.geofence THEN Ip \cup {"none"} ELSE {"none"},
     headers : IF setting.geofence THEN Headers ELSE {"none"}]

Arrive(q) ==
    /\ At(q, "idle")
    /\ \E a \in Arriving :
         LET r == [Idle EXCEPT !.guard = a.guard, !.ip = a.ip,
                               !.headers = a.headers, !.to = a.to] IN
         IF setting.geofence THEN req' = [req EXCEPT ![q] = [r EXCEPT !.pc = "lookup"]]
         ELSE Continue(q, r)
    /\ Geo /\ Sources

Cached(i) == Fresh(lookups[i].age, LookupTTL)

Placed(q, p) == req' = [req EXCEPT ![q].pc = "judge", ![q].place = p]
HeadersSuffice(h) ==
    GeoOfHeaders(h).country # Unknown /\ GeoOfHeaders(h).region # Unknown

\* lookupByIp.  detectGeoAndThreat reads the signals of whatever was answered,
\* and country and region of whatever is cached, unless the headers have them:
\* after a failure, now or remembered, that throws, and so it does without an
\* address.
Lookup(q) ==
    LET i == req[q].ip IN
    /\ At(q, "lookup")
    /\ IF i = "none" THEN Answer(q, "crash")
       ELSE IF ~Cached(i) THEN Go(q, "registry")
       ELSE IF lookups[i].place # Null THEN Placed(q, lookups[i].place)
       ELSE IF HeadersSuffice(req[q].headers) THEN Placed(q, Blind)
       ELSE Answer(q, "crash")
    /\ Geo /\ Sources

RegistryAnswers(q) ==
    LET i == req[q].ip IN
    /\ At(q, "registry")
    /\ lookups' = [lookups EXCEPT ![i] = [age |-> 0, place |-> place[i]]]
    /\ Placed(q, place[i])
    /\ UNCHANGED <<place, placeAge, lists, listsAge, listCache>> /\ Sources

RegistryFails(q) ==
    LET i == req[q].ip IN
    /\ At(q, "registry")
    /\ lookups' = [lookups EXCEPT ![i] = [age |-> 0, place |-> Null]]
    /\ Answer(q, "crash")
    /\ UNCHANGED <<place, placeAge, lists, listsAge, listCache>> /\ Sources

Facts(q) == Detected(req[q].headers, req[q].place)

\* No country: open in development unless GEOFENCE_FAIL_OPEN says no.
GeoFailOpen == ~setting.production /\ setting.geoFailOpen

Refuse(q) ==
    IF req[q].guard THEN Audited(q, "GEOFENCE BLOCKED", "geofence", "crash")
    ELSE Answer(q, "geofence")

\* What the lists say, once there is a country.
JudgeBy(q, val) ==
    IF ShouldBlock(Facts(q), val) = "ok" THEN Continue(q, req[q]) ELSE Refuse(q)

CacheThere == listCache # NoLists
CacheFresh == Fresh(listCache.age, ListTTL)

Judge(q) ==
    /\ At(q, "judge")
    /\ IF Facts(q).country = Unknown
       THEN IF GeoFailOpen THEN Continue(q, req[q]) ELSE Refuse(q)
       ELSE IF CacheFresh THEN JudgeBy(q, listCache.val)
       ELSE Go(q, "lists")
    /\ Geo /\ Sources

\* loadBlockedLists reads both tables; the read may fail.
ListsFails(q) == At(q, "lists") /\ Answer(q, "crash") /\ Geo /\ Sources
LoadLists(q) ==
    /\ At(q, "lists")
    /\ listCache' = [age |-> 0, val |-> lists]
    /\ JudgeBy(q, lists)
    /\ UNCHANGED <<place, placeAge, lookups, lists, listsAge>> /\ Sources

-----------------------------------------------------------------------------
\* normalize throws for what is no address; both callers answer as they do
\* when the provider is unavailable.
AskSanctions(q) ==
    /\ At(q, "sanctions")
    /\ IF req[q].to = "invalid" THEN Answer(q, "unavailable") /\ UNCHANGED check
       ELSE Go(q, "waiting") /\ Ask(q, req[q].to)
    /\ UNCHANGED <<source, production, editions, listedFor, breaker, feed, setting>>
    /\ Geo

\* isBlocked has its answer, or an error that it audits and then lets pass or
\* throws, as the setting says.
Verdict(q) ==
    LET result == check[q].result IN
    /\ At(q, "waiting") /\ check[q].pc = "done"
    /\ check' = [check EXCEPT ![q] = NoCheck]
    /\ CASE result = "error" /\ ~setting.failOpen ->
              Audited(q, "PROVIDER_ERROR", "unavailable", "unavailable")
         [] result = "error" /\ setting.failOpen ->
              \/ req' = [req EXCEPT ![q].pc = "clear", ![q].rows = @ \cup {"PROVIDER_ERROR"}]
              \/ Answer(q, "unavailable")
         [] result = "clear" -> Go(q, "clear")
         [] result = "hit" -> Go(q, "hit")
    /\ UNCHANGED <<source, production, editions, listedFor, breaker, feed, setting>>
    /\ Geo

Conclude(q) ==
    /\ \/ /\ At(q, "clear")
          /\ IF req[q].guard THEN Audited(q, "SANCTIONS ALLOWED", "pass", "unavailable")
             ELSE Answer(q, "pass")
       \/ /\ At(q, "hit")
          /\ IF req[q].guard THEN Audited(q, "SANCTIONS BLOCKED", "sanctions", "unavailable")
             ELSE Answer(q, "sanctions")
    /\ Geo /\ Sources

Leave(q) == At(q, "done") /\ req' = [req EXCEPT ![q] = Idle] /\ Geo /\ Sources

-----------------------------------------------------------------------------
Move(i, p) ==
    /\ p # place[i]
    /\ place' = [place EXCEPT ![i] = p] /\ placeAge' = [placeAge EXCEPT ![i] = 0]
    /\ UNCHANGED <<lookups, lists, listsAge, listCache, req>> /\ Sources

ChangeLists(l) ==
    /\ l # lists
    /\ lists' = l /\ listsAge' = 0
    /\ UNCHANGED <<place, placeAge, lookups, listCache, req>> /\ Sources

Tick ==
    /\ \A q \in Asker : At(q, "idle")
    /\ SourcesTick
    /\ placeAge' = [i \in Ip |-> Older(placeAge[i], LookupTTL)]
    /\ lookups' = [i \in Ip |-> [lookups[i] EXCEPT !.age = Older(@, LookupTTL)]]
    /\ listsAge' = Older(listsAge, ListTTL)
    /\ listCache' = [listCache EXCEPT !.age = Older(@, ListTTL)]
    /\ UNCHANGED <<place, lists, setting, req>>

Step(q) ==
    \/ Lookup(q) \/ RegistryAnswers(q) \/ RegistryFails(q) \/ Judge(q)
    \/ LoadLists(q) \/ ListsFails(q)
    \/ AskSanctions(q) \/ Verdict(q) \/ Conclude(q) \/ Leave(q)

Next ==
    \/ \E q \in Asker : Arrive(q) \/ Step(q)
    \/ setting.sanctions /\ SourceStep /\ UNCHANGED <<setting, geoVars, req>>
    \/ setting.geofence /\ \E i \in Ip, p \in Place : Move(i, p)
    \/ setting.geofence /\ \E l \in Lists : ChangeLists(l)
    \/ Tick

Spec == Init /\ [][Next]_vars

-----------------------------------------------------------------------------
ComplianceTypeOK ==
    /\ SourcesTypeOK
    /\ \A i \in Ip : placeAge[i] \in 0 .. LookupTTL
    /\ \A i \in Ip : lookups[i].age \in 0 .. LookupTTL /\ lookups[i].place \in Place \cup {Null, NoPlace}
    /\ listsAge \in 0 .. ListTTL /\ listCache.age \in 0 .. ListTTL
    /\ \A q \in Asker : req[q].outcome \in Outcome /\ req[q].to \in Address \cup {"none", "invalid"}

Answered(q, outcome) == At(q, "done") /\ req[q].outcome = outcome

\* The sanctions check fails closed: while its provider knows an address as
\* listed, nobody gets through to it.  A cached answer may be as old as its
\* time to live, the table as old as the version it was last synced to.
ListedIsRefused ==
    \A q \in Asker :
        /\ Answered(q, "pass") /\ setting.sanctions /\ ~setting.failOpen
        /\ req[q].to \in Address
        => CASE source = "remote" -> listedFor[req[q].to] = 0
             [] source = "breaker" /\ production -> listedFor[req[q].to] < AnswerTTL
             [] OTHER -> TRUE

\* Once the tables of blocked places and the client's place have been as they
\* are for the time their caches live, the geofence decides by them and by
\* nothing older: unless its lookup failed lately and the headers alone had to do.
DecisionsFollowTables ==
    \A q \in Asker :
        /\ setting.geofence /\ At(q, "done") /\ req[q].ip \in Ip
        /\ req[q].place # Blind
        /\ listsAge = ListTTL /\ placeAge[req[q].ip] = LookupTTL
        => LET facts == Detected(req[q].headers, place[req[q].ip])
               blocked == IF facts.country = Unknown THEN ~GeoFailOpen
                          ELSE ShouldBlock(facts, lists) # "ok" IN
           req[q].outcome # "crash" => (req[q].outcome = "geofence") = blocked

\* Nobody passes the guard's sanctions check, or is refused by it, without a
\* row of the audit that says so.
GuardLeavesRows ==
    \A q \in Asker :
        req[q].guard /\ At(q, "done") =>
            /\ req[q].outcome = "pass" /\ setting.sanctions /\ req[q].to # "none"
                  => "SANCTIONS ALLOWED" \in req[q].rows
            /\ req[q].outcome = "sanctions" => "SANCTIONS BLOCKED" \in req[q].rows
            /\ req[q].outcome = "geofence" => "GEOFENCE BLOCKED" \in req[q].rows

\* A version is stored when the rows it stands for are: whatever dies or
\* overlaps, an address listed by then is in the table, or its row failed.
TableCoversVersion == editions[stored] \subseteq table \cup lost

\* What the code says of the breaker: it refuses calls after a failure "within
\* the cooldown" (trm.provider.ts:45), so no longer once that has passed.
OpenWithinCooldown == source = "breaker" /\ CircuitOpen => CoolingDown

\* What it does instead: it counts failures until one success, but lets no call
\* through that could succeed, so it stays open once it is open and the calls
\* under way have failed (trm.provider.ts:44).
Stuck == failCount >= Threshold /\ \A q \in Asker : check[q].pc = "done"
OpenForGood == [][Stuck => Stuck']_vars
=============================================================================
