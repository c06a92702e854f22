------------------------------ MODULE RateProofs ------------------------------
(***************************************************************************)
(* Proofs about RateCache, for any number of requests and queries and any  *)
(* times to live.  A preview or a rate is made of what was read at several *)
(* awaits; the invariant says what a request may still take for granted of *)
(* the caches when it goes on (Relies), and what is so of what it holds    *)
(* (Sound), which is what a cached preview then hands to others.           *)
(***************************************************************************)
EXTENDS RateCache, TLAPS

Step == {"new", "estimate", "feeHistory", "tip", "quotes", "quotesAsked", "fee",
         "feeAsked", "done", "failed", "lookup", "provider", "rate"}

ReqRecord ==
    [step : Step, query : Query \cup {None}, tries : Nat, sent : Time,
     first : Snapshot \cup {None}, second : Snapshot \cup {None},
     rate : Time \cup {None}, from : Time, at : Time,
     rescued : BOOLEAN, crossed : BOOLEAN]

Typed(a) ==
    /\ a \in ReqRecord
    /\ a.tries <= Tries \/ a.step = "provider"
    /\ a.step \in {"fee", "feeAsked", "done"} => a.first \in Snapshot
    /\ a.step \notin {"fee", "feeAsked", "done"} => a.first = None
    /\ a.step = "done" => a.second \in Snapshot
    /\ a.step # "done" => a.second = None

\* What PricesInTime and OneSnapshot say of one preview, and FxRateInTime of
\* one rate.
InTime(a) ==
    /\ (a.first # None /\ ~a.rescued) => a.from < a.first.asked + PriceTTL
    /\ (a.second # None /\ ~a.rescued) => a.at < a.second.asked + PriceTTL
    /\ a.step = "rate" => a.at < a.rate + FxTTL /\ (a.rescued => a.rate >= a.from)

Single(a) ==
    (a.second # None /\ a.second # a.first)
        => a.rescued \/ a.crossed \/ a.at >= a.first.asked + PriceTTL

Sound(a) == Typed(a) /\ InTime(a) /\ Single(a)

\* Between its two readings a preview knows that the snapshot it took is still
\* the cached one (p), or when it ran out; a rate that was looked up in vain was
\* not in the cache (f) or had run out, unless another request wrote one since.
Relies(a, p, f) ==
    /\ (a.step \in {"fee", "feeAsked"} /\ ~a.rescued /\ ~a.crossed)
          => p # None /\ p.value = a.first
    /\ (a.step = "feeAsked" /\ ~a.rescued /\ ~a.crossed)
          => a.first.asked + PriceTTL <= a.sent
    /\ a.step = "provider" => f = None \/ f.until <= a.from \/ f.told >= a.from

Past(a, t) == a.sent <= t /\ a.from <= t

CachesFine ==
    /\ now \in Time /\ lastGood \in Snapshot \cup {None}
    /\ prices # None =>
         /\ prices \in PriceEntry /\ prices.value = lastGood
         /\ prices.until = prices.value.asked + PriceTTL
    /\ fx # None => fx.told \in Time /\ fx.until = fx.told + FxTTL

PreviewsFine ==
    /\ DOMAIN preview = Query
    /\ \A q \in Query : preview[q] # None =>
         Sound(preview[q].of) /\ Past(preview[q].of, now) /\ preview[q].of.step = "done"

RequestsFine ==
    /\ DOMAIN req = Request
    /\ \A r \in Request : Sound(req[r]) /\ Past(req[r], now) /\ Relies(req[r], prices, fx)

RatesIInv == CachesFine /\ PreviewsFine /\ RequestsFine

-----------------------------------------------------------------------------
\* A request that holds no snapshot and asks no provider of rates.
LEMMA PlainRecord ==
    ASSUME NEW a \in ReqRecord, NEW p, NEW f, a.tries <= Tries,
           a.step \notin {"fee", "feeAsked", "done", "provider", "rate"},
           a.first = None, a.second = None
    PROVE  Sound(a) /\ Relies(a, p, f)
BY DEF Sound, Typed, InTime, Single, Relies

LEMMA FresherFine ==
    ASSUME NEW p, NEW f, NEW t \in Time
    PROVE  LET failed == [Fresher EXCEPT !.step = "failed"] IN
           /\ Sound(Fresher) /\ Past(Fresher, t) /\ Relies(Fresher, p, f)
           /\ Sound(failed) /\ Past(failed, t) /\ Relies(failed, p, f)
           /\ failed.step = "failed"
<1> DEFINE failed == [Fresher EXCEPT !.step = "failed"]
<1>1. 0 \in Time /\ 0 <= t BY RatesAssumption DEF Time
<1>2. Fresher \in ReqRecord /\ failed \in ReqRecord BY <1>1 DEF Fresher, ReqRecord, Step
<1>3. /\ Fresher.tries <= Tries /\ Fresher.first = None /\ Fresher.second = None
      /\ Fresher.step = "new" /\ Fresher.sent = 0 /\ Fresher.from = 0
      /\ failed.tries <= Tries /\ failed.first = None /\ failed.second = None
      /\ failed.step = "failed" /\ failed.sent = 0 /\ failed.from = 0
  BY RatesAssumption DEF Fresher
<1> HIDE DEF failed
<1>4. Sound(Fresher) /\ Relies(Fresher, p, f) BY <1>2, <1>3, PlainRecord
<1>5. Sound(failed) /\ Relies(failed, p, f) BY <1>2, <1>3, PlainRecord
<1> QED BY <1>1, <1>3, <1>4, <1>5 DEF Past, failed

\* A step of one request that writes no prices; a rate it writes is of now.
LEMMA OwnStep ==
    ASSUME RatesIInv, NEW r \in Request, NEW a,
           Sound(a), Past(a, now), Relies(a, prices, fx'),
           req' = [req EXCEPT ![r] = a], UNCHANGED <<now, prices, lastGood>>,
           fx' = fx \/ (fx'.told = now /\ fx'.until = now + FxTTL)
    PROVE  CachesFine' /\ RequestsFine'
<1>1. CachesFine' BY DEF RatesIInv, CachesFine
<1>2. ASSUME NEW x \in Request
      PROVE  Sound(req'[x]) /\ Past(req'[x], now') /\ Relies(req'[x], prices', fx')
  <2>1. CASE x = r BY <2>1 DEF RatesIInv, RequestsFine
  <2>2. CASE x # r
    <3>1. req'[x] = req[x] /\ Sound(req[x]) /\ Past(req[x], now) /\ Relies(req[x], prices, fx)
      BY <2>2 DEF RatesIInv, RequestsFine
    <3>2. Relies(req[x], prices, fx')
      BY <3>1 DEF Relies, Past
    <3> QED BY <3>1, <3>2
  <2> QED BY <2>1, <2>2
<1>3. DOMAIN req' = Request BY DEF RatesIInv, RequestsFine
<1> QED BY <1>1, <1>2, <1>3 DEF RequestsFine

LEMMA CachedFine ==
    ASSUME PreviewsFine, now' = now, NEW a, Sound(a), Past(a, now),
           Cached(a) \/ preview' = preview
    PROVE  PreviewsFine'
<1>1. CASE preview' = preview BY <1>1 DEF PreviewsFine
<1>2. CASE Cached(a)
  <2>1. CASE a.step = "done"
    <3>1. preview' = [preview EXCEPT ![a.query] = [of |-> a, until |-> now + PreviewTTL]]
      BY <1>2, <2>1 DEF Cached
    <3>2. \A q \in Query : preview'[q] = preview[q] \/ preview'[q].of = a
      BY <3>1 DEF PreviewsFine
    <3> QED BY <2>1, <3>1, <3>2 DEF PreviewsFine
  <2>2. CASE a.step # "done" BY <1>2, <2>2, <1>1 DEF Cached
  <2> QED BY <2>1, <2>2
<1> QED BY <1>1, <1>2

-----------------------------------------------------------------------------
\* The steps of a preview up to the prices, and those of a rate.

LEMMA EarlySteps ==
    ASSUME RatesIInv, NEW r \in Request,
           Retry(r) \/ Estimate(r) \/ FeeHistory(r) \/ Tip(r) \/ FxGet(r) \/ FxRefused(r)
    PROVE  RatesIInv'
<1> DEFINE failed == [Fresher EXCEPT !.step = "failed"]
<1>1. /\ Sound(req[r]) /\ Past(req[r], now) /\ now \in Time
      /\ req[r] \in ReqRecord /\ req[r].tries \in Nat
  BY DEF RatesIInv, RequestsFine, Sound, Typed, CachesFine, ReqRecord
<1>2. UNCHANGED <<now, prices, lastGood, preview, fx>>
  BY DEF Retry, Estimate, FeeHistory, Tip, FxGet, FxRefused
<1>3. ASSUME NEW a \in ReqRecord, a.tries <= Tries, a.first = req[r].first, a.second = req[r].second,
             a.sent = req[r].sent, a.from = req[r].from,
             a.step \in Step \ {"fee", "feeAsked", "done", "provider", "rate"},
             req[r].step \notin {"fee", "feeAsked", "done"},
             req' = [req EXCEPT ![r] = a]
      PROVE  RatesIInv'
  <2>1. Sound(a) /\ Relies(a, prices, fx') BY <1>1, <1>3, PlainRecord DEF Sound, Typed
  <2>2. Past(a, now) BY <1>1, <1>3 DEF Past
  <2> QED BY <1>2, <1>3, <2>1, <2>2, OwnStep, CachedFine DEF RatesIInv
<1>4. ASSUME req' = [req EXCEPT ![r] = failed] PROVE RatesIInv'
  <2>1. Sound(failed) /\ Past(failed, now) /\ Relies(failed, prices, fx') BY <1>1, FresherFine
  <2> QED BY <1>2, <1>4, <2>1, OwnStep, CachedFine DEF RatesIInv
<1>5. ASSUME NEW step \in Step \ {"fee", "feeAsked", "done", "provider", "rate"}, Goes(r, step),
             req[r].step \notin {"fee", "feeAsked", "done"}
      PROVE  RatesIInv'
  <2> DEFINE a == [req[r] EXCEPT !.step = step, !.tries = 0]
  <2>1. a \in ReqRecord BY <1>1 DEF ReqRecord
  <2>2. /\ a.tries = 0 /\ a.first = req[r].first /\ a.second = req[r].second
        /\ a.sent = req[r].sent /\ a.from = req[r].from /\ a.step = step
    BY <1>1 DEF ReqRecord
  <2>3. req' = [req EXCEPT ![r] = a] BY <1>5 DEF Goes
  <2>4. a.tries <= Tries BY <2>2, RatesAssumption
  <2>5. a.step \in Step \ {"fee", "feeAsked", "done", "provider", "rate"} BY <2>2
  <2> HIDE DEF a
  <2> QED BY <1>3, <1>5, <2>1, <2>2, <2>3, <2>4, <2>5
<1>6. CASE Retry(r)
  <2> DEFINE a == [req[r] EXCEPT !.tries = @ + 1]
  <2>1. a \in ReqRecord BY <1>1 DEF ReqRecord
  <2>2. /\ a.tries = req[r].tries + 1 /\ a.first = req[r].first /\ a.second = req[r].second
        /\ a.sent = req[r].sent /\ a.from = req[r].from /\ a.step = req[r].step
    BY <1>1 DEF ReqRecord
  <2>3. req' = [req EXCEPT ![r] = a] BY <1>6 DEF Retry
  <2>4. a.tries <= Tries
    BY <1>1, <1>6, <2>2, RatesAssumption DEF Retry, GivesUp, Sound, Typed
  <2> HIDE DEF a
  <2> QED BY <1>3, <1>6, <2>1, <2>2, <2>3, <2>4 DEF Retry, Step
<1>7. CASE Estimate(r) BY <1>5, <1>7 DEF Estimate, Step
<1>8. CASE FeeHistory(r) BY <1>4, <1>5, <1>8 DEF FeeHistory, Fail, Step
<1>9. CASE Tip(r) BY <1>5, <1>9 DEF Tip, Step
<1>10. CASE FxGet(r) BY <1>5, <1>10 DEF FxGet, Step
<1>11. CASE FxRefused(r) BY <1>4, <1>11 DEF FxRefused, Fail
<1> QED BY <1>6, <1>7, <1>8, <1>9, <1>10, <1>11

LEMMA FxSteps ==
    ASSUME RatesIInv, NEW r \in Request, FxRead(r) \/ FxComes(r) \/ FxFails(r)
    PROVE  RatesIInv'
<1> DEFINE failed == [Fresher EXCEPT !.step = "failed"]
<1>1. /\ Sound(req[r]) /\ Past(req[r], now) /\ Relies(req[r], prices, fx)
      /\ now \in Time /\ req[r] \in ReqRecord /\ req[r].tries \in Nat
      /\ DOMAIN req = Request /\ CachesFine /\ PreviewsFine /\ req[r].from \in Nat
  BY DEF RatesIInv, RequestsFine, Sound, Typed, CachesFine, ReqRecord, Time
<1>2. /\ UNCHANGED <<now, prices, lastGood, preview>> /\ req[r].step \in {"lookup", "provider"}
      /\ fx' = fx \/ (fx'.told = now /\ fx'.until = now + FxTTL)
  <2>1. CASE FxRead(r) BY <2>1 DEF FxRead
  <2>2. CASE FxComes(r) BY <2>2 DEF FxComes
  <2>3. CASE FxFails(r) BY <2>3 DEF FxFails
  <2> QED BY <2>1, <2>2, <2>3
<1>3. req[r].first = None /\ req[r].second = None BY <1>1, <1>2 DEF Sound, Typed
<1>4. ASSUME NEW a, Sound(a), Past(a, now), Relies(a, prices, fx'), req' = [req EXCEPT ![r] = a]
      PROVE  RatesIInv'
  BY <1>2, <1>4, OwnStep, CachedFine DEF RatesIInv
<1>5. ASSUME NEW rate, NEW stale \in BOOLEAN, FxDone(r, rate, stale), rate.told \in Time,
             now < rate.told + FxTTL, stale => rate.told >= req[r].from
      PROVE  RatesIInv'
  <2> DEFINE a == [req[r] EXCEPT !.step = "rate", !.tries = 0, !.rate = rate.told,
                                 !.rescued = stale, !.at = now]
  <2>1. a \in ReqRecord BY <1>1, <1>5 DEF ReqRecord, Step
  <2>2. /\ a.step = "rate" /\ a.tries = 0 /\ a.rate = rate.told /\ a.rescued = stale
        /\ a.at = now /\ a.first = None /\ a.second = None
        /\ a.sent = req[r].sent /\ a.from = req[r].from
    BY <1>1, <1>3 DEF ReqRecord
  <2>3. req' = [req EXCEPT ![r] = a] BY <1>5 DEF FxDone
  <2> HIDE DEF a
  <2>4. a.tries <= Tries BY <2>2, RatesAssumption
  <2>5. Typed(a) BY <2>1, <2>2, <2>4 DEF Typed
  <2>6. InTime(a) /\ Single(a) BY <1>5, <2>2 DEF InTime, Single
  <2>7. Past(a, now) /\ Relies(a, prices, fx') BY <1>1, <2>2 DEF Past, Relies
  <2> QED BY <1>4, <2>3, <2>5, <2>6, <2>7 DEF Sound
<1>6. ASSUME NEW step \in {"lookup", "provider"}, NEW tries \in Nat, NEW from \in Time,
             tries <= Tries \/ step = "provider", from <= now,
             step = "provider" => fx = None \/ fx.until <= from \/ fx.told >= from,
             req' = [req EXCEPT ![r] = [req[r] EXCEPT !.step = step, !.tries = tries, !.from = from]],
             fx' = fx
      PROVE  RatesIInv'
  <2> DEFINE a == [req[r] EXCEPT !.step = step, !.tries = tries, !.from = from]
  <2>1. a \in ReqRecord BY <1>1 DEF ReqRecord, Step
  <2>2. /\ a.step = step /\ a.tries = tries /\ a.first = None /\ a.second = None
        /\ a.sent = req[r].sent /\ a.from = from
    BY <1>1, <1>3 DEF ReqRecord
  <2>3. req' = [req EXCEPT ![r] = a] BY <1>6
  <2> HIDE DEF a
  <2>4. Typed(a) BY <1>6, <2>1, <2>2 DEF Typed
  <2>5. InTime(a) /\ Single(a) BY <2>2 DEF InTime, Single
  <2>6. Past(a, now) /\ Relies(a, prices, fx') BY <1>1, <1>6, <2>2 DEF Past, Relies
  <2> QED BY <1>4, <2>3, <2>4, <2>5, <2>6 DEF Sound
<1>7. CASE FxRead(r)
  <2>1. CASE Fresh(fx)
    <3>1. fx.told \in Time /\ now < fx.told + FxTTL BY <1>1, <2>1 DEF Fresh, CachesFine
    <3> QED BY <1>5, <1>7, <2>1, <3>1 DEF FxRead
  <2>2. CASE ~Fresh(fx)
    <3>1. fx = None \/ fx.until <= now
      BY <1>1, <2>2, RatesAssumption DEF Fresh, CachesFine, Time
    <3>2. req[r].tries <= Tries BY <1>1, <1>7 DEF FxRead, Sound, Typed
    <3>3. req' = [req EXCEPT ![r] = [req[r] EXCEPT !.step = "provider", !.tries = req[r].tries, !.from = now]]
      <4>1. [req[r] EXCEPT !.step = "provider", !.from = now]
              = [req[r] EXCEPT !.step = "provider", !.tries = req[r].tries, !.from = now]
        BY <1>1 DEF ReqRecord
      <4>2. req' = [req EXCEPT ![r] = [req[r] EXCEPT !.step = "provider", !.from = now]]
        BY <1>7, <2>2 DEF FxRead
      <4> QED BY <4>1, <4>2
    <3>4. fx' = fx BY <1>7 DEF FxRead
    <3>5. now <= now BY <1>1 DEF Time
    <3> QED BY <1>1, <1>6, <3>1, <3>2, <3>3, <3>4, <3>5
  <2> QED BY <2>1, <2>2
<1>8. CASE FxComes(r)
  <2>1. fx'.told \in Time /\ now < fx'.told + FxTTL
    BY <1>1, <1>8, RatesAssumption DEF FxComes, Time
  <2> QED BY <1>5, <1>8, <2>1 DEF FxComes
<1>9. CASE FxFails(r)
  <2>1. CASE req' = [req EXCEPT ![r].tries = @ + 1]
    <3>1. [req[r] EXCEPT !.tries = req[r].tries + 1]
            = [req[r] EXCEPT !.step = "provider", !.tries = req[r].tries + 1, !.from = req[r].from]
      BY <1>1, <1>9 DEF ReqRecord, FxFails
    <3>2. req' = [req EXCEPT ![r] = [req[r] EXCEPT !.step = "provider", !.tries = req[r].tries + 1,
                                                   !.from = req[r].from]]
      BY <2>1, <3>1
    <3>3. fx' = fx /\ req[r].step = "provider" BY <1>9 DEF FxFails
    <3>4. /\ req[r].tries + 1 \in Nat /\ req[r].from \in Time /\ req[r].from <= now
          /\ fx = None \/ fx.until <= req[r].from \/ fx.told >= req[r].from
      BY <1>1, <3>3 DEF Relies, Past, ReqRecord
    <3> QED BY <1>6, <3>2, <3>3, <3>4
  <2>2. CASE Stale(r)
    <3>1. CASE Fresh(fx)
      <4>1. fx.told \in Time /\ fx.until = fx.told + FxTTL /\ fx # None /\ now < fx.until
        BY <1>1, <3>1 DEF Fresh, CachesFine
      <4>2. fx.told >= req[r].from
        <5>1. fx.until <= req[r].from \/ fx.told >= req[r].from
          BY <1>1, <1>9, <4>1 DEF Relies, FxFails
        <5> QED BY <1>1, <4>1, <5>1, RatesAssumption DEF Past, Time
      <4> QED BY <1>5, <2>2, <3>1, <4>1, <4>2 DEF Stale
    <3>2. CASE ~Fresh(fx)
      <4>1. Sound(failed) /\ Past(failed, now) /\ Relies(failed, prices, fx') BY <1>1, FresherFine
      <4>2. req' = [req EXCEPT ![r] = failed] BY <2>2, <3>2 DEF Stale, Fail
      <4> QED BY <1>4, <4>1, <4>2
    <3> QED BY <3>1, <3>2
  <2> QED BY <1>9, <2>1, <2>2 DEF FxFails
<1> QED BY <1>7, <1>8, <1>9

-----------------------------------------------------------------------------
\* What a preview makes of a snapshot it takes.
LEMMA TookFine ==
    ASSUME RatesIInv, NEW r \in Request, NEW s \in Snapshot, NEW rescued \in BOOLEAN,
           req[r].step \in {"quotes", "quotesAsked", "fee", "feeAsked"},
           rescued \/ now < s.asked + PriceTTL,
           req[r].step \in {"fee", "feeAsked"} =>
              \/ s = req[r].first \/ rescued \/ req[r].rescued \/ req[r].crossed
              \/ now >= req[r].first.asked + PriceTTL
    PROVE  LET a == Took(r, s, rescued) IN
           /\ Sound(a) /\ Past(a, now)
           /\ \A p, f : rescued \/ (p # None /\ p.value = s) => Relies(a, p, f)
           /\ a.step = "failed" => ~s.whole
<1> DEFINE failed == [Fresher EXCEPT !.step = "failed"]
           b == [req[r] EXCEPT !.rescued = @ \/ rescued, !.sent = 0]
<1>1. /\ Sound(req[r]) /\ Past(req[r], now) /\ now \in Time /\ req[r] \in ReqRecord
  BY DEF RatesIInv, RequestsFine, Sound, Typed, CachesFine
<1>2. /\ b \in ReqRecord /\ b.step = req[r].step /\ b.first = req[r].first
      /\ b.second = req[r].second /\ b.from = req[r].from /\ b.tries = req[r].tries
      /\ b.crossed = req[r].crossed
      /\ b.rescued = (req[r].rescued \/ rescued) /\ b.sent = 0
  <2>1. 0 \in Time BY RatesAssumption DEF Time
  <2> QED BY <1>1, <2>1 DEF ReqRecord
<1>3. b.tries <= Tries BY <1>1, <1>2 DEF Sound, Typed
<1> HIDE DEF b
<1>4. CASE ~s.whole
  <2>1. Took(r, s, rescued) = failed BY <1>4 DEF Took
  <2>2. failed.step = "failed" /\ Sound(failed) /\ Past(failed, now)
        /\ \A p, f : Relies(failed, p, f)
    BY <1>1, FresherFine
  <2> QED BY <1>4, <2>1, <2>2
<1>5. CASE s.whole /\ req[r].step \in {"quotes", "quotesAsked"}
  <2> DEFINE a == [b EXCEPT !.step = "fee", !.first = s, !.from = now]
  <2>1. Took(r, s, rescued) = a BY <1>2, <1>5 DEF Took, b
  <2>2. /\ a \in ReqRecord /\ a.step = "fee" /\ a.first = s /\ a.from = now /\ a.second = b.second
        /\ a.rescued = b.rescued /\ a.sent = 0 /\ a.tries = b.tries
    BY <1>1, <1>2 DEF ReqRecord, Step
  <2> HIDE DEF a
  <2>3. a.second = None BY <1>1, <1>2, <1>5, <2>2 DEF Sound, Typed
  <2>4. Typed(a) BY <1>3, <2>2, <2>3 DEF Typed
  <2>5. InTime(a) /\ Single(a) BY <1>2, <2>2, <2>3 DEF InTime, Single
  <2>6. Past(a, now) BY <1>1, <2>2 DEF Past, Time
  <2>7. \A p, f : rescued \/ (p # None /\ p.value = s) => Relies(a, p, f)
    BY <1>2, <2>2 DEF Relies
  <2> QED BY <2>1, <2>2, <2>4, <2>5, <2>6, <2>7 DEF Sound
<1>6. CASE s.whole /\ req[r].step \in {"fee", "feeAsked"}
  <2> DEFINE a == [b EXCEPT !.step = "done", !.second = s, !.at = now]
  <2>1. Took(r, s, rescued) = a BY <1>2, <1>6 DEF Took, b
  <2>2. /\ a \in ReqRecord /\ a.step = "done" /\ a.first = b.first /\ a.second = s
        /\ a.from = b.from /\ a.at = now /\ a.rescued = b.rescued /\ a.crossed = b.crossed
        /\ a.sent = 0 /\ a.tries = b.tries
    BY <1>1, <1>2 DEF ReqRecord, Step
  <2> HIDE DEF a
  <2>3. Typed(a) BY <1>1, <1>2, <1>3, <1>6, <2>2 DEF Typed, Sound
  <2>4. InTime(a) BY <1>1, <1>2, <2>2 DEF InTime, Sound
  <2>5. Single(a) BY <1>2, <1>6, <2>2 DEF Single
  <2>6. Past(a, now) BY <1>1, <1>2, <2>2 DEF Past, Time
  <2>7. \A p, f : Relies(a, p, f) BY <2>2 DEF Relies
  <2> QED BY <2>1, <2>2, <2>3, <2>4, <2>5, <2>6, <2>7 DEF Sound
<1> QED BY <1>4, <1>5, <1>6

\* A preview takes a snapshot that was cached, or that is left.
LEMMA AnsweredStep ==
    ASSUME RatesIInv, NEW r \in Request, NEW s \in Snapshot, NEW rescued \in BOOLEAN,
           req[r].step \in {"quotes", "quotesAsked", "fee", "feeAsked"},
           rescued \/ (Fresh(prices) /\ s = prices.value),
           Answered(r, s, rescued), UNCHANGED <<now, prices, lastGood, caps, fx>>
    PROVE  RatesIInv' /\ (req'[r].step = "failed" => ~s.whole)
<1> DEFINE a == Took(r, s, rescued)
<1>1. rescued \/ now < s.asked + PriceTTL
  BY DEF RatesIInv, CachesFine, Fresh
<1>2. req[r].step \in {"fee", "feeAsked"} =>
         \/ s = req[r].first \/ rescued \/ req[r].rescued \/ req[r].crossed
  BY DEF RatesIInv, RequestsFine, Relies
<1>3. /\ Sound(a) /\ Past(a, now) /\ Relies(a, prices, fx')
      /\ a.step = "failed" => ~s.whole
  BY <1>1, <1>2, TookFine DEF Fresh
<1>4. req' = [req EXCEPT ![r] = a] /\ Cached(a) BY DEF Answered
<1> HIDE DEF a
<1>5. PreviewsFine' BY <1>3, <1>4, CachedFine DEF RatesIInv
<1>6. CachesFine' /\ RequestsFine' BY <1>3, <1>4, OwnStep
<1>7. req'[r] = a BY <1>4 DEF RatesIInv, RequestsFine
<1> QED BY <1>3, <1>5, <1>6, <1>7 DEF RatesIInv

LEMMA ReadStep ==
    ASSUME RatesIInv, NEW r \in Request, ReadPrices(r)
    PROVE  RatesIInv'
<1>1. /\ Sound(req[r]) /\ Past(req[r], now) /\ Relies(req[r], prices, fx)
      /\ now \in Time /\ req[r] \in ReqRecord /\ CachesFine
      /\ req[r].step \in {"quotes", "fee"}
  BY DEF RatesIInv, RequestsFine, Sound, Typed, CachesFine, ReadPrices
<1>2. CASE Fresh(prices)
  <2>1. prices.value \in Snapshot BY <1>1, <1>2 DEF CachesFine, Fresh, PriceEntry
  <2>2. Answered(r, prices.value, FALSE) BY <1>2 DEF ReadPrices
  <2> QED BY <1>1, <1>2, <2>1, <2>2, AnsweredStep DEF ReadPrices
<1>3. CASE ~Fresh(prices)
  <2> DEFINE asked == IF req[r].step = "quotes" THEN "quotesAsked" ELSE "feeAsked"
             a == [req[r] EXCEPT !.step = asked, !.sent = now]
  <2>1. req' = [req EXCEPT ![r] = a] BY <1>3 DEF ReadPrices
  <2>2. /\ a \in ReqRecord /\ a.step = asked /\ a.sent = now /\ a.first = req[r].first
        /\ a.second = req[r].second /\ a.from = req[r].from /\ a.at = req[r].at
        /\ a.rescued = req[r].rescued /\ a.crossed = req[r].crossed /\ a.tries = req[r].tries
    BY <1>1 DEF ReqRecord, Step
  <2> HIDE DEF a
  <2>3. Typed(a) BY <1>1, <2>2 DEF Typed, Sound
  <2>4. InTime(a) /\ Single(a) BY <1>1, <2>2, <2>3 DEF InTime, Single, Sound, Typed
  <2>5. Past(a, now) BY <1>1, <2>2 DEF Past, Time
  <2>6. Relies(a, prices, fx')
    <3>1. CASE a.step # "feeAsked" BY <2>2, <3>1 DEF Relies
    <3>2. CASE a.step = "feeAsked" /\ (a.rescued \/ a.crossed) BY <3>2 DEF Relies
    <3>3. CASE a.step = "feeAsked" /\ ~a.rescued /\ ~a.crossed
      <4>1. req[r].step = "fee" BY <1>1, <2>2, <3>3
      <4>2. prices # None /\ prices.value = a.first BY <1>1, <2>2, <3>3, <4>1 DEF Relies
      <4>3. prices.value.asked \in Time /\ prices.until = prices.value.asked + PriceTTL
        BY <1>1, <4>2 DEF CachesFine, PriceEntry, Snapshot
      <4>4. prices.until <= now
        BY <1>1, <1>3, <4>2, <4>3, RatesAssumption DEF Fresh, Time
      <4> QED BY <2>2, <3>3, <4>2, <4>3, <4>4 DEF Relies
    <3> QED BY <3>1, <3>2, <3>3
  <2>7. UNCHANGED <<now, prices, lastGood, fx, preview>> BY <1>3 DEF ReadPrices
  <2>8. CachesFine' /\ RequestsFine' BY <2>1, <2>3, <2>4, <2>5, <2>6, <2>7, OwnStep DEF Sound
  <2> QED BY <2>3, <2>4, <2>5, <2>7, <2>8, CachedFine DEF RatesIInv, Sound
<1> QED BY <1>2, <1>3

LEMMA RescueStep ==
    ASSUME RatesIInv, NEW r \in Request, PricesFail(r)
    PROVE  /\ RatesIInv'
           /\ req'[r].step = "failed" => lastGood = None \/ ~lastGood.whole
<1>1. /\ req[r].step \in {"quotes", "quotesAsked", "fee", "feeAsked"}
      /\ UNCHANGED <<now, prices, lastGood, caps, fx>>
  BY DEF PricesFail, Asked
<1>2. CASE lastGood # None
  <2>1. lastGood \in Snapshot BY <1>2 DEF RatesIInv, CachesFine
  <2>2. Answered(r, lastGood, TRUE) BY <1>2 DEF PricesFail, Rescue
  <2> QED BY <1>1, <2>1, <2>2, AnsweredStep
<1>3. CASE lastGood = None
  <2> DEFINE failed == [Fresher EXCEPT !.step = "failed"]
  <2>1. now \in Time BY DEF RatesIInv, CachesFine
  <2>2. Sound(failed) /\ Past(failed, now) /\ Relies(failed, prices, fx') BY <2>1, FresherFine
  <2>3. req' = [req EXCEPT ![r] = failed] /\ preview' = preview
    BY <1>3 DEF PricesFail, Rescue, Fail
  <2>4. CachesFine' /\ RequestsFine' BY <1>1, <2>2, <2>3, OwnStep
  <2>5. PreviewsFine' BY <1>1, <2>2, <2>3, CachedFine DEF RatesIInv
  <2> QED BY <1>3, <2>4, <2>5 DEF RatesIInv
<1> QED BY <1>2, <1>3

\* An answer of Alchemy replaces the cached prices; the requests between their
\* readings can no longer rely on them, which is what crossed says.
LEMMA ComeStep ==
    ASSUME RatesIInv, NEW r \in Request, NEW whole \in BOOLEAN, PricesCome(r, whole)
    PROVE  /\ RatesIInv'
           /\ req'[r].step = "failed" => ~whole
           /\ lastGood' = [asked |-> req[r].sent, whole |-> whole]
<1> DEFINE s == [asked |-> req[r].sent, whole |-> whole]
           a == Took(r, s, FALSE)
<1>1. /\ Sound(req[r]) /\ Past(req[r], now) /\ Relies(req[r], prices, fx)
      /\ now \in Time /\ req[r] \in ReqRecord /\ CachesFine
      /\ req[r].step \in {"quotesAsked", "feeAsked"}
      /\ DOMAIN req = Request
  BY DEF RatesIInv, RequestsFine, Sound, Typed, CachesFine, PricesCome, Asked
<1>2. /\ now <= req[r].sent + Timeout /\ prices' = [value |-> s, until |-> req[r].sent + PriceTTL]
      /\ lastGood' = s /\ Cached(a) /\ UNCHANGED <<now, caps, fx>>
  BY DEF PricesCome, Until
<1>3. req[r].sent \in Time /\ s \in Snapshot BY <1>1 DEF ReqRecord, Snapshot
<1>4. now < s.asked + PriceTTL BY <1>1, <1>2, <1>3, RatesAssumption DEF Time
<1>5. req[r].step \in {"fee", "feeAsked"} =>
         \/ s = req[r].first \/ req[r].rescued \/ req[r].crossed
         \/ now >= req[r].first.asked + PriceTTL
  <2>1. CASE req[r].step # "feeAsked" BY <1>1, <2>1
  <2>2. CASE req[r].step = "feeAsked" /\ ~req[r].rescued /\ ~req[r].crossed
    <3>1. req[r].first \in Snapshot BY <1>1, <2>2 DEF Sound, Typed
    <3>2. req[r].first.asked + PriceTTL <= req[r].sent /\ req[r].sent <= now
      BY <1>1, <2>2 DEF Relies, Past
    <3> QED BY <1>1, <1>3, <3>1, <3>2, RatesAssumption DEF Snapshot, Time
  <2> QED BY <2>1, <2>2
<1>6. /\ prices' \in PriceEntry /\ prices' # None /\ prices'.value = s
      /\ prices'.until = s.asked + PriceTTL
  <2>1. req[r].sent + PriceTTL \in Nat BY <1>3, RatesAssumption DEF Time
  <2>2. prices' \in PriceEntry BY <1>2, <1>3, <2>1 DEF PriceEntry
  <2> QED BY <1>2, <2>2, RatesAssumption
<1>7. /\ Sound(a) /\ Past(a, now) /\ Relies(a, prices', fx')
      /\ a.step = "failed" => ~s.whole
  BY <1>1, <1>3, <1>4, <1>5, <1>6, TookFine
<1>8. /\ DOMAIN req' = Request /\ req'[r] = a
      /\ \A x \in Request : x # r =>
           req'[x] = IF req[x].step \in {"fee", "feeAsked"} THEN [req[x] EXCEPT !.crossed = TRUE]
                     ELSE req[x]
  BY DEF PricesCome
<1>9. CachesFine' BY <1>1, <1>2, <1>3, <1>6 DEF CachesFine
<1>10. PreviewsFine' BY <1>2, <1>7, CachedFine DEF RatesIInv
<1>11. ASSUME NEW x \in Request
       PROVE  Sound(req'[x]) /\ Past(req'[x], now) /\ Relies(req'[x], prices', fx')
  <2>1. CASE x = r BY <1>7, <1>8, <2>1
  <2>2. CASE x # r /\ req[x].step \in {"fee", "feeAsked"}
    <3> DEFINE b == [req[x] EXCEPT !.crossed = TRUE]
    <3>1. Sound(req[x]) /\ Past(req[x], now) /\ req[x] \in ReqRecord
      BY DEF RatesIInv, RequestsFine, Sound, Typed
    <3>2. /\ b \in ReqRecord /\ b.crossed
          /\ b.step = req[x].step /\ b.tries = req[x].tries /\ b.sent = req[x].sent
          /\ b.first = req[x].first /\ b.second = req[x].second /\ b.rate = req[x].rate
          /\ b.from = req[x].from /\ b.at = req[x].at /\ b.rescued = req[x].rescued
      BY <3>1 DEF ReqRecord
    <3>3. req'[x] = b BY <1>8, <2>2
    <3> HIDE DEF b
    <3>4. Typed(b) BY <3>1, <3>2 DEF Typed, Sound
    <3>5. InTime(b) BY <3>1, <3>2 DEF InTime, Sound
    <3>6. Single(b) BY <3>2 DEF Single
    <3>7. Past(b, now) BY <3>1, <3>2 DEF Past
    <3>8. Relies(b, prices', fx') BY <2>2, <3>2 DEF Relies
    <3> QED BY <3>3, <3>4, <3>5, <3>6, <3>7, <3>8 DEF Sound
  <2>3. CASE x # r /\ req[x].step \notin {"fee", "feeAsked"}
    <3>1. /\ req'[x] = req[x] /\ Sound(req[x]) /\ Past(req[x], now)
          /\ Relies(req[x], prices, fx) /\ fx' = fx
      BY <1>2, <1>8, <2>3 DEF RatesIInv, RequestsFine
    <3>2. Relies(req[x], prices', fx') BY <2>3, <3>1 DEF Relies
    <3> QED BY <3>1, <3>2
  <2> QED BY <2>1, <2>2, <2>3
<1>12. RequestsFine' BY <1>2, <1>8, <1>11 DEF RequestsFine
<1> QED BY <1>2, <1>7, <1>8, <1>9, <1>10, <1>12 DEF RatesIInv

\* A preview begins, or is answered by one that was cached.
LEMMA PreviewBegins ==
    ASSUME RatesIInv, NEW r \in Request, NEW q \in Query, Preview(r, q)
    PROVE  RatesIInv'
<1>1. /\ Sound(req[r]) /\ Past(req[r], now) /\ now \in Time /\ req[r] \in ReqRecord
      /\ req[r].step = "new"
      /\ UNCHANGED <<now, prices, lastGood, caps, preview, fx>>
  BY DEF RatesIInv, RequestsFine, Sound, Typed, CachesFine, Preview
<1>2. ASSUME NEW a, Sound(a), Past(a, now), Relies(a, prices, fx), req' = [req EXCEPT ![r] = a]
      PROVE  RatesIInv'
  BY <1>1, <1>2, OwnStep, CachedFine DEF RatesIInv
<1>3. CASE Fresh(preview[q])
  <2> DEFINE b == preview[q].of
             a == [b EXCEPT !.step = "done"]
  <2>1. /\ Sound(b) /\ Past(b, now) /\ b.step = "done" /\ b \in ReqRecord
    BY <1>3 DEF RatesIInv, PreviewsFine, Fresh, Sound, Typed
  <2>2. a = b BY <2>1 DEF ReqRecord
  <2>3. req' = [req EXCEPT ![r] = a] BY <1>3 DEF Preview
  <2>4. Relies(b, prices, fx) BY <2>1 DEF Relies
  <2> HIDE DEF a, b
  <2> QED BY <1>2, <2>1, <2>2, <2>3, <2>4
<1>4. CASE ~Fresh(preview[q])
  <2> DEFINE a == [req[r] EXCEPT !.step = "estimate", !.query = q]
  <2>1. /\ a \in ReqRecord /\ a.step = "estimate" /\ a.first = req[r].first
        /\ a.second = req[r].second /\ a.tries = req[r].tries
        /\ a.sent = req[r].sent /\ a.from = req[r].from
    BY <1>1 DEF ReqRecord, Step
  <2>2. req' = [req EXCEPT ![r] = a] BY <1>4 DEF Preview
  <2> HIDE DEF a
  <2>3. a.first = None /\ a.second = None /\ a.tries <= Tries
    BY <1>1, <2>1 DEF Sound, Typed
  <2>4. Sound(a) /\ Relies(a, prices, fx) BY <2>1, <2>3, PlainRecord
  <2> QED BY <1>1, <1>2, <2>1, <2>2, <2>4 DEF Past
<1> QED BY <1>3, <1>4

LEMMA TickStep ==
    ASSUME RatesIInv, Tick
    PROVE  RatesIInv'
<1>1. /\ now \in Time /\ now' = now + 1 /\ now' \in Time
      /\ UNCHANGED <<prices, lastGood, preview, fx, req>>
  BY RatesAssumption DEF RatesIInv, CachesFine, Tick, Time
<1>2. \A a \in ReqRecord : Past(a, now) => Past(a, now')
  BY <1>1 DEF Past, ReqRecord, Time
<1>3. CachesFine' BY <1>1 DEF RatesIInv, CachesFine
<1>4. PreviewsFine' BY <1>1, <1>2 DEF RatesIInv, PreviewsFine, Sound, Typed
<1>5. RequestsFine' BY <1>1, <1>2 DEF RatesIInv, RequestsFine, Sound, Typed
<1> QED BY <1>3, <1>4, <1>5 DEF RatesIInv

LEMMA RatesStep ==
    ASSUME RatesIInv, [Next]_vars
    PROVE  RatesIInv'
<1>1. CASE Tick BY <1>1, TickStep
<1>2. ASSUME NEW r \in Request, NEW q \in Query, Preview(r, q) PROVE RatesIInv'
  BY <1>2, PreviewBegins
<1>3. ASSUME NEW r \in Request, PreviewStep(r) PROVE RatesIInv'
  BY <1>3, EarlySteps, ReadStep, RescueStep, ComeStep DEF PreviewStep
<1>4. ASSUME NEW r \in Request, FxGet(r) \/ FxRefused(r) \/ FxRead(r) \/ FxComes(r) \/ FxFails(r)
      PROVE  RatesIInv'
  BY <1>4, EarlySteps, FxSteps
<1>5. CASE UNCHANGED vars
  BY <1>5 DEF vars, RatesIInv, CachesFine, PreviewsFine, RequestsFine
<1> QED BY <1>1, <1>2, <1>3, <1>4, <1>5 DEF Next

LEMMA RatesInit ==
    ASSUME Init
    PROVE  RatesIInv
<1>1. now \in Time /\ now = 0 BY RatesAssumption DEF Init, Time
<1>2. Sound(Fresher) /\ Past(Fresher, now) /\ Relies(Fresher, prices, fx) BY <1>1, FresherFine
<1>3. CachesFine BY <1>1 DEF Init, CachesFine
<1>4. PreviewsFine BY DEF Init, PreviewsFine
<1>5. RequestsFine BY <1>2 DEF Init, RequestsFine
<1> QED BY <1>3, <1>4, <1>5 DEF RatesIInv

\* What a request holds is in time and what it relies on is so, whatever the
\* other requests write in the caches (fees.service.ts, prices.service.ts,
\* fx.service.ts).
THEOREM RatesInvariance == Spec => []RatesIInv
<1> QED BY RatesInit, RatesStep, PTL DEF Spec

-----------------------------------------------------------------------------
\* The cached prices are the last ones that came, a cached preview is complete,
\* and nothing is tried more often than it may be.
THEOREM RatesTypeCorrect == Spec => []RatesTypeOK
<1>1. RatesIInv => RatesTypeOK
  BY DEF RatesIInv, CachesFine, PreviewsFine, RequestsFine, Sound, Typed, RatesTypeOK
<1> QED BY <1>1, RatesInvariance, PTL

\* No client is shown a price or a rate beyond its time, but for the two
\* exceptions that the properties name (prices.service.ts:38, fx.service.ts:35).
THEOREM NothingOutdated == Spec => []RatesInTime
<1>1. RatesIInv => RatesInTime
  BY DEF RatesIInv, RequestsFine, Sound, InTime, RatesInTime, PricesInTime, FxRateInTime
<1> QED BY <1>1, RatesInvariance, PTL

\* A preview that mixes two snapshots has crossed a change of prices, a failure
\* or the end of their time (fees.service.ts:107, 111).
THEOREM PricedByOneSnapshot == Spec => []OneSnapshot
<1>1. RatesIInv => OneSnapshot
  BY DEF RatesIInv, RequestsFine, Sound, Single, OneSnapshot
<1> QED BY <1>1, RatesInvariance, PTL

LEMMA OthersGoOn ==
    ASSUME RatesIInv, NEW r \in Request, NEW x \in Request, x # r,
           PreviewStep(r) \/ (\E q \in Query : Preview(r, q))
           \/ FxGet(r) \/ FxRefused(r) \/ FxRead(r) \/ FxComes(r) \/ FxFails(r)
    PROVE  req'[x].step = req[x].step
<1>1. DOMAIN req = Request /\ req[x] \in ReqRecord
  BY DEF RatesIInv, RequestsFine, Sound, Typed
<1>2. CASE \E whole \in BOOLEAN : PricesCome(r, whole)
  <2>1. [req[x] EXCEPT !.crossed = TRUE].step = req[x].step BY <1>1 DEF ReqRecord
  <2>2. req'[x] \in {[req[x] EXCEPT !.crossed = TRUE], req[x]} BY <1>2 DEF PricesCome
  <2> QED BY <2>1, <2>2
<1>3. CASE Retry(r) \/ Estimate(r) \/ FeeHistory(r) \/ Tip(r) \/ ReadPrices(r) \/ PricesFail(r)
  <2>1. req'[x] = req[x]
    BY <1>1, <1>3 DEF Retry, Estimate, FeeHistory, Tip, ReadPrices, PricesFail, Goes, Fail,
                      Answered, Rescue
  <2> QED BY <2>1
<1>4. CASE \E q \in Query : Preview(r, q)
  <2>1. req'[x] = req[x] BY <1>1, <1>4 DEF Preview
  <2> QED BY <2>1
<1>5. CASE FxGet(r) \/ FxRefused(r) \/ FxRead(r) \/ FxComes(r) \/ FxFails(r)
  <2>1. CASE FxGet(r) \/ FxRefused(r) BY <1>1, <2>1 DEF FxGet, FxRefused, Goes, Fail
  <2>2. CASE FxRead(r) \/ FxComes(r) BY <1>1, <2>2 DEF FxRead, FxComes, FxDone
  <2>3. CASE FxFails(r)
    <3>1. req'[x] = req[x] BY <1>1, <2>3 DEF FxFails, Stale, FxDone, Fail
    <3> QED BY <3>1
  <2> QED BY <1>5, <2>1, <2>2, <2>3
<1> QED BY <1>2, <1>3, <1>4, <1>5 DEF PreviewStep

\* As long as whole prices have been told, a preview that reads prices does not
\* fail for want of them (prices.service.ts:81).
THEOREM KnownPricesSuffice == Spec => KnownPricesServe
<1>1. ASSUME RatesIInv, [Next]_vars, NEW x \in Request, lastGood # None, lastGood.whole,
             req[x].step \in {"quotes", "quotesAsked", "fee", "feeAsked"},
             req'[x].step = "failed"
      PROVE  ~lastGood'.whole
  <2>1. ASSUME NEW r \in Request, x # r,
               PreviewStep(r) \/ (\E q \in Query : Preview(r, q))
               \/ FxGet(r) \/ FxRefused(r) \/ FxRead(r) \/ FxComes(r) \/ FxFails(r)
        PROVE  FALSE
    BY <1>1, <2>1, OthersGoOn
  <2>2. CASE ReadPrices(x)
    <3>1. CASE Fresh(prices)
      <4>1. prices.value = lastGood /\ lastGood \in Snapshot
        BY <1>1, <3>1 DEF RatesIInv, CachesFine, Fresh
      <4>2. Answered(x, lastGood, FALSE) /\ UNCHANGED <<now, prices, lastGood, caps, fx>>
        BY <2>2, <3>1, <4>1 DEF ReadPrices
      <4> QED BY <1>1, <3>1, <4>1, <4>2, AnsweredStep
    <3>2. CASE ~Fresh(prices)
      <4>1. DOMAIN req = Request /\ req[x] \in ReqRecord
        BY <1>1 DEF RatesIInv, RequestsFine, Sound, Typed
      <4>2. req'[x].step \in {"quotesAsked", "feeAsked"}
        BY <2>2, <3>2, <4>1 DEF ReadPrices, ReqRecord
      <4> QED BY <1>1, <4>2
    <3> QED BY <3>1, <3>2
  <2>3. CASE PricesFail(x) BY <1>1, <2>3, RescueStep
  <2>4. ASSUME NEW whole \in BOOLEAN, PricesCome(x, whole) PROVE ~lastGood'.whole
    <3>1. ~whole /\ lastGood' = [asked |-> req[x].sent, whole |-> whole]
      BY <1>1, <2>4, ComeStep
    <3> QED BY <3>1
  <2>5. CASE \/ Retry(x) \/ Estimate(x) \/ FeeHistory(x) \/ Tip(x)
             \/ (\E q \in Query : Preview(x, q))
             \/ FxGet(x) \/ FxRefused(x) \/ FxRead(x) \/ FxComes(x) \/ FxFails(x)
    BY <1>1, <2>5 DEF Retry, Estimate, FeeHistory, Tip, Preview, FxGet, FxRefused, FxRead,
                      FxComes, FxFails
  <2>6. CASE Tick \/ UNCHANGED vars BY <1>1, <2>6 DEF Tick, vars
  <2> QED BY <1>1, <2>1, <2>2, <2>3, <2>4, <2>5, <2>6 DEF Next, PreviewStep
<1>2. RatesIInv /\ [Next]_vars =>
        [\A r \in Request :
           (/\ lastGood # None /\ lastGood.whole
            /\ req[r].step \in {"quotes", "quotesAsked", "fee", "feeAsked"}
            /\ req'[r].step = "failed")
               => ~lastGood'.whole]_vars
  BY <1>1
<1> QED BY <1>2, RatesInvariance, PTL DEF Spec, KnownPricesServe
=============================================================================
