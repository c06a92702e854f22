----------------------------- MODULE RateCache -----------------------------
(***************************************************************************)
(* What a sender is shown before he sends: the preview of the fees         *)
(* (fees.service.ts), made of gas caps and of USD prices that are cached   *)
(* (prices.service.ts), and the exchange rate (fx.service.ts), cached too. *)
(* Requests overlap at every await: each reads the caches, asks a provider *)
(* when they are empty or out of date, and writes what it was told,        *)
(* whatever others have written meanwhile.                                 *)
(*                                                                         *)
(* A snapshot of prices is the time it was asked for and whether it has    *)
(* both symbols; a rate, the time it was told.  Amounts, gas limits and    *)
(* the prices themselves are left out: whether an estimate succeeded or    *)
(* 80000 gas was assumed changes nothing that follows.                     *)
(***************************************************************************)
EXTENDS Naturals, Sequences

CONSTANTS
    Request,     \* GET /fees/preview and GET /fx, each answered once
    Query,       \* what a preview is asked for (the key of its cache)
    PriceTTL,    \* PRICES_TTL_SECONDS
    Timeout,     \* of a request to Alchemy's prices
    FxTTL,       \* FX_TTL_SECONDS
    PreviewTTL,  \* the 15 of preview: milliseconds, to cache-manager
    CapsTTL,     \* the 5 of gasCaps: milliseconds too
    Tries,       \* retries of withRetry
    Primary,     \* FX_PRIMARY
    Fallback,    \* FX_FALLBACK
    MaxNow,      \* bound of the clock
    None


VARIABLES
    now,       \* the clock
    prices,    \* PricesService.cache: a snapshot and when it is out of date
    lastGood,  \* PricesService.lastGood
    caps,      \* gas caps in the cache: until when
    preview,   \* per query, the preview in the cache
    fx,        \* the rate in the cache
    req        \* per request: its step and what it holds

vars == <<now, prices, lastGood, caps, preview, fx, req>>

Time == 0 .. MaxNow
Snapshot == [asked : Time, whole : BOOLEAN]
PriceEntry == [value : Snapshot, until : Nat]

\* Five seconds against a minute by default; and the cache has other values
\* than no entry.
ASSUME RatesAssumption ==
    /\ PriceTTL \in Nat /\ Timeout \in Nat /\ Timeout < PriceTTL
    /\ FxTTL \in Nat \ {0} /\ Tries \in Nat /\ MaxNow \in Nat
    /\ None \notin Snapshot \cup PriceEntry
Fresh(entry) == entry # None /\ now < entry.until

\* tries counts failed attempts, or providers of rates; sent is when the
\* prices were asked for; first and second are the snapshots a preview took,
\* rate the rate that was answered; rescued, that it was told from what was
\* left when its provider failed it (stale, for a rate).  Remembered for the
\* properties: when the first snapshot, or the cache of rates, was looked at
\* (from), when the answer was made (at), whether another request wrote
\* prices between the two readings (crossed).
Fresher == [step |-> "new", query |-> None, tries |-> 0, sent |-> 0, first |-> None,
            second |-> None, rate |-> None, from |-> 0, at |-> 0,
            rescued |-> FALSE, crossed |-> FALSE]

Init ==
    /\ now = 0
    /\ prices = None /\ lastGood = None /\ caps = None /\ fx = None
    /\ preview = [q \in Query |-> None]
    /\ req = [r \in Request |-> Fresher]

Goes(r, step) == req' = [req EXCEPT ![r].step = step, ![r].tries = 0]
Fail(r) == req' = [req EXCEPT ![r] = [Fresher EXCEPT !.step = "failed"]]

(***************************************************************************)
(* GET /fees/preview.                                                      *)
(***************************************************************************)
Preview(r, q) ==
    /\ req[r].step = "new"
    /\ req' = [req EXCEPT ![r] =
                 IF Fresh(preview[q])
                 THEN [preview[q].of EXCEPT !.step = "done"]
                 ELSE [@ EXCEPT !.step = "estimate", !.query = q]]
    /\ UNCHANGED <<now, prices, lastGood, caps, preview, fx>>

\* withRetry: an attempt that fails or takes too long is made again, until
\* there were Tries + 1 of them.
GivesUp(r) == req[r].tries = Tries

Retry(r) ==
    /\ req[r].step \in {"estimate", "feeHistory", "tip"}
    /\ ~GivesUp(r)
    /\ req' = [req EXCEPT ![r].tries = @ + 1]
    /\ UNCHANGED <<now, prices, lastGood, caps, preview, fx>>

\* The gas limit is estimated or assumed; then gasCaps looks in the cache.
Estimate(r) ==
    /\ req[r].step = "estimate"
    /\ Goes(r, IF Fresh(caps) THEN "quotes" ELSE "feeHistory")
    /\ UNCHANGED <<now, prices, lastGood, caps, preview, fx>>

\* Mutant: the history of fees is asked for until it comes.
FeeHistoryInsists(r) ==
    /\ req[r].step = "feeHistory"
    /\ Goes(r, "tip") \/ (GivesUp(r) /\ Goes(r, "feeHistory"))
    /\ UNCHANGED <<now, prices, lastGood, caps, preview, fx>>

FeeHistory(r) ==
    /\ req[r].step = "feeHistory"
    /\ Goes(r, "tip") \/ (GivesUp(r) /\ Fail(r))
    /\ UNCHANGED <<now, prices, lastGood, caps, preview, fx>>

\* The tip of the chain, or after the last attempt the default one.
Tip(r) ==
    /\ req[r].step = "tip"
    /\ Goes(r, "quotes")
    /\ caps' = [until |-> now + CapsTTL]
    /\ UNCHANGED <<now, prices, lastGood, preview, fx>>

(***************************************************************************)
(* getUsdPrices, called for the gas (quotes) and again for the fee.        *)
(***************************************************************************)
\* What the preview does with the snapshot s: it throws when a symbol is
\* missing, reads a second time after the first, then answers.
Took(r, s, rescued) ==
    LET a == [req[r] EXCEPT !.rescued = @ \/ rescued, !.sent = 0]
    IN  CASE ~s.whole -> [Fresher EXCEPT !.step = "failed"]
          [] s.whole /\ a.step \in {"quotes", "quotesAsked"} ->
               [a EXCEPT !.step = "fee", !.first = s, !.from = now]
          [] OTHER -> [a EXCEPT !.step = "done", !.second = s, !.at = now]

\* Mutant: a preview is cached as soon as the gas is priced.
CachedEarly(a) == preview' = IF a.step = "fee"
                             THEN [preview EXCEPT ![a.query] = [of |-> a, until |-> now + PreviewTTL]]
                             ELSE preview

\* A preview that is complete is cached.
Cached(a) == preview' = IF a.step = "done"
                        THEN [preview EXCEPT ![a.query] = [of |-> a, until |-> now + PreviewTTL]]
                        ELSE preview

Answered(r, s, rescued) ==
    /\ req' = [req EXCEPT ![r] = Took(r, s, rescued)]
    /\ Cached(Took(r, s, rescued))

ReadPrices(r) ==
    /\ req[r].step \in {"quotes", "fee"}
    /\ IF Fresh(prices)
       THEN Answered(r, prices.value, FALSE)
       ELSE /\ req' = [req EXCEPT ![r].step = IF @ = "quotes" THEN "quotesAsked" ELSE "feeAsked",
                                  ![r].sent = now]
            /\ UNCHANGED preview
    /\ UNCHANGED <<now, prices, lastGood, caps, fx>>

Asked(r) == req[r].step \in {"quotesAsked", "feeAsked"}

\* Mutant: so long after they were told.
UntilFromAnswer(r) == now + PriceTTL

\* Mutant: the seconds are taken for milliseconds.
UntilAtOnce(r) == req[r].sent

\* The prices are out of date so long after they were asked for.
Until(r) == req[r].sent + PriceTTL

\* Alchemy answers, perhaps without one of the symbols: both caches take it.
PricesCome(r, whole) ==
    LET s == [asked |-> req[r].sent, whole |-> whole]
        a == Took(r, s, FALSE)
    IN  /\ Asked(r)
        /\ now <= req[r].sent + Timeout
        /\ prices' = [value |-> s, until |-> Until(r)]
        /\ lastGood' = s
        /\ Cached(a)
        /\ req' = [x \in Request |->
                     CASE x = r -> a
                       [] x # r /\ req[x].step \in {"fee", "feeAsked"} ->
                            [req[x] EXCEPT !.crossed = TRUE]
                       [] OTHER -> req[x]]
        /\ UNCHANGED <<now, caps, fx>>

\* Mutant: a failure is passed on when the cache has run out.
RescueFromCache(r) == IF Fresh(prices) THEN Answered(r, lastGood, TRUE)
                                       ELSE Fail(r) /\ UNCHANGED preview

\* Alchemy fails: the last snapshot it gave serves, however old.
Rescue(r) == IF lastGood # None THEN Answered(r, lastGood, TRUE)
                                ELSE Fail(r) /\ UNCHANGED preview

PricesFail(r) ==
    /\ Asked(r)
    /\ Rescue(r)
    /\ UNCHANGED <<now, prices, lastGood, caps, fx>>

(***************************************************************************)
(* GET /fx: the caller's currency, the rate in the cache, or the providers *)
(* in their order.                                                         *)
(***************************************************************************)
Providers ==
    LET named == SelectSeq(<<Primary, Fallback>>, LAMBDA p : p \in {"OXR", "FRANKFURTER"})
    IN  IF named = <<>> THEN <<"FRANKFURTER">> ELSE named

FxGet(r) ==
    /\ req[r].step = "new"
    /\ Goes(r, "lookup")
    /\ UNCHANGED <<now, prices, lastGood, caps, preview, fx>>

FxDone(r, rate, stale) ==
    req' = [req EXCEPT ![r].step = "rate", ![r].tries = 0, ![r].rate = rate.told,
                       ![r].rescued = stale, ![r].at = now]

\* No currency is known for the caller, or its pair is not allowed.
FxRefused(r) ==
    /\ req[r].step = "lookup"
    /\ Fail(r)
    /\ UNCHANGED <<now, prices, lastGood, caps, preview, fx>>

FxRead(r) ==
    /\ req[r].step = "lookup"
    /\ IF Fresh(fx) THEN FxDone(r, fx, FALSE)
       ELSE req' = [req EXCEPT ![r].step = "provider", ![r].from = now]
    /\ UNCHANGED <<now, prices, lastGood, caps, preview, fx>>

FxComes(r) ==
    /\ req[r].step = "provider"
    /\ fx' = [told |-> now, until |-> now + FxTTL]
    /\ FxDone(r, fx', FALSE)
    /\ UNCHANGED <<now, prices, lastGood, caps, preview>>

\* After the last provider, what the cache has by now is told as stale.
Stale(r) == IF Fresh(fx) THEN FxDone(r, fx, TRUE) ELSE Fail(r)

FxFails(r) ==
    /\ req[r].step = "provider"
    /\ \/ /\ req[r].tries + 1 < Len(Providers)
          /\ req' = [req EXCEPT ![r].tries = @ + 1]
       \/ /\ req[r].tries + 1 = Len(Providers)
          /\ Stale(r)
    /\ UNCHANGED <<now, prices, lastGood, caps, preview, fx>>

Tick ==
    /\ now < MaxNow
    /\ now' = now + 1
    /\ UNCHANGED <<prices, lastGood, caps, preview, fx, req>>

PreviewStep(r) ==
    \/ Retry(r) \/ Estimate(r) \/ FeeHistory(r) \/ Tip(r)
    \/ ReadPrices(r) \/ PricesFail(r)
    \/ \E whole \in BOOLEAN : PricesCome(r, whole)

Next ==
    \/ \E r \in Request :
         \/ \E q \in Query : Preview(r, q)
         \/ PreviewStep(r)
         \/ FxGet(r) \/ FxRefused(r) \/ FxRead(r) \/ FxComes(r) \/ FxFails(r)
    \/ Tick

\* Every wait of a preview has a timeout; the providers of rates have none.
Spec == Init /\ [][Next]_vars /\ \A r \in Request : WF_vars(PreviewStep(r))

(***************************************************************************)
(* Properties.                                                             *)
(***************************************************************************)
\* Caches hold what was told, the last snapshot is the one that is cached,
\* and a preview is cached complete.
RatesTypeOK ==
    /\ now \in Time
    /\ lastGood \in Snapshot \cup {None}
    /\ prices # None => prices.value = lastGood
    /\ \A q \in Query : preview[q] # None =>
         preview[q].of.first \in Snapshot /\ preview[q].of.second \in Snapshot
    /\ \A r \in Request : req[r].tries <= Tries \/ req[r].step = "provider"

\* The prices in a preview were asked for less than PRICES_TTL_SECONDS before
\* they were taken, though an answer that was late may have replaced a newer
\* one (prices.service.ts:36-40, 76): unless Alchemy failed the request,
\* which gets the last snapshot whatever its age.
PricesInTime ==
    \A r \in Request :
        /\ (req[r].first # None /\ ~req[r].rescued) => req[r].from < req[r].first.asked + PriceTTL
        /\ (req[r].second # None /\ ~req[r].rescued) => req[r].at < req[r].second.asked + PriceTTL

\* A rate was told less than FX_TTL_SECONDS before it is answered, or just
\* now; and one that is answered as stale is none: another request was told
\* it since this one looked in the cache (fx.service.ts:35-48).
FxRateInTime ==
    \A r \in Request : req[r].step = "rate" =>
        /\ req[r].at < req[r].rate + FxTTL
        /\ req[r].rescued => req[r].rate >= req[r].from

\* Nothing a client is told is older than its time, by these two.
RatesInTime == PricesInTime /\ FxRateInTime

\* The gas and the fee of a preview are priced by one snapshot, though they
\* are two readings (fees.service.ts:107, 111): unless the first ran out
\* between, another request replaced it, or Alchemy failed one of them.
OneSnapshot ==
    \A r \in Request :
        (req[r].second # None /\ req[r].second # req[r].first)
            => \/ req[r].rescued \/ req[r].crossed
               \/ req[r].at >= req[r].first.asked + PriceTTL

\* Once a whole snapshot is known no reading of prices fails a preview,
\* whatever fails or runs out, but one that is told without a symbol
\* (prices.service.ts:81-83, fees.service.ts:29-30).
KnownPricesServe ==
    [][\A r \in Request :
         (/\ lastGood # None /\ lastGood.whole
          /\ req[r].step \in {"quotes", "quotesAsked", "fee", "feeAsked"}
          /\ req'[r].step = "failed")
             => ~lastGood'.whole]_vars

\* Every preview is answered or refused (fees.service.ts:42-56).
PreviewAnswered ==
    \A r \in Request :
        req[r].step = "estimate" ~> req[r].step \in {"done", "failed"}
=============================================================================
