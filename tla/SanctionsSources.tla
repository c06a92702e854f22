--------------------------- MODULE SanctionsSources ---------------------------
(***************************************************************************)
(* Where the sanctions check asks: a remote list at each question (the     *)
(* providers of OFAC and OpenSanctions, which are wired), the same behind  *)
(* a cache and a circuit breaker (TRM and ComplyAdvantage, whose code is   *)
(* the same), or the table that the sync fills from deltas (the local      *)
(* provider).  The module's factory has the last two commented out, to be  *)
(* switched to later.                                                      *)
(***************************************************************************)
EXTENDS Naturals, FiniteSets

CONSTANTS
    Address,       \* receivers that may be asked about
    Asker,         \* the requests that ask
    Syncer,        \* runs of the sync that may overlap, on several instances
    Threshold, Cooldown, AnswerTTL, Retries,   \* SANCTIONS_..., times in ticks
    MaxEdition     \* bound: how often the list changes

ASSUME SourcesAssumption ==
    /\ Threshold \in Nat \ {0} /\ Cooldown \in Nat
    /\ AnswerTTL \in Nat \ {0} /\ Retries \in Nat /\ MaxEdition \in Nat

VARIABLES
    source,        \* which provider the factory made
    production,    \* NODE_ENV
    editions,      \* the list as published, edition by edition
    listedFor,     \* for how many ticks an address has been on it, 0 if not
    check,         \* each asker's call of checkAddress
    answers,       \* the cache of answers, with their age
    failCount, openFor,   \* the breaker; openFor is the age of openedAt
    table,         \* the rows of SanctionedAddress
    stored,        \* the version in SyncState
    lost,          \* history: addresses whose row failed
    sync           \* the runs of the sync

sourceVars == <<source, production, editions, listedFor, check, answers,
                failCount, openFor, table, stored, lost, sync>>
breaker == <<answers, failCount, openFor>>
feed == <<table, stored, lost, sync>>

Current == Cardinality(DOMAIN editions)
Listed == editions[Current]

Done(result) == [pc |-> "done", to |-> "none", tries |-> 0, result |-> result]
NoCheck == Done("none")
Asking(a, tries) == [pc |-> "asking", to |-> a, tries |-> tries, result |-> "none"]
NoAnswer == [age |-> AnswerTTL, result |-> "none"]
NoSync == [pc |-> "idle", since |-> 1, items |-> {}, version |-> 1]
Oldest == 1 + IF AnswerTTL > Cooldown THEN AnswerTTL ELSE Cooldown

SourcesInit ==
    /\ editions = [i \in {1} |-> {}]
    /\ listedFor = [a \in Address |-> 0]
    /\ check = [q \in Asker |-> NoCheck]
    /\ answers = [a \in Address |-> NoAnswer]
    /\ failCount = 0 /\ openFor = Cooldown
    /\ table = {} /\ stored = 1 /\ lost = {}
    /\ sync = [s \in Syncer |-> NoSync]

SourcesTypeOK ==
    /\ DOMAIN editions = 1 .. Current /\ \A i \in 1 .. Current : editions[i] \subseteq Address
    /\ listedFor \in [Address -> 0 .. Oldest]
    /\ \A q \in Asker :
         /\ check[q].pc \in {"asking", "done"}
         /\ check[q].to \in Address \cup {"none"}
         /\ check[q].tries \in 0 .. Retries
         /\ check[q].result \in {"none", "clear", "hit", "error"}
    /\ \A a \in Address : answers[a].age \in 0 .. AnswerTTL
    /\ failCount \in 0 .. Threshold /\ openFor \in 0 .. Cooldown
    /\ table \subseteq Address /\ lost \subseteq Address /\ stored \in 1 .. Current

-----------------------------------------------------------------------------
\* The breaker.  An answer of a failing provider is blocked in production and
\* clear elsewhere (failOpen).
GuessedClear == Done("clear")
Guessed == Done(IF production THEN "hit" ELSE "clear")

CoolingDown == openFor < Cooldown
CircuitOpen == failCount >= Threshold \/ CoolingDown

RecordFail ==
    /\ failCount' = IF failCount < Threshold THEN failCount + 1 ELSE failCount
    /\ openFor' = IF failCount + 1 >= Threshold THEN 0 ELSE openFor
RecordSuccess == failCount' = 0 /\ openFor' = Cooldown

Fresh(age, ttl) == age < ttl

BegunOnceMore(a) ==
    IF source # "breaker" THEN Asking(a, 0)
    ELSE IF Fresh(answers[a].age, AnswerTTL) THEN Done(answers[a].result)
    ELSE IF CircuitOpen THEN Guessed
    ELSE Asking(a, Retries + 1)

\* checkAddress until its first await.
Begun(a) ==
    IF source # "breaker" THEN Asking(a, 0)
    ELSE IF Fresh(answers[a].age, AnswerTTL) THEN Done(answers[a].result)
    ELSE IF CircuitOpen THEN Guessed
    ELSE Asking(a, Retries)

Ask(q, a) == check' = [check EXCEPT ![q] = Begun(a)]

OnList(a) == a \in Listed
InTable(a) == a \in table
Found(a) == IF (IF source = "local" THEN InTable(a) ELSE OnList(a)) THEN "hit" ELSE "clear"

Answers(q) ==
    LET a == check[q].to IN
    /\ check[q].pc = "asking"
    /\ check' = [check EXCEPT ![q] = Done(Found(a))]
    /\ IF source = "breaker"
       THEN /\ answers' = [answers EXCEPT ![a] = [age |-> 0, result |-> Found(a)]]
            /\ RecordSuccess
       ELSE UNCHANGED breaker
    /\ UNCHANGED <<source, production, editions, listedFor, feed>>

\* The plain providers throw, the others try again and then guess.
AskFails(q) ==
    /\ check[q].pc = "asking"
    /\ IF source = "breaker"
       THEN /\ RecordFail
            /\ check' = [check EXCEPT ![q] =
                  IF check[q].tries > 0 THEN [check[q] EXCEPT !.tries = @ - 1] ELSE Guessed]
       ELSE /\ UNCHANGED <<failCount, openFor>>
            /\ check' = [check EXCEPT ![q] = Done("error")]
    /\ UNCHANGED <<source, production, editions, listedFor, answers, feed>>

-----------------------------------------------------------------------------
\* The sync of the table.  A request that keeps failing, a 304 (which axios
\* rejects) and a crash end the run as it stands.  SANCTIONS_PROVIDER names the
\* feed: with the value LOCAL no sync runs.
SyncStep(s, next) ==
    /\ sync' = [sync EXCEPT ![s] = next]
    /\ UNCHANGED <<source, production, editions, listedFor, check, breaker>>

Read(s) ==
    /\ source = "local" /\ sync[s].pc = "idle"
    /\ SyncStep(s, [NoSync EXCEPT !.pc = "fetch", !.since = stored])
    /\ UNCHANGED <<table, stored, lost>>

\* What was listed since; without items only a counter for the log changes.
Fetched(s) ==
    LET items == Listed \ editions[sync[s].since] IN
    /\ sync[s].pc = "fetch"
    /\ SyncStep(s, IF items = {} THEN NoSync
                   ELSE [sync[s] EXCEPT !.pc = "rows", !.items = items, !.version = Current])
    /\ UNCHANGED <<table, stored, lost>>

\* One row.  Its error is taken for an address that is no address.
UpsertRow(s, a) ==
    /\ sync[s].pc = "rows" /\ a \in sync[s].items
    /\ \/ table' = table \cup {a} /\ lost' = lost \ {a}
       \/ lost' = lost \cup ({a} \ table) /\ UNCHANGED table
    /\ SyncStep(s, [sync[s] EXCEPT !.items = @ \ {a}])
    /\ UNCHANGED stored

RowsBegun(s) == TRUE
RowsDone(s) == sync[s].items = {}

SaveVersion(s) ==
    /\ sync[s].pc = "rows" /\ RowsDone(s)
    /\ stored' = sync[s].version
    /\ SyncStep(s, NoSync)
    /\ UNCHANGED <<table, lost>>

SyncDies(s) ==
    /\ sync[s].pc # "idle"
    /\ SyncStep(s, NoSync)
    /\ UNCHANGED <<table, stored, lost>>

-----------------------------------------------------------------------------
\* The world: an address is listed or delisted, and time passes.
Publish ==
    /\ Current < MaxEdition
    /\ \E list \in SUBSET Address :
         /\ list # Listed
         /\ editions' = [i \in 1 .. Current + 1 |-> IF i > Current THEN list ELSE editions[i]]
         /\ listedFor' = [a \in Address |-> IF a \in list THEN listedFor[a] ELSE 0]
    /\ UNCHANGED <<source, production, check, breaker, feed>>

Older(age, most) == IF age < most THEN age + 1 ELSE most

SourcesTick ==
    /\ listedFor' = [a \in Address |->
                        IF a \in Listed THEN Older(listedFor[a], Oldest) ELSE 0]
    /\ answers' = [a \in Address |->
                      [answers[a] EXCEPT !.age = Older(@, AnswerTTL)]]
    /\ openFor' = Older(openFor, Cooldown)
    /\ UNCHANGED <<source, production, editions, check, failCount, feed>>

SourceStep ==
    \/ Publish
    \/ \E q \in Asker : Answers(q) \/ AskFails(q)
    \/ \E s \in Syncer :
         \/ Read(s) \/ Fetched(s) \/ SaveVersion(s) \/ SyncDies(s)
         \/ \E a \in Address : UpsertRow(s, a)
=============================================================================
