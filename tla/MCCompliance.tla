----------------------------- MODULE MCCompliance -----------------------------
(***************************************************************************)
(* Each configuration by itself: the geofence alone, in production and in  *)
(* development, and each provider alone.                                  *)
(***************************************************************************)
EXTENDS Compliance, TLC

CONSTANTS q1, q2, i1, a1, s1, s2

Off == [geofence |-> FALSE, sanctions |-> FALSE, source |-> "remote",
        production |-> TRUE, geoFailOpen |-> TRUE, failOpen |-> FALSE]
SanctionsOf(src, prod) ==
    [Off EXCEPT !.sanctions = TRUE, !.source = src, !.production = prod]

AllSettings ==
    {[Off EXCEPT !.geofence = TRUE],
     [Off EXCEPT !.geofence = TRUE, !.production = FALSE],
     SanctionsOf("remote", TRUE), [SanctionsOf("remote", TRUE) EXCEPT !.failOpen = TRUE],
     SanctionsOf("breaker", TRUE), SanctionsOf("breaker", FALSE), SanctionsOf("local", TRUE)}

BreakerAlone == {SanctionsOf("breaker", TRUE)}

Spot(country, region, signals) ==
    [country |-> country, region |-> region, asn |-> Unknown,
     asType |-> "isp", signals |-> signals]
Places ==
    {Spot("UA", "UA-43", {}), Spot(Unknown, Unknown, {}),
     [Spot("KR", Unknown, {"vpn"}) EXCEPT !.asn = 1]}

Via(via, country) == [via |-> via, country |-> country, region |-> Unknown,
                      threat |-> 0, bot |-> 99]
SomeHeaders == {Via("direct", "KR"), Via("cloudflare", "UA"),
                [Via("cloudflare", "UA") EXCEPT !.region = "UA-43"]}

SomeLists == {[countries |-> {}, regions |-> {<<"UA", "UA-43">>}],
              [countries |-> {"KR"}, regions |-> {}]}

Symmetry == Permutations(Asker) \cup Permutations(Syncer)
=============================================================================
