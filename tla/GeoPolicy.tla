------------------------------ MODULE GeoPolicy ------------------------------
(***************************************************************************)
(* Who is refused for where they come from: what the headers and the       *)
(* ipregistry say of a request (utils/geo.ts) and the rules they are held  *)
(* against (shouldBlock).  Names of places are compared without regard to  *)
(* case and are plain values here.                                         *)
(***************************************************************************)
EXTENDS Integers, FiniteSetsExt

CONSTANTS
    Unknown,       \* a country, region, score or number that is not given
    AllowAsn,      \* ALLOW_ASN_LIST
    DenyAsn,       \* DENY_ASN_LIST
    DenyAsType,    \* DENY_AS_TYPE
    BlockOn,       \* the signals that a BLOCK_... setting has not switched off
    MinThreat,     \* CF_MIN_THREAT_SCORE
    MaxBot,        \* CF_MAX_BOT_SCORE
    AllowDev       \* ALLOW_DEV_HEADERS

Optional == {"bogon", "relay", "threat", "tor", "vpn_or_proxy", "cloud"}
ASSUME PolicyAssumption ==
    BlockOn \subseteq Optional /\ MinThreat \in Int /\ MaxBot \in Int

\* The headers of a request and its place in the world: what ipregistry would
\* say of its address.
NoPlace == [country |-> Unknown, region |-> Unknown]

\* extractGeoFromHeaders: behind Cloudflare as it says; a developer on a local
\* host may say so; nobody else.
GeoOfHeaders(h) ==
    IF h.via = "cloudflare"
       \/ (h.via = "localhost" /\ AllowDev /\ (h.country # Unknown \/ h.region # Unknown))
    THEN [country |-> h.country, region |-> h.region]
    ELSE NoPlace

Either(a, b) == IF a # Unknown THEN a ELSE b

\* detectGeoAndThreat, once ipregistry has answered: the headers first, each
\* item by itself.  The scores are taken from any request's headers.
Detected(h, place) ==
    LET geo == GeoOfHeaders(h) IN
    [country |-> Either(geo.country, place.country),
     region |-> Either(geo.region, place.region),
     threat |-> h.threat, bot |-> h.bot,
     asn |-> place.asn, asType |-> place.asType, signals |-> place.signals]

Rule(when, reason) == [when |-> when, reason |-> reason]
SignalOf(r, signals, switch) ==
    Rule(r.signals \cap signals # {} /\ switch \in BlockOn, switch)
Signal(r, s) == SignalOf(r, {s}, s)

\* The rules in their order; regions is a set of <<country, region>>.
Rules(r, lists) ==
    << Rule(r.country \in lists.countries, "blocked_country"),
       Rule(r.region # Unknown /\ <<r.country, r.region>> \in lists.regions,
            "blocked_region"),
       Rule(r.threat # Unknown /\ r.threat >= MinThreat, "cf_threat_score"),
       Rule(r.bot # Unknown /\ r.bot <= MaxBot, "cf_bot_score"),
       Rule(r.asn \in DenyAsn, "denylist_asn"),
       Rule(r.asType \in DenyAsType, "deny_as_type"),
       Signal(r, "bogon"), Signal(r, "relay"), Signal(r, "threat"),
       Signal(r, "tor"), SignalOf(r, {"vpn", "proxy"}, "vpn_or_proxy"), Signal(r, "cloud"),
       Rule("attacker" \in r.signals, "attacker"),
       Rule("abuser" \in r.signals, "abuser") >>

\* shouldBlock of a request with a country: the reason, "ok" if there is none.
\* An allowed network passes before any rule.
ShouldBlock(r, lists) ==
    LET hits == {i \in DOMAIN Rules(r, lists) : Rules(r, lists)[i].when} IN
    IF r.asn \in AllowAsn \/ hits = {} THEN "ok"
    ELSE Rules(r, lists)[Min(hits)].reason
=============================================================================
