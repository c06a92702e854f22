---------------------------- MODULE MCRateCache ----------------------------
\* An instance of RateCache for TLC: two requests, one query, both
\* providers of rates, and times to live that run out between two requests.
EXTENDS RateCache

CONSTANTS r1, r2, usdc

MCRequest == {r1, r2}
MCQuery == {usdc}
MCPrimary == "OXR"
MCFallback == "FRANKFURTER"
=============================================================================
