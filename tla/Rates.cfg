SPECIFICATION Spec
CONSTANTS
    r1 = r1
    r2 = r2
    usdc = usdc
    None = None
    Request <- MCRequest
    Query <- MCQuery
    PriceTTL = 2
    Timeout = 1
    FxTTL = 2
    PreviewTTL = 1
    CapsTTL = 1
    Tries = 2
    Primary <- MCPrimary
    Fallback <- MCFallback
    MaxNow = 5
CHECK_DEADLOCK FALSE
INVARIANTS RatesTypeOK RatesInTime OneSnapshot
PROPERTIES KnownPricesServe PreviewAnswered
