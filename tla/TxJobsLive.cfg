CONSTANTS
    h1 = h1  h2 = h2  e1 = e1  e2 = e2  e3 = e3  d1 = d1  half = half
    Placeholder = placeholder  NoEvent = noEvent  NoReceipt = noReceipt
    Hash = {h1, h2}
    Details = {half}
    Complete = {}
    Event = {e1}
    Faults = {"rpc"}
    MaxHead = 1
    Poster = {p1}
    Hook = {k1}
    Payload <- BareReport
    Cleaner = {c1}
    Filler = {f1}
    CleanMax = 1
    FillMax = 1
    Target = 1
    NotFoundIsNamed = FALSE
SPECIFICATION FairSpec
PROPERTIES StaleMinedResolves ConfirmationsReachTarget
