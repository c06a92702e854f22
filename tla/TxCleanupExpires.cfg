CONSTANTS
    h1 = h1  h2 = h2  e1 = e1  e2 = e2  e3 = e3  d1 = d1  half = half
    Placeholder = placeholder  NoEvent = noEvent  NoReceipt = noReceipt
    Hash = {h1}
    Details = {d1}
    Complete = {d1}
    Event = {e1}
    Faults = {}
    MaxHead = 1
    Poster = {p1}
    Hook = {}
    Payload <- BareReport
    Cleaner = {c1}
    Filler = {}
    CleanMax = 1
    FillMax = 1
    Target = 2
    NotFoundIsNamed = FALSE
SPECIFICATION FairSpec
PROPERTIES StaleUnminedExpires
