CONSTANTS
    h1 = h1  h2 = h2  e1 = e1  e2 = e2  e3 = e3  d1 = d1  half = half
    Placeholder = placeholder  NoEvent = noEvent  NoReceipt = noReceipt
    Hash = {h1}
    Details = {d1}
    Complete = {d1}
    Event = {e1, e2, e3}
    Faults = {"lag", "abort"}
    MaxHead = 3
    Poster = {p1}
    Hook = {k1}
    Payload <- Verdicts
    Cleaner = {c1}
    Filler = {f1}
    CleanMax = 1
    FillMax = 1
    Target = 2
    NotFoundIsNamed = TRUE
SPECIFICATION Spec
INVARIANTS StatusMatchesChain ConfirmationsSound
PROPERTIES ImplementsLifecycle
