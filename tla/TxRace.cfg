CONSTANTS
    h1 = h1  h2 = h2  e1 = e1  e2 = e2  e3 = e3  d1 = d1  half = half
    Placeholder = placeholder  NoEvent = noEvent  NoReceipt = noReceipt
    Hash = {h1, h2}
    Details = {d1}
    Complete = {d1}
    Event = {e1, e2}
    Faults = {"quote", "abort"}
    MaxHead = 1
    Poster = {p1, p2}
    Hook = {k1, k2}
    Payload <- SharedReport
    Cleaner = {}
    Filler = {}
    CleanMax = 1
    FillMax = 1
    Target = 2
    NotFoundIsNamed = FALSE
SPECIFICATION Spec
INVARIANTS ReceiptsArePosted IInv
PROPERTIES ReceiptWrittenOnce NoReturnToPending PostedDetailsSurvive
CONSTRAINT NoClock
SYMMETRY Symmetry
