CONSTANTS
    p1 = p1  p2 = p2  a1 = a1
    Page = {p1, p2}
    Caller = {a1}
    Request <- AllRequests
    Owner <- OwnersRequests
    MaxDraws = 2
SPECIFICATION Spec
INVARIANTS ShownWasLive
PROPERTIES RevokeEndsWhatWasShown ImplementsShareLink
