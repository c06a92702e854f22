SPECIFICATION Spec
CONSTANTS
    t1 = t1
    t2 = t2
    c1 = c1
    c2 = c2
    c3 = c3
    k1 = k1
    k2 = k2
    alice = alice
    e1 = e1
    e2 = e2
    NoOne = NoOne
    Page <- MCPage
    Call <- MCCall
    Key <- MCKey
    Info <- MCInfo
    Filter <- MCFilter
    OldBooks <- MCOldBooks
SYMMETRY Clicks
CHECK_DEADLOCK FALSE
INVARIANTS BookTypeOK OneActivePerKey ShowsTheBook OfferKeepsItsTime
PROPERTIES NothingForgotten
