CONSTANTS
    f1 = f1  f2 = f2
    alice = alice  bob = bob  ricepay = ricepay  rpt = rpt
    Form = {f1, f2}
    Account = {alice, bob, ricepay, rpt}
    Rpt = rpt  FeeRecipient = ricepay  Owner = alice  To = {bob}
    Bps = 3  Denom = 4  MinFee = 2  MaxFee = 5  MaxUint = 20
    Par = 4  Price = {3, 4, 5}
    Amount = {1, 6}
    MinAmount = 6
    Funds <- SomeFunds
    Leftover = {0, 6}
    Replaces = {"cancelled"}
    MaxSent = 3
SPECIFICATION Spec
SYMMETRY Tabs
INVARIANTS RevertsNeedRace ScreenAgrees RecordedAreSettled PreviewHolds
PROPERTIES ImplementsPayments
