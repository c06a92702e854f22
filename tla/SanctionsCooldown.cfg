CONSTANTS
    q1 = q1  q2 = q2  i1 = i1  a1 = a1  s1 = s1  s2 = s2
    Asker = {q1}
    Ip = {i1}
    Address = {a1}
    Syncer = {s1}
    Settings <- BreakerAlone
    Place <- Places
    Headers <- SomeHeaders
    Lists <- SomeLists
    Unknown = unknown
    AllowAsn = {1}
    DenyAsn = {}
    DenyAsType = {"hosting"}
    BlockOn = {"bogon", "relay", "threat", "tor", "vpn_or_proxy", "cloud"}
    MinThreat = 30
    MaxBot = 30
    AllowDev = TRUE
    Threshold = 2
    Cooldown = 2
    AnswerTTL = 2
    Retries = 1
    MaxEdition = 1
    LookupTTL = 1
    ListTTL = 1
SPECIFICATION Spec
INVARIANTS OpenWithinCooldown
