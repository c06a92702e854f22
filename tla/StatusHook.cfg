CONSTANTS
    MaxSends = 2
    Verdict = {"CONFIRMED"}
SPECIFICATION FairSpec
CONSTRAINT NotHaunted
INVARIANTS HookTypeOK AnnouncedOnce NeverDeaf
PROPERTIES ShownIsFollowed EventuallyAnnounced
