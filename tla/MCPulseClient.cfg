CONSTANTS
    Nothing = Nothing
    MaxQueueSize = 3
    MaxRounds = 2
    NoMessageTimeout = 1
    LastPulse = 2
    LastBlock = 2
SPECIFICATION FairSpec
INVARIANTS ClientTypeOK TrackersAgree
PROPERTIES SubmissionsAdvance 
