\* Two scheduler loops, three messages of one reservation, an error and a crash.
SPECIFICATION FairSpec
CONSTANTS
    Reservations = {1}
    StartOf <- OneStart
    Lead = 1
    NoShowAfter = 1
    Threshold = 2
    Loops = {"w1", "w2"}
    MaxTime = 3
    MaxErrors = 1
    MaxCrashes = 1
INVARIANTS TypeOK OneSenderPerMessage OneMailPerMessage
PROPERTIES SentIsFinal EveryReleaseIsAnnounced
