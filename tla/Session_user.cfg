SPECIFICATION FairSpec
CONSTANT Sender = {a1, a2}
INVARIANTS TransportsAllowed DialOwns RequestAnswered OnePeer
PROPERTIES CancelHonoured SessionReleases
CHECK_DEADLOCK FALSE
