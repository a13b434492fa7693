SPECIFICATION FairSpec
CONSTANTS
    t = t  s1 = s1  s2 = s2  s3 = s3  o1 = o1  p1 = p1  p2 = p2  shared = shared  other = other
    All = All
    Types = {t}
    Slots = {s1, s2, s3, o1}
    Topic <- MCTopic
    Handler <- MCHandler
    Waiters = {o1}
    Publishes = {p1, p2}
    Setups <- MCSetups
INVARIANTS PublishedAsPromised
PROPERTIES SettledForGood PublishSettles
CHECK_DEADLOCK FALSE
