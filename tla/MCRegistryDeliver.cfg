\* Careful clients: a delivery among two subscriptions, each of which is
\* unsubscribed by its client or by its own callback, under fairness.
CONSTANTS
    s1 = s1
    s2 = s2
    s3 = s3
    f1 = f1
    f2 = f2
    argument = argument
    directive = directive
    Subscribes <- TwoSubscribes
    Unsubscribes = {u1, u2}
    Delivers = {d1}
    NoCall = NoCall
    Fields = {f1, f2}
    Items = {argument, directive}
    FieldOf <- FieldOfEach
    ItemsOf <- ItemsOfEach
    FilterKinds = {"callback"}
    HasDefaultObject = FALSE
    UserThrows = TRUE
    UnsubscribeOnce = TRUE
SPECIFICATION FairSpec
INVARIANTS
    TypeOK
    MutexReleased
    RegisteredUntilAsked
PROPERTIES
    RemovedByItsUnsubscribe
    Implements
    CallsReturn
\* Every call is made at most once.
CHECK_DEADLOCK FALSE
