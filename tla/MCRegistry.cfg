\* Clients that try again when unsubscribe threw, three calls for three
\* subscriptions.
CONSTANTS
    s1 = s1
    s2 = s2
    s3 = s3
    f1 = f1
    f2 = f2
    argument = argument
    directive = directive
    Subscribes <- ThreeSubscribes
    Unsubscribes = {u1, u2, u3}
    Delivers = {}
    NoCall = NoCall
    Fields = {f1, f2}
    Items = {argument, directive}
    FieldOf <- FieldOfEach
    ItemsOf <- ItemsOfEach
    FilterKinds = {"callback"}
    HasDefaultObject = FALSE
    UserThrows = TRUE
    UnsubscribeOnce = FALSE
SPECIFICATION Spec
INVARIANTS
    FailedNotLeft
    RegistryConsistent
    KeysFresh
    UnsubscribedNotLeft
\* Every call is made at most once.
CHECK_DEADLOCK FALSE
