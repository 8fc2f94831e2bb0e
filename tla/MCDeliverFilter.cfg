\* A delivery with a set of required arguments and directives.
CONSTANTS
    s1 = s1
    s2 = s2
    s3 = s3
    f1 = f1
    f2 = f2
    argument = argument
    directive = directive
    Subscribes <- TwoSubscribes
    Unsubscribes = {}
    Delivers = {d1}
    NoCall = NoCall
    Fields = {f1, f2}
    Items = {argument, directive}
    FieldOf <- FieldOfEach
    ItemsOf <- ItemsOfEach
    FilterKinds = {"required"}
    HasDefaultObject = FALSE
    UserThrows = FALSE
    UnsubscribeOnce = TRUE
SPECIFICATION Spec
PROPERTIES
    Implements
\* Every call is made at most once.
CHECK_DEADLOCK FALSE
