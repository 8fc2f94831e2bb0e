\* Queries and mutations, resolved serially or on threads of their own.
CONSTANTS
    Fields <- TheFields
    Spreads <- TheSpreads
    Inlines <- TheInlines
    Alias <- TheAlias
    Sub <- TheSub
    Fragment <- TheFragment
    Applies <- Everywhere
    Root <- TheRoot
    Cases <- TheCases
    Futures = {"c"}
    NoDirectives = NoDirectives
SPECIFICATION FairSpec
INVARIANTS
    ResponseIsExpected
    DataIsExpected
    PoppedWasPushed
    OuterDirectivesThere
PROPERTIES
    SerialMutation
    ResponseArrives
\* The operation ends.
CHECK_DEADLOCK FALSE
