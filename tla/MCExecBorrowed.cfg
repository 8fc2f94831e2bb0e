\* An exception while other objects are being resolved.
CONSTANTS
    Fields <- TheFields
    Spreads <- TheSpreads
    Inlines <- TheInlines
    Alias <- TheAlias
    Sub <- TheSub
    Fragment <- TheFragment
    Applies <- Everywhere
    Root <- TheRoot
    Cases <- NullCase
    Futures = {}
    NoDirectives = NoDirectives
SPECIFICATION Spec
INVARIANTS
    BorrowedAlive
\* The operation ends.
CHECK_DEADLOCK FALSE
