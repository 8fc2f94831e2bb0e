\* What accessors find on the directive stacks.
CONSTANTS
    Fields <- TheFields
    Spreads <- TheSpreads
    Inlines <- TheInlines
    Alias <- TheAlias
    Sub <- TheSub
    Fragment <- TheFragment
    Applies <- Everywhere
    Root <- TheRoot
    Cases <- UnconditionalCase
    Futures = {}
    NoDirectives = NoDirectives
SPECIFICATION Spec
INVARIANTS
    DirectivesInScope
\* The operation ends.
CHECK_DEADLOCK FALSE
