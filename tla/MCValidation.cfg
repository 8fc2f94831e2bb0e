CONSTANTS
  Types <- SchemaTypes
  OperationTypes <- AllOperationTypes
  Directives <- SchemaDirectives
  Introspects = TRUE
  Variables <- RequestVariables
  FirstDocuments <- AllDocuments
  OtherDocuments <- Residues
  Threads = {"t1", "t2"}
  Nobody = Nobody
  NoQuery = NoQuery
  Queries <- QueriesOf
  MaxCalls = 1
  NewValidator <- Fresh
  VisitQuery <- Visit
  ErrorsIn <- GetStructuredErrors
  Collected <- Reset
  AsNew <- CleanVisitor
SPECIFICATION Spec
CHECK_DEADLOCK FALSE
INVARIANTS
    AnswersAsFresh
    MarkedQueriesAreValid
    ValidatedExecutes
    NamesAreUnambiguous
    RegisteredUnderItsField
