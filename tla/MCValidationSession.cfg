CONSTANTS
  Types <- SchemaTypes
  OperationTypes <- NoMutation
  Directives <- SchemaDirectives
  Introspects = TRUE
  Variables <- RequestVariables
  FirstDocuments <- ValueDocuments
  OtherDocuments <- Unsupported
  Threads = {"t1", "t2"}
  Nobody = Nobody
  NoQuery = NoQuery
  Queries <- QueriesOf
  MaxCalls = 1
  NewValidator <- Fresh
  VisitQuery <- Visit
  ErrorsIn <- GetStructuredErrors
  Collected <- Reset
  AsNew <- CleanVisitor
SPECIFICATION Spec
CHECK_DEADLOCK FALSE
INVARIANT AnswersAsFresh
