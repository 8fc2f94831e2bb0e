CONSTANTS
  Keys <- MCKeys
  Order <- MCOrder
  Values = {1, 2}
  Default = 1
  Absent = 0
  Initial <- MCInitial
  Threads = {t1, t2}
  Nobody = nobody
  Addresses = {1, 2, 3, 4}
  NamedTypes = {2}
  MaxCalls = 3
  InputNames <- MCTypeNames
  InputTypeLists <- NoLists
  Documents <- AllSchemas
  Builtins = {"Int"}
  ReservedNames = {"__S", "__d", "__a", "__f", "__W", "__X"}
  Introspections = {FALSE, TRUE}
SPECIFICATION Spec
CHECK_DEADLOCK FALSE
INVARIANTS
    DocumentsAreRead
    OneWrapperEach
    TypesAgree
    IdsCompareAsBytes
    ArgumentsArrive
    AnswersArrive
    DependenciesFirst
    LoadedAsDocumented
    SchemaIsShown
    GeneratedCodeFits
    ValuesAnswerAlike
PROPERTIES
    LoaderEnds
    ImplementsMap
    WrapsInTheEnd
