\* Every packet of six bytes, and queries for one and two names.
SPECIFICATION DSpec
\* The parser returns.
CHECK_DEADLOCK FALSE
CONSTANTS
  Bytes <- MCBytes
  MaxLen = 6
  MaxCount = 2
  HeaderLen = 0
  QuestionTail = 2
  RecordHead = 2
  MaxHops = 2
  Ptr = 1
  Srv = 3
  SrvHead = 1
  Queries <- MCQueries
INVARIANTS
  DTypeOK
  NamesDecoded
  NameCutInPlaceYieldsNothing
  RecordsTakeRoom
  QueriesParseBack
PROPERTIES
  ParsingEnds
