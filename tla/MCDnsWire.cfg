CONSTANTS
  Names <- SomeNames
  Ips <- SomeIps
  Ids <- SomeIds
SPECIFICATION Spec
INVARIANTS
  TypeOK
  QueryParses
  QuestionEchoed
  AddressArrives
CHECK_DEADLOCK FALSE
