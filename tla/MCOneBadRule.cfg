SPECIFICATION ConfigSpec
CONSTANTS
  FirstDocuments <- RunningDocuments
  Documents <- AllDocuments
  Schema <- SchemaOf
  MaxUint32 = 100
  MaxInt64 = 200000000
  MaxConfigEdits = 1
INVARIANT OneBadRuleCostsItself
CHECK_DEADLOCK FALSE
