\* The same requests, for one property that does not hold.
SPECIFICATION Spec
CONSTANTS
  Documents <- Requests
  OperationNames = {"", "A", "B"}
  VarsJSON <- JSONs
  MaxFragments = 3
  Tokens <- TokensOf
  TypeEnd <- EndOfType
  TypeAt <- writeTypeToStack
  DefaultCheck <- CheckDefault
  MisfitsType <- Misfits
  ValueOf <- Written
INVARIANT DefaultValueIsUsed
