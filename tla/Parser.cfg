\* Requests around fragments, variables, operations and nested sets, one call
\* after the other.
SPECIFICATION Spec
CONSTANTS
  Documents <- Requests
  OperationNames = {"", "A", "B"}
  VarsJSON <- JSONs
  MaxFragments = 3
  Tokens <- TokensOf
  TypeEnd <- EndOfType
  TypeAt <- writeTypeToStack
  DefaultCheck <- CheckDefault
  MisfitsType <- Misfits
  ValueOf <- Written
INVARIANTS RangesAreInBuffer SelectionIsExpanded ValuesAreGiven AnswersOnce RefusedForAReason
