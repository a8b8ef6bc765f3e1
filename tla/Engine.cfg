\* The rules map on every sample query and service, and each container with any
\* sequence of its operations on a few keys.
SPECIFICATION EngineSpec
CONSTANTS
  Elements = {1, 2, 3, 4, 5}
  MapKeys = {1, 2, 3, 4}
  Masks = {0, 1}
  Hashes = {1, 2, 3, 4}
  Words = {x, y, z}
  Names = {"a", "b", "c", "e"}
  Hash <- MCHash
  Values = {1, 2}
  Threshold = 3
  bpw = 2
  MaxNumber = 4
  MaxData = 4
  Queries <- SampleQueries
  TokensOf <- SetTokens
  Services <- SampleServices
  MaxUsed = 1
INVARIANTS SortedSlicesAreRight EnabledIsEnabled MappersAgree SegmentsKeepContents BitSetIsASet
  PartsAreOfTheQuery LoansComeBack MatchIsRight
