\* Queries of up to three characters over two letters and the space; up to
\* three matching rows, pages of one or two rows at offsets 0 and 1, and a
\* maxResultCount below and at the totals.
CONSTANTS
  Letters = {"a", "b"}
  MaxQueryLen = 3
  MaxTotal = 3
  Limits = {1, 2}
  Offsets = {0, 1}
  MaxCounts = {1, 2}
INIT Init
NEXT Next
INVARIANTS
  QueryIsOrOfTerms
\* symbolSearch returns once it has built its searchResponse.
CHECK_DEADLOCK FALSE
