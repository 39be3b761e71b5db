CONSTANTS
  Texts <- FourTexts
  Rank <- CollatedRank
  Calls <- AllCalls
SPECIFICATION Spec
INVARIANT SortedRows
INVARIANT LaidOut
INVARIANT SplitRejoins
INVARIANT AddressReadBack
INVARIANT DatesFollow
CHECK_DEADLOCK FALSE
