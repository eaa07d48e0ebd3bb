SPECIFICATION Spec
CONSTANTS
  Requests <- MCRequests
INVARIANTS
  TypeOK
  PageShowsItsField
  CallbackFitsReview
  ApprovedAllPagesSeen
