SPECIFICATION Spec
CONSTANTS
  Requests <- MCRequests
INVARIANTS
  FieldsFitTheirBuffers
