SPECIFICATION Spec
CONSTANTS
  MaxRequests = 3
  MaxFields = 1
INVARIANTS
  SavedIsStored
