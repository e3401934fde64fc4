SPECIFICATION PatchSpec
CONSTANTS
  Absent = Absent
  e1 = e1
  e2 = e2
  e3 = e3
  new = new
  FreshDocument <- MCFreshDocument
  PatchedDocuments <- MCDocuments
  Patches <- MCPatches
INVARIANTS FullAndPatchParity
CHECK_DEADLOCK FALSE
