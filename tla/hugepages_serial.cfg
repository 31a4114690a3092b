SPECIFICATION Spec
CONSTANTS
  v1 = v1
  v2 = v2
  v3 = v3
  Vms = {v1, v2, v3}
  Size <- SizeOfThree
  Serial = TRUE
  Troubles = {"none", "alloc", "persist", "define", "save", "copy"}
INVARIANTS TypeOK ReservationCovers DefinedAsSaved
PROPERTY FailureRestores
