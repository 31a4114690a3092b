SPECIFICATION Spec
CONSTANTS
  v1 = v1
  v2 = v2
  v3 = v3
  Vms = {v1, v2}
  Size <- SizeOfTwo
  Serial = FALSE
  Troubles = {"none"}
INVARIANT ReservationCovers
