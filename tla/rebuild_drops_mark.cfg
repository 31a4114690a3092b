SPECIFICATION Spec
CONSTANTS
  Procs = {p1}
  Uuids = {u1, u2, u3, u4}
  Tpms = {t1, t2}
  Commands = {"rebuild"}
  Faults = {"defineFails"}
  NoUuid = NoUuid
  NoTpm = NoTpm
  NoProc = NoProc
SYMMETRY Symmetry
INVARIANT OwedIsRemembered
