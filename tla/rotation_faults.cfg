SPECIFICATION Spec
CONSTANTS
  Procs = {p1, p2}
  Uuids = {u1, u2, u3, u4}
  Tpms = {t1, t2}
  Commands = {"randomize", "reconfigure", "recreate"}
  Faults = {"defineFails", "recoveryFails", "renameFails", "kill", "crash"}
  NoUuid = NoUuid
  NoTpm = NoTpm
  NoProc = NoProc
SYMMETRY Symmetry
INVARIANTS OwedIsPending TpmConserved
