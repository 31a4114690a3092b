SPECIFICATION FairSpec
CONSTANTS
  Procs = {p1, p2}
  Uuids = {u1, u2, u3}
  Tpms = {t1}
  Commands = {"randomize", "reconfigure"}
  Faults = {}
  NoUuid = NoUuid
  NoTpm = NoTpm
  NoProc = NoProc
PROPERTY RotationCompletes
