SPECIFICATION Spec
CONSTANTS
  Procs = {p1, p2}
  Uuids = {u1, u2, u3, u4}
  Tpms = {t1, t2, t3}
  Commands = {"randomize", "rebuild", "reconfigure", "cpuLayout", "recreate"}
  Faults = {"defineFails", "recoveryFails"}
  NoUuid = NoUuid
  NoTpm = NoTpm
  NoProc = NoProc
SYMMETRY Symmetry
INVARIANTS TypeOK GuestKeepsTpm ProfileMatchesDomain TpmFollowsProfile
PROPERTY PromiseKept
