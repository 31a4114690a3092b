SPECIFICATION Spec
CONSTANTS
  Procs = {p1, p2}
  Uuids = {u1, u2, u3}
  Tpms = {t1, t2}
  Commands = {"randomize", "resume"}
  Faults = {"defineFails", "startRace"}
  NoUuid = NoUuid
  NoTpm = NoTpm
  NoProc = NoProc
SYMMETRY Symmetry
INVARIANT DomainSurvives
