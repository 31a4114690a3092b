SPECIFICATION Spec
CONSTANTS
  Vms = {v1, v2, v3}
  Files = {governor, preference}
  Settings = {powersave, performance}
  Performance = performance
  Kills = TRUE
  Refusals = TRUE
  NoVm = NoVm
  Absent = Absent
SYMMETRY Symmetry
INVARIANTS TypeOK NeverRestoredEarly RestoredAtRest SavedIsChosen
