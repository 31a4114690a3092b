SPECIFICATION Spec
CONSTANTS
  Vms = {v1}
  Functions = {display0, audio}
  HadDriver = {display0, audio}
  Nvidia = {display0}
  Dynamic = TRUE
  Faults = {}
  Overlaps = {"rotation"}
INVARIANT HostGetsGpuBack
