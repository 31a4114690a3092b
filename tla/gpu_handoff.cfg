SPECIFICATION Spec
CONSTANTS
  Vms = {v1, v2}
  Functions = {display0, audio, usb}
  HadDriver = {display0, audio}
  Nvidia = {display0}
  Dynamic = TRUE
  Faults = {"mark", "stopDisplay", "unbind", "vfio", "bind", "qemu", "kill", "restore", "display", "killRestore"}
  Overlaps = {}
SYMMETRY Symmetry
INVARIANTS TypeOK GuestOwnsGpu HostGetsGpuBack RollbackRestores RecoveryIsReal
