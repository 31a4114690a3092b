\* Each component around the rotation on its own small instance.
CONSTANTS
  Packages <- MCPackages
  Preinstalled <- MCPreinstalled
  Keys <- MCKeys
  Kernels <- MCKernels
  Offered <- MCOffered
  MaxGeneration = 3
  Hosts <- MCHosts
  Topologies <- MCTopologies
  MaxVcpus = 7
  OwnArgs <- MCOwnArgs
SPECIFICATION Spec
INVARIANTS
  TypeOK
  UserHoldsKept HoldsMatchRecord
  KeyFitsCertificate FinishedIsBootable FinishedModulesLoad
  NoDrift VarsMatchProfile NeverRefusesItself BoardFitsKeys GpuComesWithHooks
  ActiveIntact
  GroupsKeptWhole FunctionZeroLeads
  PinsAreWholeCores
  HostBootsAsConfigured
PROPERTIES
  EnabledMeansHeld FirmwareStaysPinned
