-------------------------- MODULE Maintenance_proofs --------------------------
(***************************************************************************)
(* What is proved of each component alone holds of all of them side by     *)
(* side: a step of the whole is a step of one component and leaves the     *)
(* others as they are.                                                     *)
(***************************************************************************)
EXTENDS Maintenance, Host_proofs, Guest_proofs, Layout_proofs

LEMMA HoldsAmongOthers == Spec => HoldsSpec
<1>1. Init => HoldsInit
  BY DEF Init
<1>2. [Next]_maintenanceVars => [HoldsNext]_holdsVars
  BY DEF Next, OthersIdle, maintenanceVars
<1> QED  BY <1>1, <1>2, PTL DEF Spec, HoldsSpec

LEMMA SigningAmongOthers == Spec => SigningSpec
<1>1. Init => SigningInit
  BY DEF Init
<1>2. [Next]_maintenanceVars => [SigningNext]_signingVars
  BY DEF Next, OthersIdle, maintenanceVars
<1> QED  BY <1>1, <1>2, PTL DEF Spec, SigningSpec

LEMMA SecurityAmongOthers == Spec => SecuritySpec
<1>1. Init => SecurityInit
  BY DEF Init
<1>2. [Next]_maintenanceVars => [SecurityNext]_securityVars
  BY DEF Next, OthersIdle, maintenanceVars
<1> QED  BY <1>1, <1>2, PTL DEF Spec, SecuritySpec

LEMMA ArtifactsAmongOthers == Spec => ArtifactsSpec
<1>1. Init => ArtifactsInit
  BY DEF Init
<1>2. [Next]_maintenanceVars => [ArtifactsNext]_artifactVars
  BY DEF Next, OthersIdle, maintenanceVars
<1> QED  BY <1>1, <1>2, PTL DEF Spec, ArtifactsSpec

LEMMA PcieAmongOthers == Spec => PcieSpec
<1>1. Init => PcieInit
  BY DEF Init
<1>2. [Next]_maintenanceVars => [PcieNext]_pcieVars
  BY DEF Next, OthersIdle, maintenanceVars
<1> QED  BY <1>1, <1>2, PTL DEF Spec, PcieSpec

LEMMA CpusAmongOthers == Spec => CpusSpec
<1>1. Init => CpusInit
  BY DEF Init
<1>2. [Next]_maintenanceVars => [CpusNext]_cpuVars
  BY DEF Next, OthersIdle, maintenanceVars
<1> QED  BY <1>1, <1>2, PTL DEF Spec, CpusSpec

LEMMA HostAmongOthers == Spec => HostSpec
<1>1. Init => HostInit
  BY DEF Init
<1>2. [Next]_maintenanceVars => [HostNext]_hostVars
  BY DEF Next, OthersIdle, maintenanceVars
<1> QED  BY <1>1, <1>2, PTL DEF Spec, HostSpec

-----------------------------------------------------------------------------
\* Each component around the rotation keeps its variables to their types, for every host,
\* menu, package and kernel, through all failures and kills of its commands.
THEOREM MaintenanceTypes == Spec => []TypeOK
<1>1. Spec => []HoldsTypeOK
  BY HoldsAmongOthers, HoldsInvariant, PTL DEF HoldsInv
<1>2. Spec => []SigningTypeOK
  BY SigningAmongOthers, SigningInvariant, PTL DEF SigningInv
<1>3. Spec => []SecurityTypeOK
  BY SecurityAmongOthers, SecurityTypes, PTL
<1>4. Spec => []ArtifactsTypeOK
  BY ArtifactsAmongOthers, ArtifactsInvariant, PTL DEF ArtifactsInv
<1>5. Spec => []PcieTypeOK
  BY PcieAmongOthers, PcieTypes, PTL
<1>6. Spec => []CpusTypeOK
  BY CpusAmongOthers, CpuTypes, PTL
<1>7. Spec => []HostTypeOK
  BY HostAmongOthers, HostInvariant, PTL DEF HostInv
<1> QED  BY <1>1, <1>2, <1>3, <1>4, <1>5, <1>6, <1>7, PTL DEF TypeOK

\* The safety invariants of the seven components besides their types.
Promises ==
  /\ UserHoldsKept /\ HoldsMatchRecord
  /\ KeyFitsCertificate /\ FinishedIsBootable /\ FinishedModulesLoad
  /\ NoDrift /\ VarsMatchProfile /\ NeverRefusesItself /\ BoardFitsKeys /\ GpuComesWithHooks
  /\ ActiveIntact
  /\ GroupsKeptWhole /\ FunctionZeroLeads
  /\ PinsAreWholeCores
  /\ HostBootsAsConfigured

\* Side by side the components keep the promises that each keeps alone: holds, kernels
\* that boot, definitions without drift, the generation in use, layouts that VFIO and the
\* guest accept, a host that boots as configured.
THEOREM MaintenancePromises == Spec => []Promises /\ EnabledMeansHeld /\ FirmwareStaysPinned
<1>1. Spec => []UserHoldsKept /\ []HoldsMatchRecord /\ EnabledMeansHeld
  BY HoldsAmongOthers, UserHoldsAreKept, HoldsAreAccountedFor, EnablingHolds, PTL
<1>2. Spec => []KeyFitsCertificate /\ []FinishedIsBootable /\ []FinishedModulesLoad
  BY SigningAmongOthers, PairsFit, FinishedBoots, FinishedLoads, PTL
<1>3. Spec => []NoDrift /\ []VarsMatchProfile /\ []NeverRefusesItself
  BY SecurityAmongOthers, EditingIsBuilding, VarsAreTheProfiles, OwnXmlIsValid, PTL
<1>4. Spec => []BoardFitsKeys /\ []GpuComesWithHooks
  BY SecurityAmongOthers, BoardGoesWithKeys, HooksGoWithGpu, PTL
<1>5. Spec => []ActiveIntact /\ FirmwareStaysPinned
  BY ArtifactsAmongOthers, ActiveStaysIntact, PinnedFirmware, PTL
<1>6. Spec => []GroupsKeptWhole /\ []FunctionZeroLeads
  BY PcieAmongOthers, GroupsStayWhole, SlotsHaveLeaders, PTL
<1>7. Spec => []PinsAreWholeCores
  BY CpusAmongOthers, PinsKeepCores, PTL
<1>8. Spec => []HostBootsAsConfigured
  BY HostAmongOthers, ConfiguredHostBoots, PTL
<1> QED  BY <1>1, <1>2, <1>3, <1>4, <1>5, <1>6, <1>7, <1>8, PTL DEF Promises
=============================================================================
