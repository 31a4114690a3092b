------------------------------ MODULE Maintenance ------------------------------
(***************************************************************************)
(* The components around the rotation, side by side.  They share no state  *)
(* that the modules keep, and a host works on one of them at a time: each  *)
(* behaviour picks one and leaves the others as they start.  What they     *)
(* take from one another (a profile's stage, a lock) is in the modules.    *)
(***************************************************************************)
EXTENDS UpdateProtection, KernelSigning, GuestSecurity, Artifacts, PcieLayout, CpuLayout,
        HostConfiguration

VARIABLE part   \* the component at work

Components == {"holds", "signing", "security", "artifacts", "pcie", "cpus", "host"}

maintenanceVars == <<part, holdsVars, signingVars, securityVars, artifactVars, pcieVars,
                     cpuVars, hostVars>>

\* Components that stay idle start in few states.
Init ==
  /\ part \in Components
  /\ HoldsInit /\ SigningInit /\ SecurityInit /\ ArtifactsInit /\ PcieInit /\ CpusInit /\ HostInit
  /\ part # "pcie" => live = CHOOSE h \in Hosts : TRUE
  /\ part # "cpus" => resources.pins = <<>>
  /\ part # "host" => file.grub = {}

\* Only the chosen component moves.
OthersIdle ==
  /\ UNCHANGED part
  /\ part # "holds" => UNCHANGED holdsVars
  /\ part # "signing" => UNCHANGED signingVars
  /\ part # "security" => UNCHANGED securityVars
  /\ part # "artifacts" => UNCHANGED artifactVars
  /\ part # "pcie" => UNCHANGED pcieVars
  /\ part # "cpus" => UNCHANGED cpuVars
  /\ part # "host" => UNCHANGED hostVars

Next ==
  \/ part = "holds" /\ HoldsNext /\ OthersIdle
  \/ part = "signing" /\ SigningNext /\ OthersIdle
  \/ part = "security" /\ SecurityNext /\ OthersIdle
  \/ part = "artifacts" /\ ArtifactsNext /\ OthersIdle
  \/ part = "pcie" /\ PcieNext /\ OthersIdle
  \/ part = "cpus" /\ CpusNext /\ OthersIdle
  \/ part = "host" /\ HostNext /\ OthersIdle

Spec == Init /\ [][Next]_maintenanceVars

-----------------------------------------------------------------------------
\* Every component's variables keep their types: the profile's, the domain's and the
\* host's files hold only what some step of the code can have written.
TypeOK ==
  /\ HoldsTypeOK /\ SigningTypeOK /\ SecurityTypeOK /\ ArtifactsTypeOK /\ PcieTypeOK
  /\ CpusTypeOK /\ HostTypeOK
=============================================================================
