---------------------------- MODULE Host_proofs -----------------------------
(***************************************************************************)
(* Proofs about the components that keep the host: its packages            *)
(* (UpdateProtection), its kernels' signatures (KernelSigning) and its own *)
(* configuration (HostConfiguration).                                      *)
(***************************************************************************)
EXTENDS UpdateProtection, KernelSigning, HostConfiguration, TLAPS

-----------------------------------------------------------------------------
(***************************************************************************)
(* Proofs about UpdateProtection, for any set of packages and any          *)
(* sequence of commands, failures, kills and holds of the administrator.   *)
(*                                                                         *)
(* Ownership is decided when a command starts: what it then saw and what   *)
(* the record then said stay true of the administrator's holds until it    *)
(* writes the record (OwnersInv).  What it took off or put on in between   *)
(* follows from its step (ProgressInv).                                    *)
(***************************************************************************)

\* The administrator's holds are never on the record, and the running command knows them.
OwnersInv ==
  /\ UserHoldsKept
  /\ userHeld \cap record.managed = {}
  /\ job.step # "idle" => userHeld \subseteq job.seen /\ job.previous = record.managed

\* The holds, as the running command has changed them since it looked.
ProgressInv ==
  /\ job.step \in {"release", "hold", "unhold"} => held = job.seen
  /\ job.step \in {"install", "restore"} => held = job.seen \ job.released
                                            /\ job.released \subseteq job.seen \cap record.managed
  /\ job.step = "enabled" => held = job.seen \cup installed
  /\ job.step = "disabled" => held = job.seen \ job.previous

\* What the command looked at was what the record and the administrator asked for.
CleanInv ==
  /\ HoldsMatchRecord
  /\ job.step # "idle" /\ ~faulted => job.seen = record.managed \cup userHeld

HoldsInv == HoldsTypeOK /\ OwnersInv /\ ProgressInv /\ CleanInv

-----------------------------------------------------------------------------
LEMMA HoldsInvInit == HoldsInit => HoldsInv
<1> SUFFICES ASSUME HoldsInit PROVE HoldsInv
  OBVIOUS
<1>1. HoldsTypeOK
  BY PackagesAssumption DEF HoldsInit, HoldsTypeOK, Idle, Steps
<1>2. OwnersInv /\ ProgressInv /\ CleanInv
  BY DEF HoldsInit, OwnersInv, ProgressInv, CleanInv, UserHoldsKept, HoldsMatchRecord, Idle
<1> QED
  BY <1>1, <1>2 DEF HoldsInv

\* The record that enabling writes leaves the administrator's holds out and covers
\* everything else that is held.
LEMMA ManagedIsOurs ==
  ASSUME HoldsInv, job.step = "enabled"
  PROVE  /\ userHeld \cap Managed = {}
         /\ Managed \subseteq Packages
         /\ ~faulted => held = Managed \cup userHeld
  BY DEF HoldsInv, HoldsTypeOK, OwnersInv, ProgressInv, CleanInv, Managed

LEMMA HoldsInvStep == HoldsInv /\ [HoldsNext]_holdsVars => HoldsInv'
<1> SUFFICES ASSUME HoldsInv, [HoldsNext]_holdsVars PROVE HoldsInv'
  OBVIOUS
<1> USE DEF HoldsInv, HoldsTypeOK, OwnersInv, ProgressInv, CleanInv, UserHoldsKept,
        HoldsMatchRecord, Idle, Steps
<1>1. ASSUME NEW p \in Packages, UserHold(p) PROVE HoldsInv'
  BY <1>1 DEF UserHold
<1>2. ASSUME NEW p \in Packages, UserUnhold(p) PROVE HoldsInv'
  BY <1>2 DEF UserUnhold
<1>3. ASSUME NEW p \in Packages, UserRemoves(p) PROVE HoldsInv'
  BY <1>3 DEF UserRemoves
<1>4. CASE InstallPackages \/ EnableProtection \/ DisableProtection
  BY <1>4 DEF InstallPackages, EnableProtection, DisableProtection, Command
<1>5. CASE Release
  BY <1>5 DEF Release, Released
<1>6. CASE Install
  BY <1>6 DEF Install
<1>7. CASE Restore
  BY <1>7 DEF Restore
<1>8. CASE Hold
  BY <1>8 DEF Hold, Missing
<1>9. CASE NothingToProtect
  BY <1>9 DEF NothingToProtect
<1>10. CASE RecordEnabled
  BY <1>10, ManagedIsOurs DEF RecordEnabled
<1>11. CASE Unhold
  BY <1>11 DEF Unhold
<1>12. CASE RecordDisabled
  BY <1>12 DEF RecordDisabled
<1>13. CASE Die
  BY <1>13 DEF Die
<1>14. CASE UNCHANGED holdsVars
  BY <1>14 DEF holdsVars
<1> QED
  BY <1>1, <1>2, <1>3, <1>4, <1>5, <1>6, <1>7, <1>8, <1>9, <1>10, <1>11, <1>12, <1>13, <1>14
  DEF HoldsNext

LEMMA HoldsInvariant == HoldsSpec => []HoldsInv
  BY HoldsInvInit, HoldsInvStep, PTL DEF HoldsSpec

-----------------------------------------------------------------------------
\* No command, interrupted or not, takes off a hold of the administrator.
THEOREM UserHoldsAreKept == HoldsSpec => []UserHoldsKept
<1>1. HoldsInv => UserHoldsKept
  BY DEF HoldsInv, OwnersInv
<1> QED
  BY <1>1, HoldsInvariant, PTL

\* Between commands that ran to their end, the holds are the record's and the
\* administrator's: an installation restores what it released.
THEOREM HoldsAreAccountedFor == HoldsSpec => []HoldsMatchRecord
<1>1. HoldsInv => HoldsMatchRecord
  BY DEF HoldsInv, CleanInv
<1> QED
  BY <1>1, HoldsInvariant, PTL

\* Enabling repairs what a crash left: the packages it records are held.
THEOREM EnablingHolds == HoldsSpec => EnabledMeansHeld
<1>1. HoldsInv /\ [HoldsNext]_holdsVars
        => [record'.enabled /\ record' # record => record'.packages \subseteq held']_holdsVars
  <2> SUFFICES ASSUME HoldsInv, HoldsNext, record' # record, record'.enabled
               PROVE  record'.packages \subseteq held'
    BY DEF holdsVars
  <2>1. RecordEnabled
    BY DEF HoldsNext, UserHold, UserUnhold, UserRemoves, InstallPackages, EnableProtection,
           DisableProtection, Command, Release, Install, Restore, Hold, NothingToProtect,
           Unhold, RecordDisabled, Die
  <2> QED
    BY <2>1 DEF RecordEnabled, HoldsInv, ProgressInv
<1> QED
  BY <1>1, HoldsInvariant, PTL DEF HoldsSpec, EnabledMeansHeld

-----------------------------------------------------------------------------
(***************************************************************************)
(* Proofs about KernelSigning, for any keys and kernel versions and any    *)
(* sequence of commands, kills, reboots and removed files.                 *)
(*                                                                         *)
(* What a finished command promises is established step by step: PairInv   *)
(* while the key pair is made, SignedInv over the images still to sign,    *)
(* ModulesInv over the modules still to look at.  Between commands the     *)
(* promise has to survive a reinstalled package, which needs the hook and  *)
(* both key files (ReadyInv).                                              *)
(***************************************************************************)

\* Between the two renames of a new pair nobody else touches it.
PairInv ==
  /\ KeyFitsCertificate
  /\ task.step = "cert" => key = task.new /\ key \in Keys /\ cert = "none"

\* A command under Secure Boot has the hook and the pair from its first image on.
ReadyInv ==
  /\ task.step # "idle" => ~finished
  /\ task.step \in {"cert", "sign", "queue"} => task.secure
  /\ task.step = "install" => task.op = "build"
  /\ task.op = "build" => task.target \in Kernels
  /\ finished \/ (task.secure /\ task.step \in {"install", "sign", "modules", "queue", "refresh"})
       => hook /\ HookReady

Bootable == \A v \in Images : image[v] = cert

SignedInv ==
  /\ task.step = "sign" => \A v \in Images \ task.todo : image[v] = cert
  /\ task.secure /\ task.step \in {"modules", "queue", "refresh"} => Bootable
  /\ task.secure /\ task.step = "refresh" /\ ~overtaken => cert \in enrolled \cup queued
  /\ FinishedIsBootable

Loadable ==
  (\E v \in Kernels : v \in Images /\ modules[v] # "absent") =>
    /\ \A v \in Images : modules[v] # "unsigned"
    /\ dkmsMok \in {"queued", "enrolled"}

ModulesInv ==
  /\ task.secure /\ task.step = "modules" =>
       \A v \in Images \ task.todo : /\ modules[v] # "unsigned"
                                     /\ modules[v] # "absent" => task.any
  /\ task.secure /\ task.step \in {"queue", "refresh"} => Loadable
  /\ FinishedModulesLoad

SigningInv == SigningTypeOK /\ PairInv /\ ReadyInv /\ SignedInv /\ ModulesInv

-----------------------------------------------------------------------------
LEMMA SigningInvInit == SigningInit => SigningInv
<1> SUFFICES ASSUME SigningInit PROVE SigningInv
  OBVIOUS
<1> USE DEF SigningInit, NoTask
<1>1. SigningTypeOK
  BY DEF SigningTypeOK
<1>2. PairInv /\ ReadyInv
  BY DEF PairInv, ReadyInv, KeyFitsCertificate
<1>3. SignedInv /\ ModulesInv
  BY DEF SignedInv, ModulesInv, FinishedIsBootable, FinishedModulesLoad
<1> QED
  BY <1>1, <1>2, <1>3 DEF SigningInv

LEMMA SigningInvStep == SigningInv /\ [SigningNext]_signingVars => SigningInv'
<1> SUFFICES ASSUME SigningInv, [SigningNext]_signingVars PROVE SigningInv'
  OBVIOUS
<1> USE KeysAssumption
<1> USE DEF SigningInv, SigningTypeOK, PairInv, ReadyInv, SignedInv, ModulesInv, NoTask, Images,
        HookReady, KeyFitsCertificate, FinishedIsBootable, FinishedModulesLoad, Bootable, Loadable
<1>1. ASSUME NEW v \in Kernels, BuildKernel(v) PROVE SigningInv'
  BY <1>1 DEF BuildKernel, StartTask
<1>2. ASSUME NEW v \in Kernels, SignImage(v) PROVE SigningInv'
  <2>1. SigningTypeOK'
    BY <1>2 DEF SignImage, Verifies
  <2>2. PairInv' /\ ReadyInv'
    BY <1>2 DEF SignImage, Verifies
  <2>3. SignedInv'
    BY <1>2 DEF SignImage, Verifies
  <2>4. ModulesInv'
    BY <1>2 DEF SignImage, Verifies
  <2> QED
    BY <2>1, <2>2, <2>3, <2>4
<1>3. ASSUME NEW v \in Kernels, PrepareModules(v) PROVE SigningInv'
  <2> PICK built \in BOOLEAN :
        LET present == built \/ modules[v] # "absent" IN
        /\ modules' = IF ~present \/ (~task.secure /\ modules[v] = "signed") THEN modules
                      ELSE [modules EXCEPT ![v] = IF task.secure THEN "signed" ELSE "unsigned"]
        /\ task' = [task EXCEPT !.todo = @ \ {v}, !.any = @ \/ (task.secure /\ present)]
    BY <1>3 DEF PrepareModules
  <2>1. SigningTypeOK'
    <3>1. (task.any \/ (task.secure /\ (built \/ modules[v] # "absent"))) \in BOOLEAN
      OBVIOUS
    <3>2. task' \in [step : {"idle", "key", "cert", "install", "sign", "modules", "queue", "refresh"},
               op : {"none", "build", "sign"}, secure : BOOLEAN, new : Keys \cup {"none"},
               target : Kernels \cup {"none"}, todo : SUBSET Kernels, any : BOOLEAN]
      BY <3>1
    <3>3. modules' \in [Kernels -> {"absent", "unsigned", "signed"}]
      OBVIOUS
    <3> QED
      BY <1>3, <3>2, <3>3 DEF PrepareModules
  <2>2. PairInv' /\ ReadyInv' /\ SignedInv'
    BY <1>3 DEF PrepareModules
  <2>3. ModulesInv'
    BY <1>3 DEF PrepareModules
  <2> QED
    BY <2>1, <2>2, <2>3
<1>4. ASSUME NEW v \in Kernels, Reinstall(v) PROVE SigningInv'
  <2>1. SigningTypeOK'
    BY <1>4 DEF Reinstall
  <2>2. PairInv' /\ ReadyInv'
    BY <1>4 DEF Reinstall
  <2>3. SignedInv'
    BY <1>4 DEF Reinstall
  <2>4. ModulesInv'
    BY <1>4 DEF Reinstall
  <2> QED
    BY <2>1, <2>2, <2>3, <2>4
<1>5. CASE SignCustomKernels
  BY <1>5 DEF SignCustomKernels, StartTask
<1>6. CASE KeepKey
  <2>1. SigningTypeOK'
    BY <1>6 DEF KeepKey, AfterKey
  <2>2. PairInv' /\ ReadyInv'
    BY <1>6 DEF KeepKey, AfterKey
  <2>3. SignedInv'
    BY <1>6 DEF KeepKey, AfterKey
  <2>4. ModulesInv'
    BY <1>6 DEF KeepKey, AfterKey
  <2> QED
    BY <2>1, <2>2, <2>3, <2>4
<1>7. CASE MakeCert
  <2>1. SigningTypeOK'
    BY <1>7 DEF MakeCert, AfterKey
  <2>2. PairInv' /\ ReadyInv'
    BY <1>7 DEF MakeCert, AfterKey
  <2>3. SignedInv'
    BY <1>7 DEF MakeCert, AfterKey
  <2>4. ModulesInv'
    BY <1>7 DEF MakeCert, AfterKey
  <2> QED
    BY <2>1, <2>2, <2>3, <2>4
<1>8. CASE WithoutSecureBoot
  <2>1. SigningTypeOK'
    BY <1>8 DEF WithoutSecureBoot
  <2>2. PairInv' /\ ReadyInv'
    BY <1>8 DEF WithoutSecureBoot
  <2>3. SignedInv'
    BY <1>8 DEF WithoutSecureBoot
  <2>4. ModulesInv'
    BY <1>8 DEF WithoutSecureBoot
  <2> QED
    BY <2>1, <2>2, <2>3, <2>4
<1>9. CASE InstallKernel
  <2>1. SigningTypeOK'
    BY <1>9 DEF InstallKernel
  <2>2. PairInv' /\ ReadyInv'
    BY <1>9 DEF InstallKernel
  <2>3. SignedInv'
    BY <1>9 DEF InstallKernel
  <2>4. ModulesInv'
    BY <1>9 DEF InstallKernel
  <2> QED
    BY <2>1, <2>2, <2>3, <2>4
<1>10. ASSUME NEW k \in Keys, MakeKey(k) PROVE SigningInv'
  <2>1. SigningTypeOK'
    BY <1>10 DEF MakeKey
  <2>2. PairInv' /\ ReadyInv'
    BY <1>10 DEF MakeKey
  <2>3. SignedInv'
    BY <1>10 DEF MakeKey
  <2>4. ModulesInv'
    BY <1>10 DEF MakeKey
  <2> QED
    BY <2>1, <2>2, <2>3, <2>4
<1>11. CASE ImagesSigned
  <2>1. SigningTypeOK'
    BY <1>11 DEF ImagesSigned
  <2>2. PairInv' /\ ReadyInv'
    BY <1>11 DEF ImagesSigned
  <2>3. SignedInv'
    BY <1>11 DEF ImagesSigned
  <2>4. ModulesInv'
    BY <1>11 DEF ImagesSigned
  <2> QED
    BY <2>1, <2>2, <2>3, <2>4
<1>12. CASE QueueDkms
  <2>1. SigningTypeOK'
    BY <1>12 DEF QueueDkms
  <2>2. PairInv' /\ ReadyInv'
    BY <1>12 DEF QueueDkms
  <2>3. SignedInv'
    BY <1>12 DEF QueueDkms
  <2>4. ModulesInv'
    BY <1>12 DEF QueueDkms
  <2> QED
    BY <2>1, <2>2, <2>3, <2>4
<1>13. CASE QueueKernel
  <2>1. SigningTypeOK'
    BY <1>13 DEF QueueKernel
  <2>2. PairInv' /\ ReadyInv'
    BY <1>13 DEF QueueKernel
  <2>3. SignedInv'
    BY <1>13 DEF QueueKernel
  <2>4. ModulesInv'
    BY <1>13 DEF QueueKernel
  <2> QED
    BY <2>1, <2>2, <2>3, <2>4
<1>14. CASE Refresh
  BY <1>14 DEF Refresh
<1>15. CASE TaskDies
  <2>1. SigningTypeOK'
    BY <1>15 DEF TaskDies
  <2>2. PairInv' /\ ReadyInv'
    BY <1>15 DEF TaskDies
  <2>3. SignedInv'
    BY <1>15 DEF TaskDies
  <2>4. ModulesInv'
    BY <1>15 DEF TaskDies
  <2> QED
    BY <2>1, <2>2, <2>3, <2>4
<1>16. ASSUME NEW accept \in BOOLEAN, NEW firmware \in BOOLEAN, Reboot(accept, firmware)
       PROVE  SigningInv'
  <2>1. SigningTypeOK'
    BY <1>16 DEF Reboot
  <2>2. PairInv' /\ ReadyInv'
    BY <1>16 DEF Reboot
  <2>3. SignedInv'
    BY <1>16 DEF Reboot
  <2>4. ModulesInv'
    BY <1>16 DEF Reboot
  <2> QED
    BY <2>1, <2>2, <2>3, <2>4
<1>17. ASSUME NEW some \in SUBSET {"key", "cert"}, RemoveKeyFiles(some) PROVE SigningInv'
  <2>1. SigningTypeOK'
    BY <1>17 DEF RemoveKeyFiles
  <2>2. PairInv' /\ ReadyInv'
    BY <1>17 DEF RemoveKeyFiles
  <2>3. SignedInv'
    BY <1>17 DEF RemoveKeyFiles
  <2>4. ModulesInv'
    BY <1>17 DEF RemoveKeyFiles
  <2> QED
    BY <2>1, <2>2, <2>3, <2>4
<1>18. CASE SweepBoot
  <2>1. SigningTypeOK'
    BY <1>18 DEF SweepBoot
  <2>2. PairInv' /\ ReadyInv' /\ SignedInv' /\ ModulesInv'
    BY <1>18 DEF SweepBoot
  <2> QED
    BY <2>1, <2>2
<1>19. CASE UNCHANGED signingVars
  BY <1>19 DEF signingVars
<1> QED
  BY <1>1, <1>2, <1>3, <1>4, <1>5, <1>6, <1>7, <1>8, <1>9, <1>10, <1>11, <1>12, <1>13, <1>14,
     <1>15, <1>16, <1>17, <1>18, <1>19 DEF SigningNext

LEMMA SigningInvariant == SigningSpec => []SigningInv
  BY SigningInvInit, SigningInvStep, PTL DEF SigningSpec

-----------------------------------------------------------------------------
\* A private key and a certificate that are both on disk belong together, through every
\* kill between the two and every partial removal.
THEOREM PairsFit == SigningSpec => []KeyFitsCertificate
<1>1. SigningInv => KeyFitsCertificate
  BY DEF SigningInv, PairInv
<1> QED
  BY <1>1, SigningInvariant, PTL

\* After a command that finished under Secure Boot, every custom kernel, also one that
\* is reinstalled later, boots with a certificate that shim trusts or asks about.
THEOREM FinishedBoots == SigningSpec => []FinishedIsBootable
<1>1. SigningInv => FinishedIsBootable
  BY DEF SigningInv, SignedInv
<1> QED
  BY <1>1, SigningInvariant, PTL

\* ... and its DKMS modules load.
THEOREM FinishedLoads == SigningSpec => []FinishedModulesLoad
<1>1. SigningInv => FinishedModulesLoad
  BY DEF SigningInv, ModulesInv
<1> QED
  BY <1>1, SigningInvariant, PTL

-----------------------------------------------------------------------------
(***************************************************************************)
(* Proofs about HostConfiguration, for any arguments of the administrator  *)
(* and any sequence of commands, failures, edits and reboots.              *)
(*                                                                         *)
(* Whatever was written and not yet remade is in the running command's     *)
(* note or among what an aborted command left behind (NotedInv); the note  *)
(* is empty wherever a command may end (NoteInv).  And once recorded, the  *)
(* arguments stay in the file through every later command (ArgsInv).       *)
(***************************************************************************)

NotedInv == Stale \subseteq behind \cup command.changed

NoteInv ==
  /\ command.step = "idle" <=> command.op = "none"
  /\ command.step \in {"idle", "oneshot", "record", "policy", "hooks"} => command.changed = {}
  /\ command.op \in {"configure", "nested"} /\ command.step = "write" => command.changed = {}
  /\ command.op = "configure" => command.changed \subseteq {"grub", "initramfs"}
  /\ command.op = "nested" /\ command.step = "check" => Stale \subseteq behind
  /\ command.op = "nested" => command.changed \subseteq {"initramfs"}
  /\ command.step \in {"oneshotArg", "oneshotModules"} => command.changed \subseteq {"grub", "initramfs"}
  /\ command.op = "install" /\ command.step = "derive" => command.changed \subseteq {"grub", "initramfs"}
  /\ command.step = "reload" => command.changed \subseteq {"apparmor"}
  /\ command.step = "restart" => command.changed \subseteq {"libvirtd"}

Configured(args) == Additions \subseteq args /\ args \cap Excluded = {}

ArgsInv ==
  /\ recorded /\ ~edited => Configured(file.grub) /\ Configured(made.grub)
  /\ command.op = "configure" /\ command.step \in {"modules", "derive", "record"} => Configured(file.grub)
  /\ command.op = "configure" /\ command.step = "record" => Configured(made.grub)

HostInv == HostTypeOK /\ NotedInv /\ NoteInv /\ ArgsInv

\* Each file counts for the thing that is made from it: f the files, m what things were
\* made from.
Noted(f, m, X) ==
  /\ f.grub # m.grub \/ f.script # m.script => "grub" \in X
  /\ f.kvm # m.kvm \/ f.vfio # m.vfio \/ f.oneshot # m.oneshot => "initramfs" \in X
  /\ f.rules # m.rules => "apparmor" \in X
  /\ f.dispatcher # m.dispatcher => "libvirtd" \in X

LEMMA StaleIn ==
  ASSUME NEW f \in Files, NEW m \in Files, NEW X
  PROVE  {t \in Derived : \E part \in Parts[t] : f[part] # m[part]} \subseteq X <=> Noted(f, m, X)
  BY DEF Derived, Parts, Files, Noted

LEMMA StaleNow == ASSUME HostTypeOK, NEW X PROVE Stale \subseteq X <=> Noted(file, made, X)
  BY StaleIn DEF HostTypeOK, Stale

LEMMA StaleNext == ASSUME HostTypeOK', NEW X PROVE Stale' \subseteq X <=> Noted(file', made', X)
  BY StaleIn DEF HostTypeOK, Stale

LEMMA RemadeParts ==
  ASSUME HostTypeOK, NEW things \in SUBSET Derived
  PROVE  Remade(things) =
           [grub |-> IF "grub" \in things THEN file.grub ELSE made.grub,
            script |-> IF "grub" \in things THEN file.script ELSE made.script,
            kvm |-> IF "initramfs" \in things THEN file.kvm ELSE made.kvm,
            vfio |-> IF "initramfs" \in things THEN file.vfio ELSE made.vfio,
            oneshot |-> IF "initramfs" \in things THEN file.oneshot ELSE made.oneshot,
            rules |-> IF "apparmor" \in things THEN file.rules ELSE made.rules,
            dispatcher |-> IF "libvirtd" \in things THEN file.dispatcher ELSE made.dispatcher]
  BY DEF HostTypeOK, Remade, Derived, Parts, Files

LEMMA RemadeType ==
  ASSUME HostTypeOK, NEW things \in SUBSET Derived
  PROVE  Remade(things) \in Files
  BY RemadeParts DEF HostTypeOK, Files

LEMMA HostInvInit == HostInit => HostInv
<1> SUFFICES ASSUME HostInit PROVE HostInv
  OBVIOUS
<1>1. HostTypeOK
  <2>1. file \in Files /\ made \in Files
    BY DEF HostInit, Files, KernelArguments
  <2>2. unit \in BOOLEAN /\ recorded \in BOOLEAN /\ edited \in BOOLEAN
    BY DEF HostInit
  <2>3. command = NoJob /\ behind = {}
    BY DEF HostInit
  <2> QED  BY <2>1, <2>2, <2>3 DEF HostTypeOK, NoJob
<1>2. Stale = {}
  BY <1>1, StaleNow DEF HostInit, Noted
<1> QED  BY <1>1, <1>2 DEF HostInit, HostInv, NotedInv, NoteInv, ArgsInv, NoJob

LEMMA HostTypeStep == HostTypeOK /\ [HostNext]_hostVars => HostTypeOK'
<1> SUFFICES ASSUME HostTypeOK, [HostNext]_hostVars PROVE HostTypeOK'
  OBVIOUS
<1> USE DEF HostTypeOK, Start, Write, Remake, NoJob, Derived
<1>1. CASE ConfigureHost \/ EnsureNested \/ InstallApplication
  <2>1. UNCHANGED <<file, made, unit, recorded, behind, edited>>
    BY <1>1 DEF ConfigureHost, EnsureNested, InstallApplication
  <2>2. command' \in [step : {"write", "oneshot"}, op : {"configure", "nested", "install"}, changed : {{}}]
    BY <1>1 DEF ConfigureHost, EnsureNested, InstallApplication
  <2> QED  BY <2>1, <2>2
<1>2. CASE WriteGrub
  BY <1>2 DEF WriteGrub, ReplaceGrubArgs, Files, KernelArguments
<1>3. CASE WriteModules
  BY <1>3 DEF WriteModules, Files
<1>4. CASE UpdateInitramfs
  BY <1>4, RemadeType DEF UpdateInitramfs
<1>5. CASE UpdateGrub
  BY <1>5, RemadeType DEF UpdateGrub
<1>6. CASE RecordConfigured
  BY <1>6 DEF RecordConfigured
<1>7. CASE WriteNested
  BY <1>7 DEF WriteNested, Files
<1>8. CASE DeriveNested
  BY <1>8, RemadeType DEF DeriveNested
<1>9. CASE CheckNested
  BY <1>9 DEF CheckNested
<1>10. CASE RemoveUnit
  BY <1>10 DEF RemoveUnit, Files
<1>11. CASE RemoveArg
  BY <1>11 DEF RemoveArg, Files
<1>12. CASE RemoveModules
  BY <1>12 DEF RemoveModules, Files
<1>13. CASE DeriveAfterRemoval
  BY <1>13, RemadeType DEF DeriveAfterRemoval
<1>14. CASE RemovalDone
  BY <1>14 DEF RemovalDone
<1>15. CASE WriteRules
  BY <1>15 DEF WriteRules, Files
<1>16. CASE ReloadPolicy
  BY <1>16, RemadeType DEF ReloadPolicy
<1>17. CASE WriteDispatcher
  BY <1>17 DEF WriteDispatcher, Files
<1>18. CASE RestartLibvirtd
  BY <1>18, RemadeType DEF RestartLibvirtd
<1>19. CASE Aborted
  BY <1>19 DEF Aborted, Stale
<1>20. CASE RebootMachine
  BY <1>20, RemadeType DEF RebootMachine
<1>21. ASSUME NEW own \in SUBSET OwnArgs, EditArgs(own) PROVE HostTypeOK'
  BY <1>21 DEF EditArgs, Files, KernelArguments
<1>22. CASE UNCHANGED hostVars
  BY <1>22 DEF hostVars
<1> QED
  BY <1>1, <1>2, <1>3, <1>4, <1>5, <1>6, <1>7, <1>8, <1>9, <1>10, <1>11, <1>12, <1>13, <1>14,
     <1>15, <1>16, <1>17, <1>18, <1>19, <1>20, <1>21, <1>22 DEF HostNext

\* A write is noted when the note covers what is different.
LEMMA WriteNotes ==
  ASSUME HostTypeOK, HostTypeOK', NotedInv,
         UNCHANGED <<made, behind>>, NEW changed, command'.changed = command.changed \cup changed,
         Noted(file', file, changed)
  PROVE  NotedInv'
<1>1. Noted(file, made, behind \cup command.changed)
  BY StaleNow DEF NotedInv
<1>2. Noted(file', made', behind' \cup command'.changed)
  BY <1>1 DEF Noted
<1> QED  BY <1>2, StaleNext DEF NotedInv

\* What is remade is up to date.
LEMMA RemakeNotes ==
  ASSUME HostTypeOK, HostTypeOK', NotedInv, NEW things \in SUBSET Derived,
         UNCHANGED file, made' = Remade(things)
  PROVE  Stale' \subseteq (behind \cup command.changed) \ things
<1>1. Noted(file, made, behind \cup command.changed)
  BY StaleNow DEF NotedInv
<1>2. Noted(file', made', (behind \cup command.changed) \ things)
  BY <1>1, RemadeParts DEF Noted
<1> QED  BY <1>2, StaleNext

LEMMA HostInvStep == HostInv /\ [HostNext]_hostVars => HostInv'
<1> SUFFICES ASSUME HostInv, [HostNext]_hostVars PROVE HostInv'
  OBVIOUS
<1>1. HostTypeOK' /\ HostTypeOK
  BY HostTypeStep DEF HostInv
<1> USE DEF HostInv
<1>2. ASSUME NEW op, NEW step, step \in {"write", "oneshot"}, op \in {"configure", "nested", "install"},
             step = "oneshot" => op = "install", step = "write" => op # "install", Start(op, step)
      PROVE  HostInv'
  <2>1. NotedInv'
    BY <1>2 DEF Start, NotedInv, NoteInv, Stale
  <2>2. NoteInv'
    BY <1>2 DEF Start, NoteInv
  <2>3. ArgsInv'
    BY <1>2 DEF Start, ArgsInv, Configured
  <2> QED  BY <1>1, <2>1, <2>2, <2>3
<1>3. CASE WriteGrub
  <2>1. file' = [file EXCEPT !.grub = ReplaceGrubArgs(@)] /\ UNCHANGED <<made, unit, recorded, behind, edited>>
    BY <1>3 DEF WriteGrub, Write
  <2>2. command.step = "write" /\ command.op = "configure" /\ command' = [command EXCEPT !.step = "modules", !.changed = @ \cup {"grub"}]
    BY <1>3 DEF WriteGrub, Write
  <2>3. NotedInv'
    BY <1>1, <2>1, <2>2, WriteNotes DEF Noted, HostTypeOK, Files
  <2>4. NoteInv'
    BY <1>1, <2>2 DEF NoteInv, HostTypeOK
  <2>5. Configured(file'.grub)
    BY <1>1, <2>1 DEF Configured, ReplaceGrubArgs, Additions, Excluded, HostTypeOK, Files
  <2>6. ArgsInv'
    BY <1>1, <2>1, <2>2, <2>5 DEF ArgsInv, HostTypeOK
  <2> QED  BY <1>1, <2>3, <2>4, <2>6
<1>4. CASE WriteModules
  <2>1. file' = [file EXCEPT !.kvm = "nested=1", !.vfio = TRUE] /\ UNCHANGED <<made, unit, recorded, behind, edited>>
    BY <1>4 DEF WriteModules, Write
  <2>2. command.step = "modules" /\ command.op = "configure" /\ command' = [command EXCEPT !.step = "derive", !.changed = @ \cup {"initramfs"}]
    BY <1>4 DEF WriteModules, Write
  <2>3. NotedInv'
    BY <1>1, <2>1, <2>2, WriteNotes DEF Noted, HostTypeOK, Files
  <2>4. NoteInv'
    BY <1>1, <2>2 DEF NoteInv, HostTypeOK
  <2>5. ArgsInv'
    BY <1>1, <2>1, <2>2 DEF ArgsInv, HostTypeOK, Files
  <2> QED  BY <1>1, <2>3, <2>4, <2>5
<1>5. ASSUME NEW next, NEW thing \in {"initramfs", "grub"}, Remake("configure", "derive", next, {thing}),
             \/ next = "derive" /\ thing = "initramfs"
             \/ next = "record" /\ thing = "grub" /\ "initramfs" \notin command.changed
      PROVE  HostInv'
  <2>1. made' = Remade({thing}) /\ behind' = behind \ {thing} /\ UNCHANGED <<file, unit, recorded, edited>>
    BY <1>5 DEF Remake
  <2>2. command.step = "derive" /\ command.op = "configure" /\ command' = [command EXCEPT !.step = next, !.changed = @ \ {thing}]
    BY <1>5 DEF Remake
  <2>3. NotedInv'
    <3>1. Stale' \subseteq (behind \cup command.changed) \ {thing}
      BY <1>1, <2>1, RemakeNotes DEF Derived
    <3> QED  BY <1>1, <2>1, <2>2, <3>1 DEF NotedInv, HostTypeOK
  <2>4. NoteInv'
    BY <1>1, <1>5, <2>2 DEF NoteInv, HostTypeOK
  <2>5. made'.grub = IF thing = "grub" THEN file.grub ELSE made.grub
    BY <1>1, <2>1, RemadeParts DEF Derived
  <2>6. ArgsInv'
    BY <1>1, <1>5, <2>1, <2>2, <2>5 DEF ArgsInv, HostTypeOK
  <2> QED  BY <1>1, <2>3, <2>4, <2>6
<1>6. CASE RecordConfigured
  <2>1. NotedInv'
    BY <1>6 DEF RecordConfigured, NotedInv, NoteInv, Stale, NoJob
  <2>2. NoteInv'
    BY <1>6 DEF RecordConfigured, NoteInv, NoJob
  <2>3. ArgsInv'
    BY <1>6 DEF RecordConfigured, ArgsInv, NoJob
  <2> QED  BY <1>1, <2>1, <2>2, <2>3
<1>7. CASE WriteNested
  <2>1. file' = [file EXCEPT !.kvm = "nested=1"] /\ UNCHANGED <<made, unit, recorded, behind, edited>>
    BY <1>7 DEF WriteNested, Write
  <2>2. /\ command.step = "write" /\ command.op = "nested"
        /\ command' = [command EXCEPT !.step = IF file.kvm = "nested=1" THEN "check" ELSE "derive",
                                      !.changed = @ \cup {"initramfs"}]
    BY <1>7 DEF WriteNested, Write
  <2>3. NotedInv'
    BY <1>1, <2>1, <2>2, WriteNotes DEF Noted, HostTypeOK, Files
  <2>4. file.kvm = "nested=1" => Stale' \subseteq behind'
    <3>1. Noted(file, made, behind)
      BY <1>1, <2>2, StaleNow DEF NotedInv, NoteInv
    <3>2. file.kvm = "nested=1" => Noted(file', made', behind')
      BY <1>1, <2>1, <3>1 DEF Noted, HostTypeOK, Files
    <3> QED  BY <1>1, <3>2, StaleNext
  <2>5. NoteInv'
    BY <1>1, <2>2, <2>4 DEF NoteInv, HostTypeOK
  <2>6. ArgsInv'
    BY <1>1, <2>1, <2>2 DEF ArgsInv, HostTypeOK, Files
  <2> QED  BY <1>1, <2>3, <2>5, <2>6
<1>8. CASE DeriveNested
  <2>1. made' = Remade({"initramfs"}) /\ behind' = behind \ {"initramfs"} /\ UNCHANGED <<file, unit, recorded, edited>>
    BY <1>8 DEF DeriveNested, Remake
  <2>2. command.step = "derive" /\ command.op = "nested" /\ command' = [command EXCEPT !.step = "check", !.changed = @ \ {"initramfs"}]
    BY <1>8 DEF DeriveNested, Remake
  <2>3. Stale' \subseteq behind'
    <3>1. Stale' \subseteq (behind \cup command.changed) \ {"initramfs"}
      BY <1>1, <2>1, RemakeNotes DEF Derived
    <3> QED  BY <2>1, <2>2, <3>1 DEF NoteInv
  <2>4. NoteInv'
    BY <1>1, <2>2, <2>3 DEF NoteInv, HostTypeOK
  <2>5. made'.grub = made.grub
    BY <1>1, <2>1, RemadeParts DEF Derived
  <2>6. ArgsInv'
    BY <1>1, <2>1, <2>2, <2>5 DEF ArgsInv, HostTypeOK
  <2> QED  BY <1>1, <2>3, <2>4, <2>6 DEF NotedInv
<1>9. CASE CheckNested
  <2>1. NotedInv'
    BY <1>9 DEF CheckNested, NotedInv, NoteInv, Stale, NoJob
  <2>2. NoteInv'
    BY <1>9 DEF CheckNested, NoteInv, NoJob
  <2>3. ArgsInv'
    BY <1>9 DEF CheckNested, ArgsInv, NoJob
  <2> QED  BY <1>1, <2>1, <2>2, <2>3
<1>10. ASSUME NEW step, NEW next, NEW contents, NEW changed, Write("install", step, next, contents, changed),
              <<step, next>> \in {<<"oneshot", "oneshotArg">>, <<"oneshotArg", "oneshotModules">>,
                                 <<"oneshotModules", "derive">>},
              changed \subseteq {"grub", "initramfs"}, Noted(contents, file, changed),
              contents.grub \in {file.grub, file.grub \ {OneshotArg}}
       PROVE  HostInv'
  <2>1. file' = contents /\ UNCHANGED <<made, recorded, behind, edited>>
    BY <1>10 DEF Write
  <2>2. /\ command.step = step /\ command.op = "install" /\ step # next
        /\ command' = [command EXCEPT !.step = next, !.changed = @ \cup changed]
    BY <1>10 DEF Write
  <2>3. NotedInv'
    BY <1>1, <1>10, <2>1, <2>2, WriteNotes DEF HostTypeOK
  <2>4. NoteInv'
    <3>1. command.changed \subseteq {"grub", "initramfs"}
      BY <1>10, <2>2 DEF NoteInv
    <3>2. command'.changed \subseteq {"grub", "initramfs"} /\ command'.step = next /\ command'.op = "install"
      BY <1>1, <1>10, <2>2, <3>1 DEF HostTypeOK
    <3> QED  BY <1>10, <3>2 DEF NoteInv
  <2>5. ArgsInv'
    <3>1. Configured(file.grub) => Configured(file'.grub)
      BY <1>10, <2>1 DEF Configured, Additions, OneshotArg
    <3>2. command'.op = "install"
      BY <1>1, <2>2 DEF HostTypeOK
    <3> QED  BY <2>1, <2>2, <3>1, <3>2 DEF ArgsInv
  <2> QED  BY <1>1, <2>3, <2>4, <2>5
<1>11. CASE RemoveUnit
  <2>1. Noted([file EXCEPT !.script = FALSE], file, IF file.script THEN {"grub"} ELSE {})
    BY <1>1 DEF Noted, HostTypeOK, Files
  <2>2. [file EXCEPT !.script = FALSE].grub = file.grub
    BY <1>1 DEF HostTypeOK, Files
  <2> QED  BY <1>10, <1>11, <2>1, <2>2 DEF RemoveUnit
<1>12. CASE RemoveArg
  <2>1. Noted([file EXCEPT !.grub = @ \ {OneshotArg}], file, IF OneshotArg \in file.grub THEN {"grub"} ELSE {})
    BY <1>1 DEF Noted, HostTypeOK, Files
  <2>2. [file EXCEPT !.grub = @ \ {OneshotArg}].grub = file.grub \ {OneshotArg}
    BY <1>1 DEF HostTypeOK, Files
  <2> QED  BY <1>10, <1>12, <2>1, <2>2 DEF RemoveArg
<1>13. CASE RemoveModules
  <2>1. Noted([file EXCEPT !.oneshot = FALSE], file, IF file.oneshot THEN {"initramfs"} ELSE {})
    BY <1>1 DEF Noted, HostTypeOK, Files
  <2>2. [file EXCEPT !.oneshot = FALSE].grub = file.grub
    BY <1>1 DEF HostTypeOK, Files
  <2> QED  BY <1>10, <1>13, <2>1, <2>2 DEF RemoveModules
<1>14. CASE DeriveAfterRemoval
  <2>1. PICK thing \in {"grub", "initramfs"} : Remake("install", "derive", "derive", {thing})
    BY <1>14 DEF DeriveAfterRemoval
  <2>2. made' = Remade({thing}) /\ behind' = behind \ {thing} /\ UNCHANGED <<file, unit, recorded, edited>>
    BY <2>1 DEF Remake
  <2>3. command.step = "derive" /\ command.op = "install" /\ command' = [command EXCEPT !.step = "derive", !.changed = @ \ {thing}]
    BY <2>1 DEF Remake
  <2>4. NotedInv'
    <3>1. Stale' \subseteq (behind \cup command.changed) \ {thing}
      BY <1>1, <2>2, RemakeNotes DEF Derived
    <3> QED  BY <1>1, <2>2, <2>3, <3>1 DEF NotedInv, HostTypeOK
  <2>5. NoteInv'
    BY <1>1, <2>3 DEF NoteInv, HostTypeOK
  <2>6. made'.grub \in {file.grub, made.grub}
    BY <1>1, <2>2, RemadeParts DEF Derived
  <2>7. ArgsInv'
    BY <1>1, <2>2, <2>3, <2>6 DEF ArgsInv, HostTypeOK
  <2> QED  BY <1>1, <2>4, <2>5, <2>7
<1>15. CASE RemovalDone
  <2>1. /\ command.op = "install" /\ command.changed = {} /\ command' = [command EXCEPT !.step = "policy"]
        /\ UNCHANGED <<file, made, unit, recorded, behind, edited>>
    BY <1>15 DEF RemovalDone
  <2>2. command' = [step |-> "policy", op |-> "install", changed |-> {}]
    BY <1>1, <2>1 DEF HostTypeOK
  <2>3. NotedInv'
    BY <2>1, <2>2 DEF NotedInv, Stale
  <2>4. NoteInv'
    BY <2>2 DEF NoteInv
  <2>5. ArgsInv'
    BY <2>1, <2>2 DEF ArgsInv
  <2> QED  BY <1>1, <2>3, <2>4, <2>5
<1>16. ASSUME NEW step, NEW next, NEW contents, NEW thing, Write("install", step, next, contents, {thing}),
              <<step, next, thing>> \in {<<"policy", "reload", "apparmor">>, <<"hooks", "restart", "libvirtd">>},
              Noted(contents, file, {thing}), contents.grub = file.grub
       PROVE  HostInv'
  <2>1. file' = contents /\ UNCHANGED <<made, recorded, behind, edited>>
    BY <1>16 DEF Write
  <2>2. /\ command.step = step /\ command.op = "install"
        /\ command' = [command EXCEPT !.step = next, !.changed = @ \cup {thing}]
    BY <1>16 DEF Write
  <2>3. NotedInv'
    BY <1>1, <1>16, <2>1, <2>2, WriteNotes DEF HostTypeOK
  <2>4. command' = [step |-> next, op |-> "install", changed |-> {thing}]
    BY <1>1, <1>16, <2>2 DEF NoteInv, HostTypeOK
  <2>5. NoteInv'
    BY <1>16, <2>4 DEF NoteInv
  <2>6. ArgsInv'
    BY <1>16, <2>1, <2>4 DEF ArgsInv
  <2> QED  BY <1>1, <2>3, <2>5, <2>6
<1>17. CASE WriteRules
  <2>1. Noted([file EXCEPT !.rules = TRUE], file, {"apparmor"}) /\ [file EXCEPT !.rules = TRUE].grub = file.grub
    BY <1>1 DEF Noted, HostTypeOK, Files
  <2> QED  BY <1>16, <1>17, <2>1 DEF WriteRules
<1>18. CASE WriteDispatcher
  <2>1. Noted([file EXCEPT !.dispatcher = TRUE], file, {"libvirtd"}) /\ [file EXCEPT !.dispatcher = TRUE].grub = file.grub
    BY <1>1 DEF Noted, HostTypeOK, Files
  <2> QED  BY <1>16, <1>18, <2>1 DEF WriteDispatcher
<1>19. ASSUME NEW thing \in {"apparmor", "libvirtd"}, made' = Remade({thing}), behind' = behind \ {thing},
              UNCHANGED <<file, unit, recorded, edited>>, command.changed \subseteq {thing},
              command' = NoJob \/ command' = [step |-> "hooks", op |-> "install", changed |-> {}]
       PROVE  HostInv'
  <2>1. NotedInv'
    <3>1. Stale' \subseteq (behind \cup command.changed) \ {thing}
      BY <1>1, <1>19, RemakeNotes DEF Derived
    <3> QED  BY <1>19, <3>1 DEF NotedInv
  <2>2. NoteInv'
    BY <1>19 DEF NoteInv, NoJob
  <2>3. made'.grub = made.grub
    BY <1>1, <1>19, RemadeParts DEF Derived
  <2>4. ArgsInv'
    BY <1>19, <2>3 DEF ArgsInv, NoJob
  <2> QED  BY <1>1, <2>1, <2>2, <2>4
<1>20. CASE ReloadPolicy
  <2>1. command' = [step |-> "hooks", op |-> "install", changed |-> command.changed \ {"apparmor"}]
    BY <1>1, <1>20 DEF ReloadPolicy, Remake, HostTypeOK
  <2>2. command.changed \subseteq {"apparmor"}
    BY <1>20 DEF ReloadPolicy, Remake, NoteInv
  <2>3. command' = [step |-> "hooks", op |-> "install", changed |-> {}]
    BY <2>1, <2>2
  <2> QED  BY <1>19, <1>20, <2>2, <2>3 DEF ReloadPolicy, Remake
<1>21. CASE RestartLibvirtd
  BY <1>19, <1>21 DEF RestartLibvirtd, NoteInv
<1>22. CASE Aborted
  <2>1. NotedInv'
    BY <1>22 DEF Aborted, NotedInv, Stale, NoJob
  <2>2. NoteInv'
    BY <1>22 DEF Aborted, NoteInv, NoJob
  <2>3. ArgsInv'
    BY <1>22 DEF Aborted, ArgsInv, NoJob
  <2> QED  BY <1>1, <2>1, <2>2, <2>3
<1>23. CASE RebootMachine
  <2>1. /\ command.step = "idle" /\ UNCHANGED <<file, unit, recorded, command, edited>>
        /\ made' = Remade({"apparmor", "libvirtd"}) /\ behind' = behind \ {"apparmor", "libvirtd"}
    BY <1>23 DEF RebootMachine
  <2>2. command.changed = {} /\ command.op = "none"
    BY <2>1 DEF NoteInv
  <2>3. Stale' \subseteq (behind \cup command.changed) \ {"apparmor", "libvirtd"}
    BY <1>1, <2>1, RemakeNotes DEF Derived
  <2>4. NotedInv'
    BY <2>1, <2>2, <2>3 DEF NotedInv
  <2>5. NoteInv'
    BY <2>1, <2>2 DEF NoteInv
  <2>6. made'.grub = made.grub
    BY <1>1, <2>1, RemadeParts DEF Derived
  <2>7. ArgsInv'
    BY <2>1, <2>2, <2>6 DEF ArgsInv
  <2> QED  BY <1>1, <2>4, <2>5, <2>7
<1>24. ASSUME NEW own \in SUBSET OwnArgs, EditArgs(own) PROVE HostInv'
  <2>1. /\ command.step = "idle" /\ UNCHANGED <<unit, recorded, command>> /\ edited' = TRUE
        /\ file' = [file EXCEPT !.grub = own] /\ made' = [made EXCEPT !.grub = own, !.script = file.script]
        /\ behind' = behind \ {"grub"}
    BY <1>24 DEF EditArgs
  <2>2. command.changed = {} /\ command.op = "none"
    BY <2>1 DEF NoteInv
  <2>3. Noted(file, made, behind \cup command.changed)
    BY <1>1, StaleNow DEF NotedInv
  <2>4. Noted(file', made', behind' \cup command'.changed)
    BY <1>1, <2>1, <2>2, <2>3 DEF Noted, HostTypeOK, Files
  <2>5. NotedInv'
    BY <1>1, <2>4, StaleNext DEF NotedInv
  <2>6. NoteInv'
    BY <2>1, <2>2 DEF NoteInv
  <2>7. ArgsInv'
    BY <2>1, <2>2 DEF ArgsInv
  <2> QED  BY <1>1, <2>5, <2>6, <2>7
<1>25. CASE UNCHANGED hostVars
  <2>1. Stale' = Stale
    BY <1>25 DEF hostVars, Stale
  <2> QED  BY <1>1, <1>25, <2>1 DEF hostVars, NotedInv, NoteInv, ArgsInv, Configured
<1>26. CASE ConfigureHost \/ EnsureNested \/ InstallApplication
  BY <1>2, <1>26 DEF ConfigureHost, EnsureNested, InstallApplication
<1>27. CASE UpdateInitramfs \/ UpdateGrub
  BY <1>5, <1>27 DEF UpdateInitramfs, UpdateGrub
<1> QED
  BY <1>3, <1>4, <1>6, <1>7, <1>8, <1>9, <1>11, <1>12, <1>13, <1>14, <1>15, <1>17, <1>18, <1>20,
     <1>21, <1>22, <1>23, <1>24, <1>25, <1>26, <1>27 DEF HostNext

LEMMA HostInvariant == HostSpec => []HostInv
<1>1. HostInit => HostInv
  BY HostInvInit
<1>2. HostInv /\ [HostNext]_hostVars => HostInv'
  BY HostInvStep
<1> QED  BY <1>1, <1>2, PTL DEF HostSpec

\* Whatever was aborted before: a command that runs to its end leaves nothing behind the
\* files it wrote, and a host recorded as configured boots with the tool's arguments.
THEOREM ConfiguredHostBoots == HostSpec => []HostBootsAsConfigured
<1>1. HostInv => HostBootsAsConfigured
  BY DEF HostInv, NotedInv, NoteInv, ArgsInv, Configured, HostBootsAsConfigured
<1> QED  BY <1>1, HostInvariant, PTL
=============================================================================
