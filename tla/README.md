# A verification of kvm_aavm

`src/kvm_aavm` is a deployment tool: a root command (`kvm-aavm`), the libvirt
hooks and the systemd units it installs. It creates Windows VMs, rotates their
identity (UUID, MAC, serials, artifacts) between runs, keeps their TPM across
rotations, reserves hugepages, tunes the host while a VM runs, and hands the only
GPU of the host to a VM and back. There is no daemon: commands, hooks and units are
short processes that meet in files, in libvirt and in the kernel. What can go wrong
is the order of their steps, a step that is missing because a command died, and a few
computations (PCIe addresses, CPU pins) whose corner cases no test visits. That is what
these modules model.

Contents: [system](#the-system) · [modules](#the-modules) · [runs](#what-the-runs-show)
· [proofs](#what-is-proved) · [disagreements](#where-the-code-does-something-else) ·
[limits](#what-is-not-modelled) · [plan](#plan)

## The system

| Component (source) | State | Operations | What makes it correct |
|---|---|---|---|
| Profiles, marks, locks (`state.py`, `util.py`, `paths.py`) | `profile.json`, `pending/NAME.json`, `.lock` per VM; `host.json` | load, save, mark, clear, `vm_lock` (flock) | a write replaces a file whole; one locked command per VM |
| Identity and definition (`vm.py`, `identity.py`, `xmlgen.py: update_identity`) | libvirt's definition, the identity in the profile | `randomize_xml`, `randomize_all`, `rebuild_artifacts`, nine `configure_*`/stage commands, `create_vm`, `resume_vm` | definition, profile and TPM name one UUID between commands; a refused definition changes nothing |
| swtpm state (`vm.py`) | a directory per UUID under `LIBVIRT_SWTPM_DIR`, markers, retired ones | migrate by two renames, roll back, retire | the guest keeps the TPM its secrets are sealed to; no state is destroyed |
| Dynamic rotation (`hooks.py`, `cli.py: randomize_pending`, `host.py: install_pending_service`) | the mark, the transient unit, the boot service | mark at `prepare:begin`, schedule at `release:end`, make up at boot | a VM that has run is rotated before it runs again, or at least remembered |
| Hugepages (`vm.py`) | `vm.nr_hugepages`, one sysctl.d file, a flag per profile | `configure_hugepages`, tail of `purge_vm` | the pool covers everyone who opted in; a failure restores the host |
| Performance hook (`hooks.py`) | cpufreq files, `/run/kvm-aavm-performance` | activate, deactivate | `performance` while any VM runs, the administrator's values after |
| Single-GPU handoff (`hooks.py`) | driver and override of each PCI function, display manager | the hook at `prepare:begin` and `release:end`, `recover-display` | all functions or none; the host gets its display back |
| libvirt dispatcher, host configuration (`host.py`) | GRUB, modprobe, AppArmor and hook files, and what is made from them | `configure_host`, `ensure_nested_virtualization`, `install_application` | hooks run in order and stop at a failure; no image or policy stays behind its files |
| Stages and guest security (`vm.py`, `xmlgen.py`, `cli.py`) | stage and `guest_*` settings in the profile, the definition, the UEFI variables, the single-GPU hooks | `enable_devirtualized`, `configure_guest_security`, `enable_gpu_setup`, `finalize_vm`, `disable_passthrough`, the wizards | profile, definition, variables and hooks change together; editing the XML and building it agree |
| Artifacts (`build.py`, `vm.py`) | a directory per generation, two counters | `build_all`, `rebuild_artifacts`, `randomize_all`, `cleanup_vm_artifacts`, `purge_vm` | the running generation is complete, validated and never emptied |
| Packages and holds (`offline.py`, `host.py`) | apt holds, their record in `host.json` | `install_packages`, `configure_update_protection` | what was held is held again; the administrator's holds stay his |
| Kernel, MOK, signing (`kernel.py`) | key pair, signed images and modules, enrollment queues | `build_kernel`, `sign_custom_kernels`, the postinst hook | a command that finished leaves a host that boots its kernels under Secure Boot |
| PCIe layout (`xmlgen.py`, `cli.py`) | the selection and the inventory in the profile | `one_click_passthrough`, `_passthrough_pcie_layout` | VFIO can open what the guest gets, and the guest finds it |
| CPU layout (`hardware.py`) | pins in the profile | `vm_cpu_layout`, `configure_cpu_layout` | guest cores are host cores, none is split or shared |
| CLI and menus (`cli.py`) | none | dispatch, wizards | |
| Build scripts, patches, verification and Windows tools | none | text substitution, measurement | |

How they interact. A command takes the flock of its VM and changes libvirt, the swtpm
directory, the profile and the mark one system call at a time. libvirt calls one
dispatcher, which runs the VM's hooks in the order of their names: `05-dynamic-randomization`,
`10-host-performance`, `20-single-gpu`; the first that fails ends the dispatcher. No
hook and no `virsh start` takes the flock; a hook leaves work to a command through a
mark (a file) or a transient unit (systemd). Commands of different VMs share the kernel's
pool of pages, the sysctl.d file, the cpufreq files, the GPU and `host.json`; the flock of a
VM does not order them.

Hard to test, and therefore what the properties are aimed at (each with its line in
`PROJECT.json`, "hazards"): a power loss or a kill between two of those calls; a second
failure in the rollback of the first; starts, hooks and unlocked commands between a
check and its use; sums over other VMs' profiles that are stale when written; a systemd
unit name that is still taken; a loop over PCI functions that fails half-way.

## The modules

| Module | Lines it stands for | What it is |
|---|---|---|
| `IdentityRotation` | `vm.py` 858-919, 1264-1701, 1831; `state.py`; `cli.py` 615, 950-1083; `hooks.py` 259-278 | one VM, its four stores, every command that replaces its definition, the timer, the boot service, faults |
| `VmIdentity` | (abstract) | what a rotation promises the guest: one committed UUID, one bound TPM |
| `IdentityRotation_proofs` | | typing, conservation, the transaction, refinement of `VmIdentity` |
| `HugepagePool` | `vm.py` 175-233, 961-1039, 1754-1827 | several VMs, one pool, one sysctl.d file |
| `HugepagePool_proofs` | | the setting is transactional; the pool suffices; failures restore it |
| `PerformanceHook` | `hooks.py` 290-334, `host.py` 189-205 | the hook script of several VMs, file by file |
| `PerformanceHook_proofs` | | never early, always restored |
| `GpuHandoff` | `hooks.py` 37-128, 196-278, 357-609; `cli.py` 457; `host.py` 189-205 | the hook script of `20-single-gpu`, function by function, its EXIT trap, `recover-display` |
| `GpuHandoff_proofs` | | no partial handoff, the host is restored |
| `GuestSecurity` | `vm.py` 62-172, 601-855, 858-958, 1042-1261, 1429-1635; `xmlgen.py` 76-161, 455-842, 979-1028, 1067-1261; `cli.py` 342-454, 595-608 | profile, definition, UEFI variables and hooks of one VM through every stage |
| `Artifacts` | `build.py`; `vm.py` 858-919, 1195-1219, 1620-1807; `xmlgen.py` 1031-1064 | generations under builds, rotations, cleanup and purge |
| `Guest_proofs` | | of `GuestSecurity` and `Artifacts`: editing is building, the stores agree; the generation in use is intact, the pinned firmware stays |
| `UpdateProtection` | `host.py` 421-482; `offline.py` 69-144; `cli.py` 713-724 | the holds, the record, the administrator |
| `KernelSigning` | `kernel.py` 416-551, 695-804, 831-913 | key pair, hook, images, modules, queues |
| `Selection` | `xmlgen.py` 713-716 | list comprehensions, for the two layouts |
| `PcieLayout` | `xmlgen.py` 191-452, 703-758; `cli.py` 127-217, 495-594; `hardware.py` 309-395 | the selection checked against the host, the layout as a function of the inventory |
| `CpuLayout` | `hardware.py` 63-252; `xmlgen.py` 563-574; `vm.py` 922-958 | the pins as a function of the host |
| `Layout_proofs` | | of both layouts: positions and counting; the definitions VFIO and the guest rely on |
| `HostConfiguration` | `host.py` 61-205, 298-381, 485-519; `util.py` 74-86 | source files and what is made from them |
| `Host_proofs` | | of `UpdateProtection`, `KernelSigning`, `HostConfiguration`: whose hold it is, the pair fits, what a finished command promises |
| `Maintenance` | (composition) | the seven modules above side by side |
| `Maintenance_proofs` | | it implements each of the seven, so what is proved of one holds of it |
| `MC*` | | values of the constants for TLC |

The modules share no variables but those `Maintenance` composes: where one needs something of another it keeps the part it
needs (`GpuHandoff!unit` is the `unit` of `IdentityRotation`, loaded or not; `SkipHook` of
`PerformanceHook` is the dispatcher that a `05` hook has stopped). Code outside `src/`
(libvirt, swtpm, systemd, the kernel) is modelled from how the code uses it and marked
external in the map.

**IdentityRotation.** A command is a process with a `pc`; its local variables
(`loaded`, `old`, `new`, `previous`, `carried`) are the Python locals of the same role.
One action is one system call with everything around it that others cannot see:
`Acquire` is `vm_lock` with `load_profile`, `EnsureInactive`, `DumpXml`, `MoveOut` and
`MoveIn` are the two renames of `_migrate_tpm_state_for_uuid`, `Undefine`, `Define`,
`Recover` are `_replace_definition`, `Rollback` is
`_rollback_tpm_state_migration`, `SaveProfile`, `ClearPending`, then `Finish` ends the
`with`. Nine commands that all build the XML from the profile are one operation,
`"reconfigure"`; `configure_cpu_layout`, which does not check that the VM is off, is
`"cpuLayout"`. A UUID stands for the whole identity; `uuid4` is a choice among the UUIDs
written down nowhere. `sealed` is a history variable: the TPM the guest was first started
with since its last `recreate-tpm`. `booted` is another: the UUIDs started while the
dynamic hook was installed. `SetDynamic` writes the profile and `SetHook` installs or removes the
hook, which a command killed in between leaves to the next one. `resume-vm` saves the profile
before it takes the lock (`ResumeSaves`, `vm.py` 917). `Faults` says what may go wrong (a refused definition, a
failing rename or recovery, a kill, a crash, a start while a command holds the lock),
`Commands` what users type.

**HugepagePool.** `configure_hugepages` from its sum over all profiles to its rollback,
and the tail of `purge_vm`. `Serial` says whether users run one command at a time. A VM is
not started while a command works on it (that race belongs to `IdentityRotation`). The host
of one history has at most one kind of trouble: memory too fragmented to grow the pool, a
sysctl.d file that cannot be written, a libvirt that refuses definitions, a profile or a
`domain.xml` that cannot be written. The last two lie inside the `try` of `configure_hugepages` (1019, 1020)
but behind the point where its handler can undo everything; `ahead` and `unbacked`
are history variables for what they leave, see [below](#where-the-code-does-something-else).

**PerformanceHook.** The three hook points in libvirt's order, also for starts that fail;
one action per file written. The administrator changes a file only on an idle host:
otherwise the saved value and the chosen one differ by design. The kernel may refuse any write of the
hook, which ignores it (`|| true`): `missed` are the files that did not take `performance`, `lost` those that
did not take their own value back.

**GpuHandoff.** A hook is a stage, the set of functions its loop has not reached (`todo`) and
the shell variable `failed`. `rollback` is the EXIT trap, `restore` the release hook; both are
`restore_host`. Every step the script writes as `|| true` may fail and is ignored;
`spoiled` records that a restore itself failed or was killed, the one case in which nothing
can be promised until `recover-display` succeeds. A display manager that does not come up
is `dark`: both restores go on and report success all the same (`hooks.py` 544, 253-256). `Overlaps` says which things users do
without waiting: a second VM on the GPU, a start before the VM's rotation is done, a start
during `recover-display`. X outputs, virtual terminals and the EFI framebuffer are left out.

**GuestSecurity.** A definition is the record of the elements that the code reads back or
validates; `Build` is `build_domain_xml` and `EditSecurity` is
`_update_guest_security_xml`, each part by part, `Valid` is `validate_required`. A command
computes its new profile and XML in one step (nobody else writes either: it holds the lock),
then exchanges the UEFI variables, replaces the definition, saves and moves the hooks, and may fail or be
killed after each. `torn` is a history variable: which stores a cut-off command left out of
step, until a command that sets them again ran to its end.

**Artifacts.** `build_all` from `_stage` to the published paths, between them each script and
its validators. A script may leave any one of the flaws the validators look for (the text
substitution found nothing to replace). `emptied` is a history variable for the one
exceptions the code leaves open, see [below](#where-the-code-does-something-else). A purge may fail to
undefine the domain unnoticed and may be cut off between its `rmtree`s; a rebuild pins the host's board when the
guest has Secure Boot, and the module leaves open whether it has.

**UpdateProtection.** A hold has no owner in dpkg, so the code takes a hold for its own when it
is on its record. `userHeld` is the truth the code cannot see. `faulted` says that a command died
after its first `apt-mark` or that a user undid a hold of the tool.

**KernelSigning.** Both commands are one task with `op`. A certificate is named by its key. The
postinst hook runs inside `InstallKernel` and `Reinstall`. `TaskDies` is any failing tool, a
kill or power loss; a command is then run again, and `finished` says that one ran to its end under
Secure Boot and that nobody interfered since. The `.pem` copy of the certificate, which
nothing reads, is left out.

**PcieLayout, CpuLayout.** `Layout` and `VmCpuLayout` are the pure algorithms; the state machine around
them is what makes their inputs old: the inventory is taken once, the selection is made from the
host as it is now, pins are computed once and written by every rebuild. A layout that does not
fit (`Fits`: more root ports than the root bus has addresses, more slots in a group than a bus)
is refused, as the code raises `AppError`. `TopologiesAssumption` and `HostsAssumption` say what
sysfs and `lspci` return: every online CPU in the list of one core, every function once.
`SmtAssumption` is what the code takes for granted when it pins vCPU N to the CPU with APIC ID N
(`hardware.py` 149-153): on an AMD host with SMT the IDs 2k and 2k + 1 are the threads of one core.

**HostConfiguration.** `made` is the contents of the files at the time the things made from
them were last made; what is made is `Stale` when the two differ. `behind` is what an aborted command left
unmade, until some command remakes it.

**Maintenance.** The seven keep different state of one host (where two of them change one
file, as the stages and the generations do in `profile.json`, the VM's lock orders them and they touch
different fields), so interleaving them would multiply states and show nothing: `part` picks one component for a behaviour and
the others stay in an initial state. A behaviour of `Maintenance` is therefore one of the
component it picked (for example `HoldsSpec`) and a stuttering one of the others, which
is what carries the theorems about the components over to it. What one component needs
of another (the stage that decides whether devices are shown, the pinned board) is in its own variables.

## What the runs show

| Run | Distinct states | Bounds | Shows |
|---|---|---|---|
| `rotation_clean` | 226 292 | 2 commands at a time, 4 UUIDs, 3 TPMs, refused definitions, recoveries that fail too | the stores agree between commands; the profile leads to the guest's TPM even when the domain is gone; `VmIdentity` is implemented |
| `rotation_faults` | 1 479 660 | 2 commands, 4 UUIDs, 2 TPMs, crash, kill, failing renames and recoveries | no TPM state is lost or duplicated; an owed rotation stays marked |
| `rotation_unlocked` | 2 758 708 | 2 commands, `resume-vm`, racing starts | the VM stays defined |
| `rotation_live` | 52 974 | 2 commands, 3 UUIDs, fairness | a scheduled rotation is carried out |
| `hugepages_serial` | 297 679 | 3 VMs of 1, 1 and 2 pages, every step of a command may fail | the pool covers who opted in; definition and profile agree; failures restore the host |
| `performance_hook` | 15 843 | 3 VMs, 2 files, kills of activations, refused writes | the settings hold while a VM runs and come back |
| `gpu_handoff` | 67 032 | 2 VMs, 3 functions (nvidia, other, no driver), every fault, a display manager that does not come up | no partial handoff; rollback, release and recovery give the host its GPU back and restart its display |
| `maintenance` | 1 416 024 | see the next table | sixteen invariants and two action properties of the seven components |
| `tpm_lost_in_crash`, `rebuild_drops_mark`, `hugepages_race`, `gpu_not_restored` | | | see [below](#where-the-code-does-something-else) |

Why the bounds are enough to see something. Two commands at a time is what a lock is
about: one holds it, one waits or (resume) ignores it. Three UUIDs are the committed one,
the one being defined and one left over from a failure; a fourth lets a second rotation
begin with all of them in use. A second TPM is the one libvirt manufactures when the
first is not found, a third one comes from `recreate-tpm`. Three VMs are needed so that the
sum over the *others* of one VM has two terms, and that a third hook sees two markers.
In `gpu_handoff` the three functions are the three kinds the code distinguishes, and two VMs
take turns. UUIDs and TPMs run out in long histories; `CHECK_DEADLOCK` stays on,
because starts, stops and the dynamic setting are always possible.

The bounds of `maintenance`, per component:

| Component | Bounds | Why they are enough |
|---|---|---|
| holds | 3 packages, 2 installed at first; any holds, removals, failures | one that is the user's, one the tool's, one that appears later |
| signing | 2 key pairs, 2 kernels; any removal of key files, any answer of the MOK manager | an image under an old certificate beside one under the new; a queue that holds either |
| security | 3 answers of the menus: all off; DMA protection; nested Hyper-V with VT-d and remapping | every setting is on in one and off in another, and the two sides of each dependency (DMA needs VT-d, Hyper-V needs isolation) occur |
| artifacts | `MaxGeneration` 3 for both counters | the generation in use, the one being built, one that the other counter reached first |
| pcie | 4 inventories of 5 to 9 functions | a whole card, a card that shares its group, one group of two slots, one slot of two groups, functions without function 0, no IOMMU, displays of the subclasses `hardware.py` 394 does and does not take; `ChangeHost` goes between them |
| cpus | 5 hosts (SMT of either vendor, hybrid, no SMT, holes), 1 to 7 vCPUs | both ways to pin, odd requests, requests that leave no core |
| host | 3 arguments of the administrator, a host with or without an older release | each rule of `_replace_grub_args`, each part of the removal |

What they say. `UserHoldsKept`, `HoldsMatchRecord`, `EnabledMeansHeld`: the
administrator's holds survive everything; without a fault nothing is held too much or too little; with
one, enabling again repairs it. `KeyFitsCertificate`, `FinishedIsBootable`,
`FinishedModulesLoad`: whatever died before, a command that finished leaves
images and modules that the firmware will load. `NoDrift`, `NeverRefusesItself`: the two
ways to make a definition agree, so no command takes back what another did, or refuses its own
XML. `VarsMatchProfile`, `BoardFitsKeys`, `GpuComesWithHooks`: the other stores follow
the profile. `ActiveIntact`, `FirmwareStaysPinned`: the generation in use. `GroupsKeptWhole`,
`FunctionZeroLeads`: a reference definition of a layout that VFIO accepts and that a guest can
probe, checked for every selection. `PinsAreWholeCores`: the same for pins.
`HostBootsAsConfigured`: nothing that a finished command wrote is missing from what the host boots.

Every property of a passing run is broken by a mutant of a mapped definition, kept beside
that definition ("Mutant of ..."): the rollback that moves nothing, the boot service that
clears the mark first, the sum that forgets the others, the hook without its flock, the
function that is bound to vfio-pci without a look.

Fairness (`FairSpec`, only `rotation_live`). A command that holds the lock goes on (weak
fairness of its steps: nothing in them waits for others). `flock` wakes its waiters in
order, hence strong fairness of `Acquire`. systemd fires an armed timer and runs the boot
service whatever else runs: strong, because the model bounds the number of concurrent
processes and a free one may come and go. No fairness is assumed of users or of the VM.

## What is proved

TLAPS proves, for every value of the constants that satisfies the named assumptions:

| Theorem | Assumption | Statement |
|---|---|---|
| `TypeCorrect` | none | `Spec => []TypeOK` |
| `TpmConservation` | none: every command and every fault | each manufactured TPM lies in exactly one directory |
| `GuestTpmIsKept`, `ProfileLeadsToTpm` | `Disciplined` | a running guest has the TPM it is sealed to; it lies under the profile's UUID, also when the domain is gone |
| `DefinitionSurvives` | `Recoverable`: no kill, crash or failing recovery | the VM is defined between commands, also beside `resume-vm` and racing starts |
| `StoresAgree` | `Recoverable`, `Exclusive`: no `resume-vm` | profile and domain agree between commands |
| `PromiseIsKept` | `Disciplined` | `IdentityRotation` implements `VmIdentity` |
| `OwedStaysPending` | `Marked` | an owed rotation stays marked, through crashes and kills |
| `NoEarlyRestore`, `RestoredByTheLast` | none: any refused writes | the performance hook |
| `SettingIsTransactional`, `HugepageTypes` | none: commands may overlap, any step may fail | `DefinedAsSaved`, `TypeOK` of the pool |
| `ReservationIsEnough`, `FailureGivesBack` | `Serial`: one command at a time; any VMs, sizes and troubles | the pool covers who opted in; a failed setting restores it (exceptions [below](#where-the-code-does-something-else)) |
| `ChoiceIsSaved`, `HookTypes` | none | the performance hook saves what the administrator chose |
| `GuestHasTheGpu`, `HostHasTheGpu`, `TrapRestores`, `RecoveryRestores`, `HandoffTypes` | `Patient`: no overlaps, every fault | the handoff |
| `UserHoldsAreKept`, `HoldsAreAccountedFor`, `EnablingHolds` | none | the holds |
| `PairsFit`, `FinishedBoots`, `FinishedLoads` | none | kernel signing |
| `EditingIsBuilding`, `VarsAreTheProfiles`, `OwnXmlIsValid`, `BoardGoesWithKeys`, `HooksGoWithGpu`, `SecurityTypes` | none: any answers of the menus | guest security |
| `ActiveStaysIntact`, `PinnedFirmware` | none: any number of generations | artifacts |
| `ConfiguredHostBoots` | none: any arguments of the administrator | `HostBootsAsConfigured` |
| `PinsKeepCores`, `CpuTypes` | none: any hosts, any number of vCPUs | `PinsAreWholeCores`, `CpusTypeOK` |
| `GroupsStayWhole`, `SlotsHaveLeaders`, `PcieTypes` | none: any inventories, any selection | the guest's PCIe layout |
| `MaintenanceTypes`, `MaintenancePromises` | none | all of the above of the seven side by side |

The named assumptions of the constants (`TopologiesAssumption`, `SmtAssumption`,
`HostsAssumption`, `VmsAssumption`, ...) hold throughout; TLC evaluates them on every run.

`Disciplined`: nothing fails but definitions and their recoveries, nobody starts the VM
while a command holds its lock, `resume-vm` is not used. `Marked`: neither `rebuild` nor `resume` is used and
nobody starts the VM under a command. The runs and the findings show that neither can be
dropped; where less is enough the theorem asks for less (`Recoverable`, `Exclusive`).

*The argument for the rotation.* `GuestKeepsTpm` speaks of a running VM, but a rotation
breaks everything it rests on for a while: the state is in a marker, the domain is undefined,
the profile is old. `GuestInv` says what is true at each `pc` of the one command that
holds the lock. `Informed`: what it read is still what the stores say. `Defined`: the
domain is the committed one, gone, or the new one (it stays gone when the recovery fails
too). `Sealed`: where the TPM lies, in the place the next step looks for it. `AtRest` is what is left when the lock is free. With the lock
held by one process (`LockOK`) each step moves one of the three from one clause to the
next; the refinement then follows with the profile's UUID as the abstract `uuid` and
`sealed` as the abstract `bound`: `SaveProfile` is `Rotate`, `RetireTpm` is `Recreate`,
every other step of a command stutters.

*DomainSurvives* rests on what libvirt knows and not on the lock: `SurvivalInv` says that when the VM is
undefined somebody in `_replace_definition` has the last definition in `previous`, and
that whatever still runs was started from it, so libvirt takes it back. Others may undefine and
define in between: the last one who undefines becomes the witness. *ProfileMatchesDomain* does rest on the
lock (`ReplaceInv`, `StoresInv`), but not on a start that waits for it, nor on renames that work.
*TpmFollowsProfile* is part of `GuestInv`: the rollback moves the TPM back whether or not the domain came back.

*TpmConserved* needs much less, that only a lock holder has a TPM in its hands and that it
has one between the renames only; so it survives all faults.

*OwedIsPending* needs that an identity that could be defined again (in the profile, or in the
hands of a command) and was booted is marked.

*PerformanceHook*: `saved` is what the administrator chose as long as it exists, it exists
while a marker does, and a marker has an owner who will come to its deactivation.

*GpuHandoff*: `Progress` says for each stage which functions are bound to what on both sides of
`todo`; `Recovery` the same for `recover-display`; `Unclaimed` that a function on its
host driver has no override. The display is claimed as restarted, `display \/ dark`, because
no more is known to the code. That a function on its host driver has no override makes
`recover-display`'s shortcut ("already healthy") true, which looks at drivers only.

*GuestSecurity*: the heart is the lemma `EditIsBuild`: editing the definition built from one
profile gives the definition built from another that differs in its settings only, when both are in
the normal form (`GoodProfile`) the commands put them in. The invariant says of the running command
what its profile and its XML have in common (`PlanInv`), so that `Define` and `Save` have little
to show; `NoDrift` alone is not inductive, it says nothing while a command runs.

*Artifacts*: a definition may name a generation that the profile does not know of, after a
kill. What is kept throughout is that the *profile's* generation is sound, because a build
goes to another one or is on record in `emptied` (`IntactInv`, `TargetInv`). `FirmwareStaysPinned` rests on `PinInv`: firmware that
shows the host's board was built for a profile that is pinned, or for one the running command is about to save.

*UpdateProtection*: what a command saw when it started stays true of the administrator's
holds until it writes the record (`OwnersInv`), and what it took off or put on follows from
its step (`ProgressInv`).

*KernelSigning*: the promise is built up step by step over the images and modules that are
still to do (`SignedInv`, `ModulesInv`); to survive a reinstalled package it needs the hook and
both key files (`ReadyInv`).

*HugepagePool*: `ReservationCovers` says nothing while a command runs. `PoolInv` adds where the one
command at work is (`At`): its target is the pages of the others that opted in, plus its own if that is what it wants;
what it found (`before`, `sysctlBefore`) covers everyone who opts in now, so that giving it back is
safe; from `persist` on the pool is the target, after it the file too. Lowering the pool is safe
because nobody else can opt in meanwhile: this is what `Serial` buys and what `hugepages_race`
loses. A command that fails at its last two steps gives back pages that a profile or a definition
still claims: `ahead` and `unbacked` say whose, and the invariant is about the others (`Covered`); `SettingInv`
needs no `Serial`, it only follows one VM's definition, profile and `want`. `Pages` is the size of a set of pages, so its monotonicity (`PagesMonotone`) is a fact
about subsets and needs no induction over a sum.

*HostConfiguration*: a thing that differs from the files it is made from is on the list of the
command at work (`changed`) or in `behind` (`NotedInv`, unfolded file by file in `Noted`); `NoteInv`
says when that list is empty, so that a finished command owes nothing. `ArgsInv` follows
the kernel arguments from the GRUB file to what is made of it.

*CpuLayout*: the state machine adds little (`CpusInv`: the definition is what `BuildCpus` makes of the pins
of the host they were measured on); the work is in `VmCpuLayout`. `OnlySelects` says what a list
comprehension returns: the elements that pass, each once, in order; it rests on `RankIsPosition`, that counting
smaller elements numbers a finite set of integers without a gap, the one place where positions are counted. `LastCoresAreSound`
then has whole cores by construction of the sequence, `ApicPinsAreSound` must show that IDs 0 .. n-1 are
whole cores and leave one out: `n \div threads` cores that lie inside n pins use up all of them, by counting.
Here the only exception of the property is found (`OddIsSingle`).

*PcieLayout*: `LayoutPlaces` is about any list of addresses and any inventory: buses are equal exactly if keys
are (`OrdinalNumbers`: an ordinal names one element; bridges start after the last port and are numbered apart by `OrdinalsRank`), slots
on a bus are equal exactly if the host's are, functions of one slot differ. `DomainPlaces` carries it through
the stages, which drop functions and set the multifunction bit. `PcieInv` remembers that the selection was legal on the
host it was made on (`Chosen`), which `GroupsStayWhole` needs and an old inventory does not break.

*Maintenance*: a step of the whole is a step of one component and leaves the variables of the
others as they are, so `Spec` implies each component's specification.

Only model-checked: `RotationCompletes`, since liveness under fairness is out of the prover's
reach. Every other property of a passing run is a theorem.

## Where the code does something else

Each is a run that TLC refutes, with the sentence of the repository it contradicts in
`PROJECT.json`, "findings".

- `tpm_lost_in_crash`: between the two renames of a TPM migration the state has a
  marker's name, and nothing looks for markers. After a crash there the next start
  manufactures a new TPM.
- `rebuild_drops_mark`: `rebuild-artifacts` clears the mark of a rotation though it
  keeps the identity.
- `hugepages_race`: two `configure-hugepages` for two VMs add up profiles that neither has
  saved yet; the pool ends too small for both.
- `gpu_not_restored`: while the unit of a VM's last rotation is loaded, `systemd-run` fails at
  the next release, the dispatcher stops there, and the GPU is not given back.

Exceptions that a property of a passing run names, because the code leaves them open and
nothing in the repository says otherwise:

- `ReservationCovers`: when `domain.xml` cannot be written (`vm.py` 1020) the profile is already saved as
  opted in and the handler gives the pages back all the same; the next command that succeeds counts
  them again (`unbacked`).
- `DefinedAsSaved`: when only `save_profile` fails (`vm.py` 1019) pool and sysctl file go back and the new definition
  stays (`ahead`); `FailureRestores`: a guest started so keeps its pages, and the pool is larger than before.
- `HostGetsGpuBack`, `RollbackRestores`, `RecoveryIsReal`: whether the restarted display manager came up is not looked at
  (`hooks.py` 544, 253-256, `dark`); the last line `recover-display` prints may be untrue.
- `ProfileMatchesDomain` (and `DomainSurvives` is not checked there): when libvirt refuses the previous definition too (`check=False`, `vm.py` 1615) the
  domain stays undefined, though the message (1616) says it was restored.
- `NeverRestoredEarly`, `RestoredAtRest`, `SavedIsChosen`: a file that refuses a write is left as it is (`hooks.py` 314, 317, 324,
  `missed`, `lost`).
- `ActiveIntact`: a purge that is cut off leaves the profile beside generations it has removed (`vm.py` 1803-1807, `emptied`).
- `ActiveIntact`: `randomize-all` builds under the number of the identity, which an earlier
  `rebuild-artifacts` may have used; `_stage` then empties the directory the VM runs from, and a build
  that fails leaves it empty (`build.py` 318, `emptied`).
- `VarsMatchProfile`, `NoDrift`: when only the saving of the profile fails, the exception handler restores the
  old variables under the new definition (`vm.py` 1178, `torn`).
- `FinishedIsBootable`: a new certificate is not queued while an older one of the same common name
  is (`kernel.py` 539, `overtaken`).
- `NeverRefusesItself`: deselecting the GPU in the wizard while the VM is in the maintenance stage
  is refused by the validation (`xmlgen.py` 1067-1136).
- `GroupsKeptWhole`: an inventory older than the last change of the host is never refreshed (`vm.py` 67).
- `FunctionZeroLeads`: two functions of a slot without its function 0 keep their numbers
  (`xmlgen.py` 440).
- `PinsAreWholeCores`: a single vCPU on an AMD host with SMT shares its core with the emulator
  (`hardware.py` 165).
- `HostBootsAsConfigured`: what an aborted command left stale stays so, also when it is run again: it finds its
  file already right and does not remake the rest (`host.py` 121-123, 352, `behind`).

Also met, without a run: with `Overlaps = {"recover"}` or `{"vms"}` TLC finds
`GuestOwnsGpu` violated (hazards at `hooks.py` 202 and 604). A vendor module that cannot be
removed does not abort a start, as DEPLOYMENT.zh-TW.md:146 says; the code continues on
purpose (`hooks.py` 440-442, 579).

## What is not modelled

- Adopted VMs: their profile starts with a UUID of its own; `IdentityRotation` is about
  VMs the tool created.
- `configure_tpm none`, which takes the TPM device away: the guest of the model has one.
- The content of an identity, of an XML document, of a build, of a key database: data the
  properties do not tell apart. The validators of `kernel.py` 1-413, which refuse sources
  and patches before anything is changed, and the NVIDIA and memflow sources it patches.
- A hook killed while it deactivates (`hooks.py` 320-328): the administrator's values are then lost, which nothing in
  the repository excludes or promises.
- Two commands on `host.json`, and a purge that overlaps another command of its VM.
- The configuration of swtpm and libtpms, of virt-manager and SPICE, the legacy PCI
  backend settings: single writes that nothing reads back.
- XML backups, the copy that `recreate-tpm` leaves in the backup directory: never read by
  the program.
- Interactive prompts, printing, dry runs.
- Shell build scripts, kernel patches, verification and Windows tools: straight-line text
  substitution in third-party sources, or measurements.

## Plan

1. A composition of `IdentityRotation` and `GpuHandoff` over the shared unit, so that the
   overlap of `gpu_not_restored` comes from the lock and not from a constant.
2. `Artifacts` inside the rotation: a purge and a cleanup beside a rotation of the same VM, with
   the lock file that the purge removes.
3. Proofs: what remains true of the handoff when VMs overlap, and of the pool when commands do.
