------------------------------- MODULE Artifacts -------------------------------
(***************************************************************************)
(* The patched QEMU and OVMF of one VM, kept per generation under          *)
(* artifacts/generation-N (build.py), and the commands that build, use and *)
(* delete generations (vm.py).  libvirt's definition and the profile each  *)
(* name a generation; the identity counts generations of its own.          *)
(*                                                                         *)
(* One command at a time (the VM's lock); each may fail or be killed after *)
(* any of its steps.  A generation's contents are reduced to what the      *)
(* validators of build.py look for.                                        *)
(***************************************************************************)
EXTENDS Naturals, FiniteSets

CONSTANT MaxGeneration   \* bound on both counters

ASSUME MaxGenerationAssumption == MaxGeneration \in Nat \ {0}

VARIABLES settings,   \* profile.json: both generations, identity_board and _firmware pinned
          output,     \* per generation, artifacts/generation-N
          defined,    \* the generation libvirt's definition names, 0: no definition
          cmd,        \* the running command and its locals
          emptied     \* history: generations in use that randomize-all emptied, or a
                      \* purge that was cut off

artifactVars == <<settings, output, defined, cmd, emptied>>

Generations == 1 .. MaxGeneration
QemuFlaws == {"hotplug", "hpet", "hypercall", "pci"}
OvmfFlaws == {"tpm"}
Flaws == QemuFlaws \cup OvmfFlaws \cup {"none"}

Nothing == [made |-> "no", flaw |-> "none", firmware |-> "none"]
Emptied == [Nothing EXCEPT !.made = "partly"]
NewVm == [identity |-> 1, artifacts |-> 0, pinned |-> FALSE]
NoCmd == [step |-> "idle", op |-> "none", settings |-> NewVm, target |-> 0]

Profiled == [identity : 0 .. MaxGeneration, artifacts : 0 .. MaxGeneration, pinned : BOOLEAN]

Outputs == [made : {"no", "partly", "all"}, flaw : Flaws,
            firmware : {"none", "generic", "random", "host"}]

Commands ==
  [step : {"idle", "stage", "qemu", "checkQemu", "ovmf", "checkOvmf", "publish",
           "define", "save"},
   op : {"none", "create", "resume", "xml", "all", "rebuild"},
   settings : Profiled, target : 0 .. MaxGeneration]

ArtifactsTypeOK ==
  /\ settings \in Profiled
  /\ output \in [Generations -> Outputs]
  /\ emptied \subseteq Generations
  /\ defined \in 0 .. MaxGeneration
  /\ cmd \in Commands

ArtifactsInit ==
  /\ settings = NewVm
  /\ output = [g \in Generations |-> Nothing]
  /\ defined = 0 /\ emptied = {}
  /\ cmd = NoCmd

Complete(g) == g \in Generations /\ output[g].made = "all"

-----------------------------------------------------------------------------
(* The commands.  Each reads the profile once and carries its own copy. *)

Run(op, step, s, target) ==
  /\ cmd.step = "idle"
  /\ cmd' = [step |-> step, op |-> op, settings |-> s, target |-> target]
  /\ UNCHANGED <<settings, output, defined, emptied>>

CreateVm ==   \* step 1 of the menu, also after a purge
  /\ defined = 0 /\ settings.artifacts = 0
  /\ Run("create", "stage", settings, settings.identity)

\* There is a domain, and a profile that load_profile finds.
Deployed == defined # 0 /\ settings.artifacts # 0

ResumeDomain ==   \* without a domain: create_vm(build=False), which looks for the files
  /\ settings.artifacts # 0 /\ (defined = 0 => Complete(settings.artifacts))
  /\ Run("resume", "define", settings, settings.artifacts)

\* rerandomize keeps identity_board and identity_firmware.
\* Mutant of Rerandomized: a new identity is drawn for the board and the firmware as well.
RerandomizedWhole(s) == [s EXCEPT !.identity = @ + 1, !.pinned = FALSE]

Rerandomized(s) == [s EXCEPT !.identity = @ + 1]

RotateIdentity ==
  /\ Deployed /\ settings.identity < MaxGeneration
  /\ Run("xml", "define", Rerandomized(settings), defined)

RandomizeAll ==
  /\ Deployed /\ settings.identity < MaxGeneration
  /\ Run("all", "stage", Rerandomized(settings), settings.identity + 1)

\* Mutant of NextGeneration: the identity's generation alone is counted.
NextGenerationOfIdentity(s) == s.identity + 1

NextGeneration(s) ==
  (IF s.artifacts > s.identity THEN s.artifacts ELSE s.identity) + 1

\* A profile with Secure Boot gets its board pinned, if an older release did not.
RebuildArtifacts ==
  /\ Deployed /\ NextGeneration(settings) <= MaxGeneration
  /\ \E s \in {settings, [settings EXCEPT !.pinned = TRUE]} :
       Run("rebuild", "stage", s, NextGeneration(settings))

\* configure_guest_security or align-host-board: the board and its BIOS are pinned.
PinBoard ==
  /\ cmd.step = "idle" /\ Deployed
  /\ settings' = [settings EXCEPT !.pinned = TRUE]
  /\ UNCHANGED <<output, defined, cmd, emptied>>

\* cleanup_vm_artifacts; rmtree by rmtree, so that a kill leaves some of them.
Cleanup ==
  /\ cmd.step = "idle" /\ Complete(settings.artifacts)
  /\ \E gone \in SUBSET (Generations \ {settings.artifacts}) :
       output' = [g \in Generations |-> IF g \in gone THEN Nothing ELSE output[g]]
  /\ UNCHANGED <<settings, defined, cmd, emptied>>

\* purge_vm, then perhaps a new VM of the same name.  virsh undefine may fail unnoticed;
\* rmtree meets the profile and the generations in any order and may be cut off.
PurgeVm ==
  /\ cmd.step = "idle"
  /\ defined' \in {0, defined}
  /\ \E gone \in SUBSET Generations :
       /\ output' = [g \in Generations |-> IF g \in gone THEN Nothing ELSE output[g]]
       /\ \/ settings' = NewVm /\ emptied' = {}
          \/ settings' = settings /\ emptied' = emptied \cup gone
  /\ UNCHANGED cmd

-----------------------------------------------------------------------------
(* build_all *)

Goes(step) == cmd' = [cmd EXCEPT !.step = step]

\* _stage: both directories are removed before anything is known to be there to
\* replace them.  The one under build/ holds nothing that is used again.
Stage ==
  /\ cmd.step = "stage"
  /\ output' = [output EXCEPT ![cmd.target] = Emptied]
  /\ emptied' = IF cmd.op = "all" /\ cmd.target \in {defined, settings.artifacts}
                  THEN emptied \cup {cmd.target} ELSE emptied
  /\ Goes("qemu")
  /\ UNCHANGED <<settings, defined>>

\* qemupatch.sh: any one of its patches may have failed to apply.
QemuPatch ==
  /\ cmd.step = "qemu"
  /\ \E flaw \in QemuFlaws \cup {"none"} : output' = [output EXCEPT ![cmd.target].flaw = flaw]
  /\ Goes("checkQemu")
  /\ UNCHANGED <<settings, defined, emptied>>

QemuAccepted ==
  /\ cmd.step = "checkQemu" /\ output[cmd.target].flaw = "none"
  /\ Goes("ovmf")
  /\ UNCHANGED <<settings, output, defined, emptied>>

\* ovmfpatch.sh: the profile's BIOS identity, one of its own, or EDK2's.
OvmfPatch ==
  /\ cmd.step = "ovmf"
  /\ \E flaw \in OvmfFlaws \cup {"none"},
        firmware \in {"generic", IF cmd.settings.pinned THEN "host" ELSE "random"} :
       output' = [output EXCEPT ![cmd.target].flaw = flaw, ![cmd.target].firmware = firmware]
  /\ Goes("checkOvmf")
  /\ UNCHANGED <<settings, defined, emptied>>

OvmfAccepted ==
  /\ cmd.step = "checkOvmf"
  /\ output[cmd.target].flaw = "none" /\ output[cmd.target].firmware # "generic"
  /\ cmd.settings.pinned => output[cmd.target].firmware = "host"
  /\ Goes("publish")
  /\ UNCHANGED <<settings, output, defined, emptied>>

\* Every expected file is there: the command's profile gets the new paths.
Publish ==
  /\ cmd.step = "publish"
  /\ output' = [output EXCEPT ![cmd.target].made = "all"]
  /\ emptied' = emptied \ {cmd.target}
  /\ cmd' = [cmd EXCEPT !.step = "define", !.settings.artifacts = cmd.target]
  /\ UNCHANGED <<settings, defined>>

-----------------------------------------------------------------------------
(* _replace_definition and save_profile; create_vm saves the profile first. *)

DefineArtifacts ==
  /\ cmd.step = "define"
  /\ defined' = cmd.target
  /\ IF cmd.op = "create" THEN settings' = cmd.settings /\ cmd' = NoCmd
                          ELSE UNCHANGED settings /\ Goes("save")
  /\ UNCHANGED <<output, emptied>>

SaveSettings ==
  /\ cmd.step = "save"
  /\ settings' = cmd.settings
  /\ cmd' = NoCmd
  /\ UNCHANGED <<output, defined, emptied>>

\* A validator, a script, libvirt or the disk says no; or the command is killed.
\* create_vm has saved the profile when virsh define refuses.
Fails ==
  /\ cmd.step # "idle"
  /\ settings' = IF cmd.op = "create" /\ cmd.step = "define" THEN cmd.settings ELSE settings
  /\ cmd' = NoCmd
  /\ UNCHANGED <<output, defined, emptied>>

ArtifactsNext ==
  \/ CreateVm \/ ResumeDomain \/ RotateIdentity \/ RandomizeAll \/ RebuildArtifacts
  \/ PinBoard \/ Cleanup \/ PurgeVm
  \/ Stage \/ QemuPatch \/ QemuAccepted \/ OvmfPatch \/ OvmfAccepted \/ Publish
  \/ DefineArtifacts \/ SaveSettings \/ Fails

ArtifactsSpec == ArtifactsInit /\ [][ArtifactsNext]_artifactVars

-----------------------------------------------------------------------------
Sound(g) == Complete(g) /\ output[g].flaw = "none" /\ output[g].firmware # "generic"

\* Whatever is being built, failed or is cleaned up, the VM can be started: the
\* generation that both libvirt and the profile name is complete and passed every
\* validator.  (The exception, at build.py 318: randomize-all builds under the
\* identity's number, which an earlier rebuild-artifacts may have taken, and empties
\* the generation in use; and a purge that was cut off.)
ActiveIntact ==
  defined # 0 /\ defined = settings.artifacts /\ defined \notin emptied => Sound(defined)

\* A Secure Boot guest whose firmware shows the BIOS of the board its keys come from
\* never gets firmware with another one: not by a rotation, a rebuild or a redefinition.
FirmwareStaysPinned ==
  [][defined = settings.artifacts /\ Complete(defined) /\ output[defined].firmware = "host"
       /\ defined' \notin {0, defined}
     => output'[defined'].firmware = "host"]_artifactVars
=============================================================================
