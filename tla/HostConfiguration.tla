--------------------------- MODULE HostConfiguration ---------------------------
(***************************************************************************)
(* The host's own configuration (host.py, offline.py).  The commands write *)
(* source files first and then have the thing rebuilt or reloaded that is  *)
(* made from them: grub.cfg, the initramfs, the AppArmor policy, libvirtd. *)
(* Some rebuild always, some only when the file they wrote was different;  *)
(* all may fail, or lose power, between the two.                           *)
(***************************************************************************)
EXTENDS Naturals, FiniteSets

CONSTANT OwnArgs   \* kernel arguments the administrator may write himself

\* The tool's arguments; "iommu" is the one of this CPU's vendor.
Additions == {"iommu", "iommu=pt", "lsm"}
Excluded == {"other vendor's iommu", "other lsm"}
OneshotArg == "kvm_aavm_args"   \* an older release's

ASSUME OwnArgsAssumption == OwnArgs \cap (Additions \cup {OneshotArg}) = {}

VARIABLES file,      \* the source files
          made,      \* the contents of `file' that the derived things were last made from
          unit,      \* the older release's one-shot unit is installed
          recorded,  \* host_configured in host.json
          command,       \* the running command
          behind,    \* history: derived things that an aborted command did not remake
          edited     \* history: the administrator edited the arguments since configure_host

hostVars == <<file, made, unit, recorded, command, behind, edited>>

Derived == {"grub", "initramfs", "apparmor", "libvirtd"}

KernelArguments == OwnArgs \cup Additions \cup Excluded \cup {OneshotArg}

Files == [grub : SUBSET KernelArguments,    \* GRUB_CMDLINE_LINUX_DEFAULT
          script : BOOLEAN,           \* the older release's script in /etc/grub.d
          kvm : {"none", "nested=0", "nested=1"}, vfio : BOOLEAN,   \* modprobe.d
          oneshot : BOOLEAN,          \* the older release's block in initramfs-tools/modules
          rules : BOOLEAN,            \* the AppArmor rules
          dispatcher : BOOLEAN]       \* qemu.d

\* What each derived thing is made from.
Parts == [grub |-> {"grub", "script"}, initramfs |-> {"kvm", "vfio", "oneshot"},
          apparmor |-> {"rules"}, libvirtd |-> {"dispatcher"}]

Remade(things) ==
  [part \in DOMAIN file |-> IF \E t \in things : part \in Parts[t] THEN file[part] ELSE made[part]]

Stale == {t \in Derived : \E part \in Parts[t] : file[part] # made[part]}

NoJob == [step |-> "idle", op |-> "none", changed |-> {}]

HostTypeOK ==
  /\ file \in Files /\ made \in Files
  /\ {unit, recorded, edited} \subseteq BOOLEAN /\ behind \subseteq Derived
  /\ command \in [step : {"idle", "write", "modules", "derive", "record", "policy", "reload", "hooks",
                      "restart", "oneshot", "oneshotArg", "oneshotModules", "check"},
              op : {"none", "configure", "nested", "install"}, changed : SUBSET Derived]

HostInit ==
  /\ \E own \in SUBSET (OwnArgs \cup Excluded), older \in BOOLEAN :
       /\ file = [grub |-> own \cup (IF older THEN {OneshotArg} ELSE {}), script |-> older,
                  kvm |-> "none", vfio |-> FALSE, oneshot |-> older,
                  rules |-> FALSE, dispatcher |-> FALSE]
       /\ unit = older
  /\ made = file /\ recorded = FALSE
  /\ command = NoJob /\ behind = {} /\ edited = FALSE

Start(op, step) ==
  /\ command.step = "idle"
  /\ command' = [step |-> step, op |-> op, changed |-> {}]
  /\ UNCHANGED <<file, made, unit, recorded, behind, edited>>

ConfigureHost == Start("configure", "write")
EnsureNested == Start("nested", "write")
InstallApplication == Start("install", "oneshot")

\* A file is written; `changed' notes what the command has to remake because of it.
Write(op, step, next, contents, changed) ==
  /\ command.op = op /\ command.step = step
  /\ file' = contents
  /\ command' = [command EXCEPT !.step = next, !.changed = @ \cup changed]
  /\ UNCHANGED <<made, recorded, behind, edited>>

\* Things are remade from the files.
Remake(op, step, next, things) ==
  /\ command.op = op /\ command.step = step
  /\ made' = Remade(things)
  /\ behind' = behind \ things
  /\ command' = [command EXCEPT !.step = next, !.changed = @ \ things]
  /\ UNCHANGED <<file, unit, recorded, edited>>

-----------------------------------------------------------------------------
(* configure_host *)

\* _replace_grub_args
ReplaceGrubArgs(args) == (args \ Excluded) \cup Additions

WriteGrub ==
  /\ Write("configure", "write", "modules", [file EXCEPT !.grub = ReplaceGrubArgs(@)], {"grub"})
  /\ UNCHANGED unit

WriteModules ==
  /\ Write("configure", "modules", "derive", [file EXCEPT !.kvm = "nested=1", !.vfio = TRUE],
           {"initramfs"})
  /\ UNCHANGED unit

\* update-initramfs and update-grub, whatever was different.
UpdateInitramfs == "initramfs" \in command.changed /\ Remake("configure", "derive", "derive", {"initramfs"})
UpdateGrub == "initramfs" \notin command.changed /\ Remake("configure", "derive", "record", {"grub"})

RecordConfigured ==
  /\ command.op = "configure" /\ command.step = "record"
  /\ recorded' = TRUE /\ edited' = FALSE
  /\ command' = NoJob
  /\ UNCHANGED <<file, made, unit, behind>>

(* ensure_nested_virtualization: remakes the initramfs when it changed the file itself. *)
WriteNested ==
  /\ Write("nested", "write", IF file.kvm = "nested=1" THEN "check" ELSE "derive",
           [file EXCEPT !.kvm = "nested=1"], {"initramfs"})
  /\ UNCHANGED unit

DeriveNested == Remake("nested", "derive", "check", {"initramfs"})

CheckNested ==   \* of the loaded module: done, or "Reboot Ubuntu" and reboot_required
  /\ command.op = "nested" /\ command.step = "check"
  /\ command' = NoJob
  /\ UNCHANGED <<file, made, unit, recorded, behind, edited>>

-----------------------------------------------------------------------------
(* install_application: remove_obsolete_oneshot_support, configure_apparmor, *)
(* configure_libvirt_hooks.                                                   *)

RemoveUnit ==
  /\ Write("install", "oneshot", "oneshotArg", [file EXCEPT !.script = FALSE],
           IF file.script THEN {"grub"} ELSE {})
  /\ unit' = FALSE

\* Mutant of RemoveArg: that the argument went is not noted.
RemoveArgSilently ==
  /\ Write("install", "oneshotArg", "oneshotModules", [file EXCEPT !.grub = @ \ {OneshotArg}], {})
  /\ UNCHANGED unit

RemoveArg ==
  /\ Write("install", "oneshotArg", "oneshotModules", [file EXCEPT !.grub = @ \ {OneshotArg}],
           IF OneshotArg \in file.grub THEN {"grub"} ELSE {})
  /\ UNCHANGED unit

RemoveModules ==
  /\ Write("install", "oneshotModules", "derive", [file EXCEPT !.oneshot = FALSE],
           IF file.oneshot THEN {"initramfs"} ELSE {})
  /\ UNCHANGED unit

DeriveAfterRemoval ==
  /\ command.changed # {} /\ LET next == IF "initramfs" \in command.changed THEN "initramfs" ELSE "grub"
                         IN Remake("install", "derive", "derive", {next})

RemovalDone ==
  /\ command.op = "install" /\ command.step = "derive" /\ command.changed = {}
  /\ command' = [command EXCEPT !.step = "policy"]
  /\ UNCHANGED <<file, made, unit, recorded, behind, edited>>

WriteRules ==
  /\ Write("install", "policy", "reload", [file EXCEPT !.rules = TRUE], {"apparmor"})
  /\ UNCHANGED unit

\* Without AppArmor in this kernel there is no policy to be behind.
ReloadPolicy == Remake("install", "reload", "hooks", {"apparmor"})

WriteDispatcher ==
  /\ Write("install", "hooks", "restart", [file EXCEPT !.dispatcher = TRUE], {"libvirtd"})
  /\ UNCHANGED unit

RestartLibvirtd ==
  /\ command.op = "install" /\ command.step = "restart"
  /\ made' = Remade({"libvirtd"}) /\ behind' = behind \ {"libvirtd"}
  /\ command' = NoJob
  /\ UNCHANGED <<file, unit, recorded, edited>>

-----------------------------------------------------------------------------
(* Failures and the administrator. *)

Aborted ==   \* a failing tool, a kill, or power loss
  /\ command.step # "idle"
  /\ command' = NoJob
  /\ behind' = behind \cup Stale
  /\ UNCHANGED <<file, made, unit, recorded, edited>>

EditArgs(own) ==   \* the administrator edits /etc/default/grub and runs update-grub
  /\ command.step = "idle"
  /\ file' = [file EXCEPT !.grub = own] /\ made' = [made EXCEPT !.grub = own, !.script = file.script]
  /\ behind' = behind \ {"grub"} /\ edited' = TRUE
  /\ UNCHANGED <<unit, recorded, command>>

\* The policy and libvirtd come up from the files.
RebootMachine ==
  /\ command.step = "idle"
  /\ made' = Remade({"apparmor", "libvirtd"}) /\ behind' = behind \ {"apparmor", "libvirtd"}
  /\ UNCHANGED <<file, unit, recorded, command, edited>>

HostNext ==
  \/ ConfigureHost \/ WriteGrub \/ WriteModules \/ UpdateInitramfs \/ UpdateGrub \/ RecordConfigured
  \/ EnsureNested \/ WriteNested \/ DeriveNested \/ CheckNested
  \/ InstallApplication \/ RemoveUnit \/ RemoveArg \/ RemoveModules \/ DeriveAfterRemoval
  \/ RemovalDone \/ WriteRules \/ ReloadPolicy \/ WriteDispatcher \/ RestartLibvirtd
  \/ Aborted \/ RebootMachine
  \/ \E own \in SUBSET OwnArgs : EditArgs(own)

HostSpec == HostInit /\ [][HostNext]_hostVars

-----------------------------------------------------------------------------
\* A command that ran to its end has remade grub.cfg, the initramfs, the AppArmor policy
\* or libvirtd after each file that it changed itself; and a host recorded as configured
\* boots with the tool's arguments and without those that contradict them, unless the
\* administrator changed them since.  (The exception, behind: what an aborted command
\* left unmade.  Running it again does not help: it finds its file right and does not
\* remake the rest, host.py:121-123, 352.)
HostBootsAsConfigured ==
  command.step = "idle" =>
    /\ Stale \subseteq behind
    /\ recorded /\ ~edited => Additions \subseteq made.grub /\ made.grub \cap Excluded = {}
=============================================================================
