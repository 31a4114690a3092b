---------------------------- MODULE GuestSecurity ----------------------------
(***************************************************************************)
(* The stages and the firmware security of one VM (vm.py, xmlgen.py).      *)
(* Three stores must agree: the profile, libvirt's definition, and the     *)
(* UEFI variables (VARS) the guest boots with.  Most commands build the    *)
(* definition from the profile; `configure_guest_security' and             *)
(* `update_identity' edit the XML that libvirt has.                        *)
(*                                                                         *)
(* The single-GPU hooks are installed and removed around the transactions  *)
(* by the wizards of cli.py: a fourth store.                               *)
(*                                                                         *)
(* One command at a time (the VM's lock).  A definition is the record of   *)
(* the XML elements that the code reads back or validates.                 *)
(***************************************************************************)
EXTENDS Naturals, FiniteSets

CONSTANT Offered   \* the combinations of settings that the menus may ask for

Settings == [secureBoot : BOOLEAN, dma : BOOLEAN, isolation : BOOLEAN,
             hyperv : BOOLEAN, vtd : BOOLEAN, intremap : BOOLEAN]

ASSUME OfferedAssumption == Offered \subseteq Settings

VARIABLES profile,   \* profile.json
          domain,    \* libvirt's definition
          vars,      \* Secure Boot in the guest's UEFI variables
          hooked,    \* the VM's single-GPU hooks are installed
          accel,     \* the host offers nested Hyper-V acceleration in this boot
          work,      \* the running command and its locals
          torn       \* history: stores that an aborted command left out of step

securityVars == <<profile, domain, vars, hooked, accel, work, torn>>

Stages == {"install", "devirtualized", "gpu-setup", "final"}

Profiles ==
  [stage : Stages,
   gpu : BOOLEAN,         \* single-GPU passthrough is configured
   security : Settings,   \* the fields guest_*
   accel : BOOLEAN,       \* nested, npt, avic and gmet, as last looked up
   board : {"random", "host"}]   \* the SMBIOS board; host: identity_board is pinned

-----------------------------------------------------------------------------
(* build_domain_xml, part by part *)

Patched(p) == p.stage # "install"
GpuActive(p) == p.gpu /\ p.stage \in {"gpu-setup", "final"}

Metadata(p) ==
  LET s == p.security
      vtd == Patched(p) /\ s.vtd
      isolation == Patched(p) /\ s.isolation IN
  [stage |-> p.stage, secureBoot |-> Patched(p) /\ s.secureBoot,
   vtd |-> vtd, intremap |-> vtd /\ s.intremap, dma |-> vtd /\ s.dma,
   isolation |-> isolation, hyperv |-> isolation /\ s.hyperv,
   gmet |-> isolation /\ s.hyperv /\ p.accel]

Machine(p) ==
  [patched |-> Patched(p),    \* machine type, QEMU, CODE and the split IOAPIC
   nested |-> Metadata(p).isolation,
   reboot |-> IF GpuActive(p) THEN "destroy" ELSE "restart"]

Devices(p) ==
  LET vnc == p.stage \in {"devirtualized", "gpu-setup"} IN
  [iommu |-> CASE ~Metadata(p).vtd -> "none"
               [] Metadata(p).intremap -> "remapping"
               [] OTHER -> "plain",
   gpu |-> GpuActive(p),
   console |-> CASE vnc -> "vnc"
                 [] GpuActive(p) /\ p.stage = "final" -> "none"
                 [] OTHER -> "spice",
   audio |-> CASE vnc -> "none"
               [] p.stage = "final" /\ p.gpu -> "absent"
               [] OTHER -> "spice"]

(* The arguments for QEMU; also apply_hyperv_enlightenments and the x-vga override. *)
Arguments(p) ==
  [optIn |-> Metadata(p).dma, enlightened |-> Metadata(p).hyperv,
   globals |-> Metadata(p).gmet, xvga |-> GpuActive(p) /\ p.stage = "final",
   board |-> p.board]

Build(p) == [metadata |-> Metadata(p), machine |-> Machine(p),
             devices |-> Devices(p), arguments |-> Arguments(p)]

Definitions ==
  [metadata : [stage : Stages, secureBoot : BOOLEAN, vtd : BOOLEAN, intremap : BOOLEAN,
               dma : BOOLEAN, isolation : BOOLEAN, hyperv : BOOLEAN, gmet : BOOLEAN],
   machine : [patched : BOOLEAN, nested : BOOLEAN, reboot : {"destroy", "restart"}],
   devices : [iommu : {"none", "plain", "remapping"}, gpu : BOOLEAN,
              console : {"vnc", "spice", "none"}, audio : {"none", "spice", "absent"}],
   arguments : [optIn : BOOLEAN, enlightened : BOOLEAN, globals : BOOLEAN,
                xvga : BOOLEAN, board : {"random", "host"}]]

(* _update_guest_security_xml, then update_identity *)
EditMetadata(m, p) ==
  LET s == p.security
      hyperv == s.isolation /\ s.hyperv IN
  [stage |-> m.stage, secureBoot |-> s.secureBoot,
   vtd |-> m.vtd \/ s.dma, intremap |-> m.intremap, dma |-> s.dma,
   isolation |-> s.isolation, hyperv |-> hyperv, gmet |-> hyperv /\ p.accel]

\* The arguments that follow from the settings; x-vga stays as it is.
EditedArguments(a, p, optIn, globals) ==
  [optIn |-> optIn, enlightened |-> p.security.isolation /\ p.security.hyperv,
   globals |-> globals, xvga |-> a.xvga, board |-> p.board]

Accelerated(p) == p.security.isolation /\ p.security.hyperv /\ p.accel

\* Mutant of EditArguments: the opt-in is added and never taken out again.
EditArgumentsKeepsOptIn(a, p) ==
  EditedArguments(a, p, a.optIn \/ p.security.dma, Accelerated(p))

\* Mutant of EditArguments: the extensions of an earlier boot stay when the host lost them.
EditArgumentsKeepsGlobals(a, p) ==
  EditedArguments(a, p, p.security.dma, a.globals \/ Accelerated(p))

EditArguments(a, p) == EditedArguments(a, p, p.security.dma, Accelerated(p))

EditSecurity(x, p) ==
  [metadata |-> EditMetadata(x.metadata, p),
   machine |-> [x.machine EXCEPT !.nested = p.security.isolation],
   devices |-> [x.devices EXCEPT !.iommu = IF ~p.security.dma THEN @
                                           ELSE IF p.security.intremap THEN "remapping" ELSE "plain"],
   arguments |-> EditArguments(x.arguments, p)]

UpdateIdentity(x, p) == [x EXCEPT !.arguments.board = p.board]

(* validate_required *)
ValidStage(x) ==
  x.machine.patched =>
    /\ x.metadata.stage = "gpu-setup" =>
         x.devices.console = "vnc" /\ x.devices.gpu /\ ~x.arguments.xvga
    /\ x.metadata.stage = "gpu-setup" \/ x.arguments.xvga =>
         x.devices.gpu /\ x.machine.reboot = "destroy"

ValidIommu(x) ==
  /\ x.machine.patched /\ (x.metadata.vtd \/ x.devices.iommu # "none") =>
       x.devices.iommu = IF x.metadata.intremap THEN "remapping" ELSE "plain"
  /\ x.metadata.dma => x.arguments.optIn

ValidNested(x) ==
  /\ x.devices.audio = "spice" => x.devices.console = "spice"
  /\ x.metadata.isolation = x.machine.nested
  /\ x.metadata.isolation => x.metadata.secureBoot
  /\ x.metadata.hyperv = x.arguments.enlightened
  /\ x.metadata.gmet = x.arguments.globals

Valid(x) == ValidStage(x) /\ ValidIommu(x) /\ ValidNested(x)

-----------------------------------------------------------------------------
Off == [secureBoot |-> FALSE, dma |-> FALSE, isolation |-> FALSE,
        hyperv |-> FALSE, vtd |-> FALSE, intremap |-> FALSE]

NewProfile == [stage |-> "install", gpu |-> FALSE, security |-> Off,
               accel |-> accel, board |-> "random"]

AtRest == [step |-> "idle"]
Wizard == [step |-> "wizard"]   \* one_click_passthrough, between two transactions

Varstore == {"on", "off"}

Ops == {"devirtualize", "resume", "security", "rebuild", "cpu-layout", "randomize", "align",
        "passthrough", "disable", "gpu-setup", "finalize", "finalize-vm"}

SecurityTypeOK ==
  /\ profile \in Profiles /\ domain \in Definitions
  /\ vars \in Varstore /\ {hooked, accel} \subseteq BOOLEAN
  /\ work \in {AtRest, Wizard} \/
       work \in [step : {"vars", "define", "save", "hooks"}, op : Ops, kind : {"edit", "build"},
                profile : Profiles, xml : Definitions, setsVars : BOOLEAN, backup : Varstore]
  /\ torn \subseteq {"domain", "vars", "hook"}

SecurityInit ==
  /\ accel = TRUE
  /\ profile = NewProfile /\ domain = Build(NewProfile)   \* create_vm
  /\ vars = "off" /\ hooked = FALSE
  /\ work = AtRest /\ torn = {}

(* A command has read the profile and the XML and computed the new ones.  `kind' *)
(* says how: "edit" or "build"; `setsVars' that it sets the UEFI variables too.  *)
Transaction(op, kind, p, x, setsVars) ==
  /\ work' = [step |-> IF setsVars THEN "vars" ELSE "define", op |-> op, kind |-> kind,
              profile |-> p, xml |-> x, setsVars |-> setsVars, backup |-> vars]
  /\ UNCHANGED <<profile, domain, vars, accel, torn>>

StartWork(op, kind, p, x, setsVars) ==
  /\ work.step = "idle"
  /\ Transaction(op, kind, p, x, setsVars)
  /\ UNCHANGED hooked

Rebuild(op, p) == StartWork(op, "build", p, Build(p), FALSE)

(* _pin_host_board_identity *)
\* Mutant of Pinned: the pin waits for align-host-board.
PinnedLater(p) == p

Pinned(p) == IF p.security.secureBoot THEN [p EXCEPT !.board = "host"] ELSE p

(* _leave_single_gpu_stage: the hooks go before the definition does. *)
\* Mutant of LeaveSingleGpuStage: the hooks of the left stage stay.
LeaveSingleGpuStageHooked == work.step = "idle" /\ UNCHANGED hooked

LeaveSingleGpuStage == work.step = "idle" /\ hooked' = FALSE

Devirtualize(s) ==
  /\ LeaveSingleGpuStage
  /\ s.isolation => s.secureBoot
  /\ LET chosen == [s EXCEPT !.hyperv = s.isolation /\ s.hyperv,
                             !.vtd = s.vtd \/ s.dma, !.intremap = s.vtd /\ s.intremap]
         p == Pinned([profile EXCEPT !.stage = "devirtualized", !.accel = accel,
                                     !.security = chosen])
     IN Transaction("devirtualize", "build", p, Build(p), TRUE)

\* The guest's VT-d stays as it was chosen, unless DMA protection needs it.
ConfigureSecurity(s) ==
  /\ s.isolation => s.secureBoot
  /\ LET chosen == [s EXCEPT !.hyperv = s.isolation /\ s.hyperv,
                             !.vtd = profile.security.vtd \/ s.dma,
                             !.intremap = profile.security.intremap]
         p == Pinned([profile EXCEPT !.accel = accel, !.security = chosen])
     IN StartWork("security", "edit", p, EditSecurity(domain, p), TRUE)

ResumeVm ==
  /\ LeaveSingleGpuStage
  /\ LET p == [profile EXCEPT !.stage = "install"]
     IN Transaction("resume", "build", p, Build(p), FALSE)

\* configure_hugepages, configure_tpm, configure_minimal_devices
RebuildFromProfile == Rebuild("rebuild", profile)

RebuildForCpus == Rebuild("cpu-layout", [profile EXCEPT !.accel = accel])

(* one_click_passthrough: the devices, then the stage that shows them. *)
ConfigurePassthrough(gpu) ==
  /\ profile.stage # "install"
  /\ Rebuild("passthrough", [profile EXCEPT !.gpu = gpu])

Finish(op, stage) ==
  LET p == [profile EXCEPT !.stage = stage]
  IN Transaction(op, "build", p, Build(p), FALSE) /\ UNCHANGED hooked

EnableGpuSetup ==
  /\ work.step = "wizard" /\ profile.gpu
  /\ Finish("gpu-setup", "gpu-setup")

FinalizeVm == work.step = "wizard" /\ Finish("finalize", "final")

FinalizeCreation ==   \* the command finalize-vm
  /\ work.step = "idle"
  /\ profile.gpu => profile.stage # "install"
  /\ Finish("finalize-vm", "final")

DisablePassthrough ==
  Rebuild("disable", [profile EXCEPT !.gpu = FALSE, !.stage = "devirtualized"])

\* A new identity keeps the pinned board (identity.rerandomize).
RandomizeXml == StartWork("randomize", "edit", profile, UpdateIdentity(domain, profile), FALSE)

AlignHostBoard ==
  /\ profile.security.secureBoot
  /\ LET p == [profile EXCEPT !.board = "host"]
     IN StartWork("align", "edit", p, UpdateIdentity(domain, p), FALSE)

-----------------------------------------------------------------------------
(* _set_guest_secure_boot_varstore: a copy of the file, then one rename. *)
WriteVars ==
  /\ work.step = "vars"
  /\ vars' = IF work.profile.security.secureBoot THEN "on" ELSE "off"
  /\ work' = [work EXCEPT !.step = "define"]
  /\ UNCHANGED <<profile, domain, hooked, accel, torn>>

\* Mutant of RestoredVars: the variables are not part of the transaction.
RestoredVarsNever == vars

RestoredVars == IF work.setsVars THEN work.backup ELSE vars   \* the except clause

(* What an abort leaves out of step, given the profile and the definition then. *)
Unhooked(p, d) == IF d.devices.gpu = hooked /\ GpuActive(p) = hooked THEN {} ELSE {"hook"}

(* _replace_definition *)
Define ==
  /\ work.step = "define" /\ Valid(work.xml)
  /\ domain' = work.xml
  /\ work' = [work EXCEPT !.step = "save"]
  /\ UNCHANGED <<profile, vars, hooked, accel, torn>>

DefineFails ==   \* "Refusing invalid XML", or libvirt's validation
  /\ work.step = "define"
  /\ vars' = RestoredVars
  /\ torn' = torn \cup Unhooked(profile, domain)
  /\ work' = AtRest
  /\ UNCHANGED <<profile, domain, hooked, accel>>

\* What a command that ran to its end has put right again.
Repaired == (IF work.setsVars THEN {"vars"} ELSE {}) \cup
            (IF work.kind = "build" THEN {"domain"} ELSE {}) \cup
            (IF work.op \in {"devirtualize", "resume"} THEN {"hook"} ELSE {})

Save ==
  /\ work.step = "save"
  /\ profile' = work.profile
  /\ torn' = torn \ Repaired
  /\ work' = CASE work.op = "passthrough" -> Wizard
               [] work.op \in {"gpu-setup", "finalize", "finalize-vm", "disable"} ->
                    [work EXCEPT !.step = "hooks"]
               [] OTHER -> AtRest
  /\ UNCHANGED <<domain, vars, hooked, accel>>

(* install_single_gpu_hooks or remove_single_gpu_hooks *)
Hooks ==
  /\ work.step = "hooks"
  /\ hooked' = (IF work.op = "finalize-vm" THEN hooked \/ profile.gpu
                ELSE work.op # "disable" /\ profile.gpu)
  /\ torn' = IF work.op = "finalize-vm" /\ ~profile.gpu THEN torn ELSE torn \ {"hook"}
  /\ work' = AtRest
  /\ UNCHANGED <<profile, domain, vars, accel>>

(* save_profile or the copy in domain.xml fails, when the definition is in force: *)
(* the exception handler brings back the old variables all the same.              *)
SaveFails ==
  /\ work.step = "save"
  /\ \E saved \in BOOLEAN :
       /\ profile' = IF saved THEN work.profile ELSE profile
       /\ torn' = torn \cup (IF saved THEN {} ELSE {"domain"})
                       \cup (IF work.setsVars THEN {"vars"} ELSE {})
                       \cup Unhooked(profile', domain)
  /\ vars' = RestoredVars
  /\ work' = AtRest
  /\ UNCHANGED <<domain, hooked, accel>>

Killed ==   \* also Ctrl-C, which is no Exception: nothing is restored
  /\ work.step # "idle"
  /\ torn' = torn \cup Unhooked(profile, domain)
                  \cup (IF work.step = "save" THEN {"domain"} ELSE {})
                  \cup (IF work.step \in {"define", "save"} /\ work.setsVars THEN {"vars"} ELSE {})
  /\ work' = AtRest
  /\ UNCHANGED <<profile, domain, vars, hooked, accel>>

RebootHost ==   \* another kernel or module option: the extensions come or go
  /\ work.step = "idle"
  /\ accel' = ~accel
  /\ UNCHANGED <<profile, domain, vars, hooked, work, torn>>

SecurityNext ==
  \/ \E s \in Offered : Devirtualize(s) \/ ConfigureSecurity(s)
  \/ EnableGpuSetup \/ FinalizeVm \/ FinalizeCreation \/ ResumeVm
  \/ RebuildFromProfile \/ RebuildForCpus
  \/ \E gpu \in BOOLEAN : ConfigurePassthrough(gpu)
  \/ DisablePassthrough \/ RandomizeXml \/ AlignHostBoard
  \/ WriteVars \/ Define \/ DefineFails \/ Save \/ Hooks \/ SaveFails \/ Killed
  \/ RebootHost

SecuritySpec == SecurityInit /\ [][SecurityNext]_securityVars

-----------------------------------------------------------------------------
\* Editing libvirt's XML in place and building it anew from the profile come to the
\* same definition, whatever sequence of the two led here: on a patched VM nothing
\* that a later rebuild would silently take back was ever put in force.
NoDrift ==
  work.step = "idle" /\ "domain" \notin torn /\ domain.machine.patched =>
    domain = Build(profile)

\* Between commands the guest's Secure Boot variables are those the profile promises,
\* unless a command was cut off after it had exchanged them; the next command that
\* sets them puts them right.
VarsMatchProfile ==
  work.step = "idle" /\ "vars" \notin torn => (vars = "on") = profile.security.secureBoot

\* A command never refuses its own XML: from any state the tool has led the VM into,
\* every definition it generates passes its validation.  (The exception: deselecting
\* the GPU in the wizard while the VM is in the GPU maintenance stage is refused.)
NeverRefusesItself ==
  work.step = "define" /\ work.op # "passthrough" /\ "domain" \notin torn => Valid(work.xml)

\* A guest whose keys come from the host's board shows that board, through every
\* rotation, rebuild and stage.
BoardFitsKeys ==
  work.step = "idle" /\ "domain" \notin torn /\ profile.security.secureBoot =>
    domain.arguments.board = "host"

\* A definition that takes the host's GPU and the hooks that unbind and return it come
\* and go together: between commands a VM has both or neither, unless one was cut off.
GpuComesWithHooks ==
  work.step = "idle" /\ "hook" \notin torn => domain.devices.gpu = hooked
=============================================================================
