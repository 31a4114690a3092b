---------------------------- MODULE KernelSigning ----------------------------
(***************************************************************************)
(* Custom kernels under the host's Secure Boot (kernel.py): the key pair   *)
(* that signs boot images, the postinst hook that signs every linux-tkg    *)
(* image, the DKMS modules with their own machine owner key (MOK), and the *)
(* two enrollment queues that shim's MOK manager asks about at the next    *)
(* boot.  `build_kernel' and `sign_custom_kernels' share all of it; either *)
(* may fail, be killed or lose power anywhere and is then simply run again. *)
(* A certificate is named by the key it belongs to.                        *)
(***************************************************************************)
EXTENDS Naturals, FiniteSets

CONSTANTS Keys,      \* key pairs that openssl may generate
          Kernels    \* linux-tkg versions

ASSUME KeysAssumption == Keys \cap {"none", "absent", "unsigned"} = {}

VARIABLES key,         \* kernel-signing.key
          cert,        \* kernel-signing.der: the pair its certificate belongs to
          image,       \* per version, /boot/vmlinuz: "absent", "unsigned" or its signer
          modules,     \* per version, the DKMS modules
          hook,        \* the postinst hook is installed
          litter,      \* a temporary image of a killed hook lies in /boot
          enrolled, queued,   \* kernel certificates in the MOK list, waiting for it
          dkmsMok,     \* the module key: "none", "new", "queued" or "enrolled"
          secureBoot,  \* firmware setting
          task,        \* the running command and its locals
          finished,    \* history: the last command signed everything and nobody interfered since
          overtaken    \* history: another certificate of the same name was in the queue

signingVars == <<key, cert, image, modules, hook, litter, enrolled, queued, dkmsMok,
                 secureBoot, task, finished, overtaken>>

NoTask == [step |-> "idle", op |-> "none", secure |-> FALSE, new |-> "none",
           target |-> "none", todo |-> {}, any |-> FALSE]

SigningTypeOK ==
  /\ key \in Keys \cup {"none"} /\ cert \in Keys \cup {"none"}
  /\ image \in [Kernels -> Keys \cup {"absent", "unsigned"}]
  /\ modules \in [Kernels -> {"absent", "unsigned", "signed"}]
  /\ enrolled \subseteq Keys /\ queued \subseteq Keys
  /\ dkmsMok \in {"none", "new", "queued", "enrolled"}
  /\ {hook, litter, secureBoot, finished, overtaken} \subseteq BOOLEAN
  /\ task \in [step : {"idle", "key", "cert", "install", "sign", "modules", "queue", "refresh"},
               op : {"none", "build", "sign"}, secure : BOOLEAN, new : Keys \cup {"none"},
               target : Kernels \cup {"none"}, todo : SUBSET Kernels, any : BOOLEAN]

SigningInit ==
  /\ key = "none" /\ cert = "none"
  /\ image = [v \in Kernels |-> "absent"] /\ modules = [v \in Kernels |-> "absent"]
  /\ hook = FALSE /\ litter = FALSE
  /\ enrolled = {} /\ queued = {} /\ dkmsMok = "none"
  /\ secureBoot = TRUE
  /\ task = NoTask /\ finished = FALSE /\ overtaken = FALSE

Images == {v \in Kernels : image[v] # "absent"}   \* glob of /boot/vmlinuz-*-tkg-*

(* The hook leaves an image alone that sbverify accepts with the certificate. *)
\* Mutant of Verifies: any signature counts, also one of an earlier certificate.
VerifiesAny(signer) == signer \in Keys

Verifies(signer) == signer = cert

HookReady == key # "none" /\ cert # "none"

-----------------------------------------------------------------------------
(* sign_custom_kernels and build_kernel.  The command looks at Secure Boot once. *)

StartTask(op, v) ==
  /\ task.step = "idle"
  /\ task' = [NoTask EXCEPT !.step = "key", !.op = op, !.secure = secureBoot, !.target = v]
  /\ finished' = FALSE
  /\ UNCHANGED <<key, cert, image, modules, hook, litter, enrolled, queued, dkmsMok,
                 secureBoot, overtaken>>

\* The sources and the patch were accepted: a refused build changes nothing.
BuildKernel(v) == StartTask("build", v)
SignCustomKernels == StartTask("sign", "none")

AfterKey == IF task.op = "build" THEN "install" ELSE "sign"

KeepKey ==
  /\ task.step = "key" /\ task.secure /\ HookReady
  /\ hook' = TRUE
  /\ task' = [task EXCEPT !.step = AfterKey, !.todo = Images]
  /\ UNCHANGED <<key, cert, image, modules, litter, enrolled, queued, dkmsMok,
                 secureBoot, finished, overtaken>>

\* Mutant of MakeKey: half a pair is replaced instead of refused.
MakeKeyAnyway(k) ==
  /\ task.step = "key" /\ task.secure /\ ~HookReady
  /\ k \notin {key, cert} \cup enrolled \cup queued /\ \A v \in Kernels : image[v] # k
  /\ key' = k
  /\ task' = [task EXCEPT !.step = "cert", !.new = k]
  /\ UNCHANGED <<cert, image, modules, hook, litter, enrolled, queued, dkmsMok,
                 secureBoot, finished, overtaken>>

MakeKey(k) ==
  /\ task.step = "key" /\ task.secure /\ key = "none" /\ cert = "none"
  /\ k \notin enrolled \cup queued /\ \A v \in Kernels : image[v] # k   \* openssl: a new key
  /\ key' = k
  /\ task' = [task EXCEPT !.step = "cert", !.new = k]
  /\ UNCHANGED <<cert, image, modules, hook, litter, enrolled, queued, dkmsMok,
                 secureBoot, finished, overtaken>>

MakeCert ==
  /\ task.step = "cert"
  /\ cert' = task.new
  /\ hook' = TRUE
  /\ task' = [task EXCEPT !.step = AfterKey, !.todo = Images]
  /\ UNCHANGED <<key, image, modules, litter, enrolled, queued, dkmsMok,
                 secureBoot, finished, overtaken>>

WithoutSecureBoot ==
  /\ task.step = "key" /\ ~task.secure
  /\ task' = [task EXCEPT !.step = IF task.op = "build" THEN "install" ELSE "modules",
                          !.todo = Images]
  /\ UNCHANGED <<key, cert, image, modules, hook, litter, enrolled, queued, dkmsMok,
                 secureBoot, finished, overtaken>>

(* apt-get install --reinstall of the image package.  Its postinst runs the hook, *)
(* if there is one; a hook that refuses fails the package with the image in place. *)
InstallKernel ==
  /\ task.step = "install"
  /\ image' = [image EXCEPT ![task.target] = IF hook /\ HookReady THEN cert ELSE "unsigned"]
  /\ task' = IF hook /\ ~HookReady THEN NoTask
             ELSE [task EXCEPT !.step = IF task.secure THEN "sign" ELSE "modules",
                               !.todo = Images \cup {task.target}]
  /\ UNCHANGED <<key, cert, modules, hook, litter, enrolled, queued, dkmsMok,
                 secureBoot, finished, overtaken>>

SignImage(v) ==
  /\ task.step = "sign" /\ v \in task.todo
  /\ image' = [image EXCEPT ![v] = IF Verifies(@) THEN @ ELSE cert]
  /\ task' = [task EXCEPT !.todo = @ \ {v}]
  /\ UNCHANGED <<key, cert, modules, hook, litter, enrolled, queued, dkmsMok,
                 secureBoot, finished, overtaken>>

ImagesSigned ==
  /\ task.step = "sign" /\ task.todo = {} /\ Images # {}
  /\ task' = [task EXCEPT !.step = "modules", !.todo = Images]
  /\ UNCHANGED <<key, cert, image, modules, hook, litter, enrolled, queued, dkmsMok,
                 secureBoot, finished, overtaken>>

(* dkms autoinstall, then sign-file for modules without a signer. *)
PrepareModules(v) ==
  /\ task.step = "modules" /\ v \in task.todo
  /\ \E built \in BOOLEAN :
       LET present == built \/ modules[v] # "absent" IN
       /\ modules' = IF ~present \/ (~task.secure /\ modules[v] = "signed") THEN modules
                     ELSE [modules EXCEPT ![v] = IF task.secure THEN "signed" ELSE "unsigned"]
       /\ task' = [task EXCEPT !.todo = @ \ {v}, !.any = @ \/ (task.secure /\ present)]
  /\ dkmsMok' = IF task.secure /\ dkmsMok = "none" THEN "new" ELSE dkmsMok
  /\ UNCHANGED <<key, cert, image, hook, litter, enrolled, queued,
                 secureBoot, finished, overtaken>>

(* A temporary image left in /boot matches the glob too; dkms has no headers for *)
(* its version and the command fails, now and whenever it is run again.          *)
\* Mutant of QueueDkms: only modules signed by this very command need the key.
QueueDkmsNever ==
  /\ task.step = "modules" /\ task.todo = {} /\ ~litter
  /\ task' = [task EXCEPT !.step = IF task.secure THEN "queue" ELSE "refresh"]
  /\ UNCHANGED <<key, cert, image, modules, hook, litter, enrolled, queued, dkmsMok,
                 secureBoot, finished, overtaken>>

QueueDkms ==
  /\ task.step = "modules" /\ task.todo = {} /\ ~litter
  /\ dkmsMok' = IF task.any /\ dkmsMok # "enrolled" THEN "queued" ELSE dkmsMok
  /\ task' = [task EXCEPT !.step = IF task.secure THEN "queue" ELSE "refresh"]
  /\ UNCHANGED <<key, cert, image, modules, hook, litter, enrolled, queued,
                 secureBoot, finished, overtaken>>

(* The queue is searched by the certificate's common name, which all keys share. *)
QueueKernel ==
  /\ task.step = "queue"
  /\ queued' = IF cert \in enrolled \/ queued # {} THEN queued ELSE {cert}
  /\ overtaken' = (cert \notin enrolled \cup queued /\ queued # {})
  /\ task' = [task EXCEPT !.step = "refresh"]
  /\ UNCHANGED <<key, cert, image, modules, hook, litter, enrolled, dkmsMok,
                 secureBoot, finished>>

Refresh ==
  /\ task.step = "refresh"
  /\ task' = NoTask
  /\ finished' = task.secure
  /\ UNCHANGED <<key, cert, image, modules, hook, litter, enrolled, queued, dkmsMok,
                 secureBoot, overtaken>>

(* Half a key pair, no image, a failing tool: an AppError.  Also kill and power loss: *)
(* the hook's trap does not run then, and apt may have unpacked an unsigned image.    *)
TaskDies ==
  /\ task.step # "idle"
  /\ task' = NoTask
  /\ litter' \in (IF task.step \in {"install", "sign"} THEN BOOLEAN ELSE {}) \cup {litter}
  /\ image' \in {image} \cup (IF task.step = "install"
                                THEN {[image EXCEPT ![task.target] = "unsigned"]} ELSE {})
  /\ UNCHANGED <<key, cert, modules, hook, enrolled, queued, dkmsMok,
                 secureBoot, finished, overtaken>>

-----------------------------------------------------------------------------
(* Between the commands. *)

Reboot(accept, firmware) ==
  /\ task.step = "idle"
  /\ enrolled' = IF accept THEN enrolled \cup queued ELSE enrolled
  /\ queued' = {}
  /\ dkmsMok' = IF dkmsMok # "queued" THEN dkmsMok ELSE IF accept THEN "enrolled" ELSE "new"
  /\ secureBoot' = firmware
  /\ finished' = (finished /\ accept)
  /\ UNCHANGED <<key, cert, image, modules, hook, litter, task, overtaken>>

Reinstall(v) ==   \* the administrator reinstalls the package of a kernel
  /\ task.step = "idle" /\ v \in Images
  /\ image' = [image EXCEPT ![v] = IF hook /\ HookReady THEN cert ELSE "unsigned"]
  /\ UNCHANGED <<key, cert, modules, hook, litter, enrolled, queued, dkmsMok,
                 secureBoot, task, finished, overtaken>>

RemoveKeyFiles(some) ==   \* what _ensure_kernel_mok asks for, whole or in part
  /\ task.step = "idle" /\ some # {}
  /\ key' = IF "key" \in some THEN "none" ELSE key
  /\ cert' = IF "cert" \in some THEN "none" ELSE cert
  /\ finished' = FALSE
  /\ UNCHANGED <<image, modules, hook, litter, enrolled, queued, dkmsMok,
                 secureBoot, task, overtaken>>

SweepBoot ==
  /\ task.step = "idle" /\ litter
  /\ litter' = FALSE
  /\ UNCHANGED <<key, cert, image, modules, hook, enrolled, queued, dkmsMok,
                 secureBoot, task, finished, overtaken>>

SigningNext ==
  \/ \E v \in Kernels : BuildKernel(v) \/ SignImage(v) \/ PrepareModules(v) \/ Reinstall(v)
  \/ SignCustomKernels \/ KeepKey \/ MakeCert \/ WithoutSecureBoot \/ InstallKernel
  \/ \E k \in Keys : MakeKey(k)
  \/ ImagesSigned \/ QueueDkms \/ QueueKernel \/ Refresh \/ TaskDies
  \/ \E accept \in BOOLEAN, firmware \in BOOLEAN : Reboot(accept, firmware)
  \/ \E some \in SUBSET {"key", "cert"} : RemoveKeyFiles(some)
  \/ SweepBoot

SigningSpec == SigningInit /\ [][SigningNext]_signingVars

-----------------------------------------------------------------------------
\* Whatever was interrupted or removed, a private key and a certificate that are both
\* there belong to each other: an image is never signed with a key that the
\* certificate in the MOK list does not speak for (kernel.py 500-503, 527-529).
KeyFitsCertificate == key # "none" /\ cert # "none" => key = cert

\* After a command that finished under Secure Boot every custom kernel carries the
\* current certificate, also when it was installed or signed under an earlier one or
\* is reinstalled later, and shim trusts it or will be asked to at the next boot.
FinishedIsBootable ==
  finished /\ ~overtaken =>
    /\ \A v \in Images : image[v] = cert
    /\ cert \in enrolled \cup queued

\* ... and each of its DKMS modules is signed, by a key that is trusted or queued,
\* also when the modules date from a command that died before its queueing step.
FinishedModulesLoad ==
  finished /\ (\E v \in Kernels : v \in Images /\ modules[v] # "absent") =>
    /\ \A v \in Images : modules[v] # "unsigned"
    /\ dkmsMok \in {"queued", "enrolled"}
=============================================================================
