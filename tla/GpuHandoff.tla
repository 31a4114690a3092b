----------------------------- MODULE GpuHandoff -----------------------------
(***************************************************************************)
(* The only GPU of the host on its way to a VM and back: 20-single-gpu     *)
(* (hooks.py, install_single_gpu_hooks), the dispatcher that runs it after *)
(* the other hooks of the VM (host.py), and recover-display                *)
(* (recover_single_gpu).                                                   *)
(*                                                                         *)
(* At prepare:begin the hook stops the display manager, unbinds every PCI  *)
(* function of the GPU and binds it to vfio-pci; an EXIT trap rolls back   *)
(* what did not get that far.  libvirt ends every start that fails, and    *)
(* every run, with release:end, where the hook restores the host.          *)
(***************************************************************************)
CONSTANTS
  Vms,        \* VMs whose hook hands over this GPU
  Functions,  \* the GPU's PCI functions
  HadDriver,  \* those that had a host driver when the hook was written
  Nvidia,     \* those of HadDriver whose driver is nvidia
  Dynamic,    \* whether 05-dynamic-randomization is installed too
  Faults,     \* which steps may fail in this instance
  Overlaps    \* what the users of this instance do without waiting

FaultKinds == {"mark", "stopDisplay", "unbind", "vfio", "bind", "qemu", "kill",
               "restore", "display", "killRestore"}
OverlapKinds == {"vms", "rotation", "recover"}

ASSUME FunctionsAssumption == Nvidia \subseteq HadDriver /\ HadDriver \subseteq Functions
ASSUME DynamicAssumption == Dynamic \in BOOLEAN
ASSUME KindsAssumption == Faults \subseteq FaultKinds /\ Overlaps \subseteq OverlapKinds

VARIABLES
  driver,    \* [Functions -> "host", "vfio", "none"]: what the function is bound to
  override,  \* [Functions -> BOOLEAN]: driver_override says vfio-pci
  module,    \* /sys/module/nvidia exists
  display,   \* display-manager.service is active
  dark,      \* history: it is not because the last restart of it failed
  unit,      \* [Vms -> BOOLEAN]: unit kvm-aavm-randomize-NAME is loaded
  stage,     \* [Vms -> where libvirt and the hooks of the VM are]
  todo,      \* [Vms -> functions the loop of the hook has not reached]
  failed,    \* [Vms -> BOOLEAN]: `failed' in the hook
  rec,       \* recover-display: "idle", "stop", "restore", "done"
  recTodo,   \* the functions its loop has not reached
  recErrors, \* whether it met an error
  spoiled    \* history: a restore failed or was killed since the last recovery

gpuVars == <<driver, override, module>>
hookVars == <<stage, todo, failed>>
recVars == <<rec, recTodo, recErrors>>
screenVars == <<display, dark>>
vars == <<gpuVars, screenVars, unit, hookVars, recVars, spoiled>>

Preparing == {"stop", "unbind", "load", "bind", "rollback"}
Stages == {"off", "mark", "launch", "up", "failed", "release", "restore"} \cup Preparing

-----------------------------------------------------------------------------
(* Helpers                                                                 *)

Original(f) == IF f \in HadDriver THEN "host" ELSE "none"

Go(v, s) == stage' = [stage EXCEPT ![v] = s]

\* The loop over the functions starts at the next stage.
Loop(v, s) == /\ Go(v, s)
              /\ todo' = [todo EXCEPT ![v] = Functions]
              /\ failed' = [failed EXCEPT ![v] = FALSE]

Reached(v, f) == f \in todo[v] /\ todo' = [todo EXCEPT ![v] = @ \ {f}] /\ UNCHANGED stage

\* exit 1 before the handoff is committed: the EXIT trap restores the host.
Abort(v) == Loop(v, "rollback")

\* modprobe -r of the vendor module: it may stay, which is ignored.
UnloadModules == module' \in {FALSE, module}

\* systemctl stop and restart of display-manager.service: no caller looks at the result.
StopScreen == \/ display' = FALSE /\ dark' = FALSE
              \/ "stopDisplay" \in Faults /\ UNCHANGED screenVars

RestartScreen == \/ display' = TRUE /\ dark' = FALSE
                 \/ "display" \in Faults /\ display' = FALSE /\ dark' = TRUE

Init == /\ driver = [f \in Functions |-> Original(f)]
        /\ override = [f \in Functions |-> FALSE]
        /\ module = (Nvidia # {})
        /\ display = TRUE /\ dark = FALSE
        /\ unit = [v \in Vms |-> FALSE]
        /\ stage = [v \in Vms |-> "off"]
        /\ todo = [v \in Vms |-> {}]
        /\ failed = [v \in Vms |-> FALSE]
        /\ rec = "idle" /\ recTodo = {} /\ recErrors = FALSE
        /\ spoiled = FALSE

-----------------------------------------------------------------------------
(* prepare:begin                                                           *)

\* virsh start.  Users who do not overlap things start no second VM on the
\* GPU, and wait for the rotation of the VM and for recover-display.
Start(v) ==
  /\ stage[v] = "off"
  /\ "vms" \in Overlaps \/ \A w \in Vms : stage[w] = "off"
  /\ "rotation" \in Overlaps \/ ~unit[v]
  /\ "recover" \in Overlaps \/ rec = "idle"
  /\ Go(v, "mark")
  /\ UNCHANGED <<gpuVars, screenVars, unit, todo, failed, recVars, spoiled>>

\* The hooks that sort before 20-single-gpu; the dispatcher stops at a failure.
Mark(v) ==
  /\ stage[v] = "mark"
  /\ \/ Go(v, "stop")
     \/ "mark" \in Faults /\ Go(v, "release")
  /\ UNCHANGED <<gpuVars, screenVars, unit, todo, failed, recVars, spoiled>>

\* systemctl stop, with a timeout; a failure is ignored.
StopDisplay(v) ==
  /\ stage[v] = "stop"
  /\ StopScreen
  /\ Loop(v, "unbind")
  /\ UNCHANGED <<gpuVars, unit, recVars, spoiled>>

Unbind(v, f) ==
  /\ stage[v] = "unbind" /\ Reached(v, f)
  /\ \/ /\ driver' = [driver EXCEPT ![f] = IF @ = "host" THEN "none" ELSE @]
        /\ UNCHANGED failed
     \/ /\ "unbind" \in Faults /\ driver[f] = "host"
        /\ failed' = [failed EXCEPT ![v] = TRUE] /\ UNCHANGED driver
  /\ UNCHANGED <<override, module, screenVars, unit, recVars, spoiled>>

Unbound(v) ==
  /\ stage[v] = "unbind" /\ todo[v] = {}
  /\ IF failed[v] THEN Abort(v) ELSE Go(v, "load") /\ UNCHANGED <<todo, failed>>
  /\ UNCHANGED <<gpuVars, screenVars, unit, recVars, spoiled>>

\* Removing the vendor module is best effort, modprobe vfio-pci is not.
Load(v) ==
  /\ stage[v] = "load"
  /\ UnloadModules
  /\ \/ Loop(v, "bind")
     \/ "vfio" \in Faults /\ Abort(v)
  /\ UNCHANGED <<driver, override, screenVars, unit, recVars, spoiled>>

\* driver_override, drivers_probe, and a look at what the function is bound to.
Bind(v, f) ==
  /\ stage[v] = "bind" /\ Reached(v, f)
  /\ override' = [override EXCEPT ![f] = TRUE]
  /\ \/ driver' = [driver EXCEPT ![f] = IF @ = "none" THEN "vfio" ELSE @]
     \/ "bind" \in Faults /\ UNCHANGED driver
  /\ failed' = [failed EXCEPT ![v] = @ \/ driver'[f] # "vfio"]
  /\ UNCHANGED <<module, screenVars, unit, recVars, spoiled>>

\* Mutant of Bound: a function that did not get bound does not abort the start.
BoundUnchecked(v) ==
  /\ stage[v] = "bind" /\ todo[v] = {}
  /\ Go(v, "launch") /\ UNCHANGED <<todo, failed>>
  /\ UNCHANGED <<gpuVars, screenVars, unit, recVars, spoiled>>

\* handoff_committed: from here on the EXIT trap leaves everything alone.
Bound(v) ==
  /\ stage[v] = "bind" /\ todo[v] = {}
  /\ IF failed[v] THEN Abort(v) ELSE Go(v, "launch") /\ UNCHANGED <<todo, failed>>
  /\ UNCHANGED <<gpuVars, screenVars, unit, recVars, spoiled>>

-----------------------------------------------------------------------------
(* restore_host, from the EXIT trap (rollback) and at release:end (restore) *)

\* Mutant of RestoreFunction: driver_override stays set.
RestoreKeepsOverride(v, f) ==
  /\ stage[v] \in {"rollback", "restore"} /\ Reached(v, f)
  /\ driver' = [driver EXCEPT ![f] = IF override[f] THEN "vfio" ELSE Original(f)]
  /\ module' = (module \/ f \in Nvidia)
  /\ UNCHANGED <<override, screenVars, unit, failed, recVars, spoiled>>

\* Mutant of RestoreFunction: a function without a recorded driver is probed too.
RestoreGuesses(v, f) ==
  /\ stage[v] \in {"rollback", "restore"} /\ Reached(v, f)
  /\ override' = [override EXCEPT ![f] = FALSE]
  /\ driver' = [driver EXCEPT ![f] = "host"]
  /\ module' = (module \/ f \in Nvidia)
  /\ UNCHANGED <<screenVars, unit, failed, recVars, spoiled>>

\* Unbind from vfio-pci, clear the override, load and probe the old driver.
\* Every step ignores its failure; the override can always be cleared.
RestoreFunction(v, f) ==
  /\ stage[v] \in {"rollback", "restore"} /\ Reached(v, f)
  /\ override' = [override EXCEPT ![f] = FALSE]
  /\ module' = (module \/ f \in Nvidia)
  /\ \/ /\ driver' = [driver EXCEPT ![f] = Original(f)]
        /\ UNCHANGED spoiled
     \/ /\ "restore" \in Faults /\ driver[f] # Original(f)
        /\ driver' \in {driver, [driver EXCEPT ![f] = "none"]}
        /\ spoiled' = TRUE
  /\ UNCHANGED <<screenVars, unit, failed, recVars>>

\* systemctl restart display-manager, whatever becomes of it; then libvirt goes on.
RestoreDisplay(v) ==
  /\ stage[v] \in {"rollback", "restore"} /\ todo[v] = {}
  /\ RestartScreen
  /\ Go(v, IF stage[v] = "rollback" THEN "failed" ELSE "off")
  /\ UNCHANGED <<gpuVars, unit, todo, failed, recVars, spoiled>>

\* SIGKILL runs no EXIT trap.
Kill(v) ==
  /\ \/ /\ "kill" \in Faults /\ stage[v] \in Preparing
        /\ Go(v, "release") /\ UNCHANGED spoiled
     \/ /\ "killRestore" \in Faults /\ stage[v] = "restore"
        /\ Go(v, "off") /\ spoiled' = TRUE
  /\ todo' = [todo EXCEPT ![v] = {}]
  /\ UNCHANGED <<gpuVars, screenVars, unit, failed, recVars>>

-----------------------------------------------------------------------------
(* libvirt                                                                 *)

\* QEMU starts, on functions libvirt bound itself if need be (managed), unless
\* another VM has them or something else goes wrong.
Launch(v) ==
  /\ stage[v] = "launch"
  /\ \/ /\ \A w \in Vms : stage[w] # "up"
        /\ driver' = [f \in Functions |-> "vfio"]
        /\ Go(v, "up")
     \/ /\ "qemu" \in Faults \/ \E w \in Vms : stage[w] = "up"
        /\ Go(v, "release") /\ UNCHANGED driver
  /\ UNCHANGED <<override, module, screenVars, unit, todo, failed, recVars, spoiled>>

\* The guest ends, or libvirt cleans up after a hook that failed.
Release(v) ==
  /\ stage[v] \in {"up", "failed"}
  /\ Go(v, "release")
  /\ UNCHANGED <<gpuVars, screenVars, unit, todo, failed, recVars, spoiled>>

\* Mutant of ReleaseHooks: the dispatcher never gets to the GPU hook.
ReleaseStops(v) ==
  /\ stage[v] = "release"
  /\ unit' = [unit EXCEPT ![v] = Dynamic]
  /\ Go(v, "off") /\ UNCHANGED <<todo, failed>>
  /\ UNCHANGED <<gpuVars, screenVars, recVars, spoiled>>

\* The dispatcher (set -e) at release:end: systemd-run of the 05 hook refuses
\* a unit that is loaded, and then 20-single-gpu is not run.
ReleaseHooks(v) ==
  /\ stage[v] = "release"
  /\ unit' = [unit EXCEPT ![v] = Dynamic]
  /\ IF Dynamic /\ unit[v] THEN Go(v, "off") /\ UNCHANGED <<todo, failed>>
                           ELSE Loop(v, "restore")
  /\ UNCHANGED <<gpuVars, screenVars, recVars, spoiled>>

\* The rotation is done: IdentityRotation!Exit unloads the unit.
RotationEnds(v) ==
  /\ unit[v]
  /\ unit' = [unit EXCEPT ![v] = FALSE]
  /\ UNCHANGED <<gpuVars, screenVars, hookVars, recVars, spoiled>>

-----------------------------------------------------------------------------
(* recover-display: one at a time, for a VM whose QEMU does not run        *)

Stale == module /\ \E f \in Nvidia : driver[f] # "host"

Healthy == HadDriver = Functions /\ display /\ \A f \in Functions : driver[f] = "host"

\* Refused while QEMU runs (no step); refused but for the overrides when the
\* nvidia module has a stale state; nothing to do when all is well.
Recover(v) ==
  /\ rec = "idle" /\ stage[v] # "up"
  /\ "recover" \in Overlaps \/ \A w \in Vms : stage[w] = "off"
  /\ IF Stale THEN override' = [f \in Functions |-> FALSE] /\ UNCHANGED rec
              ELSE rec' = (IF Healthy THEN "done" ELSE "stop") /\ UNCHANGED override
  /\ UNCHANGED <<driver, module, screenVars, unit, hookVars, recTodo, recErrors, spoiled>>

RecoverStop ==
  /\ rec = "stop"
  /\ StopScreen
  /\ rec' = "restore" /\ recTodo' = Functions /\ recErrors' = FALSE
  /\ UNCHANGED <<gpuVars, unit, hookVars, spoiled>>

\* Mutant of RecoverFunction: what the function ended up bound to is not checked.
RecoverUnchecked(f) ==
  /\ rec = "restore" /\ f \in recTodo
  /\ recTodo' = recTodo \ {f}
  /\ override' = [override EXCEPT ![f] = FALSE]
  /\ module' = (module \/ f \in Nvidia)
  /\ \/ driver' = [driver EXCEPT ![f] = Original(f)]
     \/ "restore" \in Faults /\ driver' = [driver EXCEPT ![f] = "none"]
  /\ UNCHANGED <<screenVars, unit, hookVars, rec, recErrors, spoiled>>

\* _restore_device: it raises before the override is cleared when the function
\* cannot be unbound, and after it when the driver does not take the function.
RecoverFunction(f) ==
  /\ rec = "restore" /\ f \in recTodo
  /\ recTodo' = recTodo \ {f}
  /\ \/ /\ driver' = [driver EXCEPT ![f] = Original(f)]
        /\ override' = [override EXCEPT ![f] = FALSE]
        /\ module' = (module \/ f \in Nvidia)
        /\ UNCHANGED recErrors
     \/ /\ "restore" \in Faults /\ driver[f] = "vfio"
        /\ recErrors' = TRUE
        /\ UNCHANGED gpuVars
     \/ /\ "restore" \in Faults /\ f \in HadDriver /\ driver[f] # "host"
        /\ driver' = [driver EXCEPT ![f] = "none"]
        /\ override' = [override EXCEPT ![f] = FALSE]
        /\ module' \in {module, module \/ f \in Nvidia}
        /\ recErrors' = TRUE
  /\ UNCHANGED <<screenVars, unit, hookVars, rec, spoiled>>

\* With an error the display manager is left stopped.  Without one it is restarted, and
\* success is reported whether or not it came up (hooks.py:253-256).
RecoverDisplay ==
  /\ rec = "restore" /\ recTodo = {}
  /\ IF recErrors THEN rec' = "idle" /\ UNCHANGED <<screenVars, spoiled>>
                  ELSE rec' = "done" /\ RestartScreen /\ spoiled' = FALSE
  /\ UNCHANGED <<gpuVars, unit, hookVars, recTodo, recErrors>>

RecoverReturns ==
  /\ rec = "done"
  /\ rec' = "idle"
  /\ UNCHANGED <<gpuVars, screenVars, unit, hookVars, recTodo, recErrors, spoiled>>

-----------------------------------------------------------------------------

Hook(v) == \/ Mark(v) \/ StopDisplay(v) \/ Unbound(v) \/ Load(v) \/ Bound(v) \/ RestoreDisplay(v)
           \/ \E f \in Functions : Unbind(v, f) \/ Bind(v, f) \/ RestoreFunction(v, f)

Next == \/ \E v \in Vms : \/ Start(v) \/ Hook(v) \/ Kill(v) \/ Launch(v) \/ Release(v)
                          \/ ReleaseHooks(v) \/ RotationEnds(v) \/ Recover(v)
        \/ \E f \in Functions : RecoverFunction(f)
        \/ RecoverStop \/ RecoverDisplay \/ RecoverReturns

Spec == Init /\ [][Next]_vars

-----------------------------------------------------------------------------
(* Properties                                                              *)

\* Every variable stays within its type; a function that had no host driver is
\* never bound to one: the code does not guess (hooks.py:92-93).
TypeOK ==
  /\ driver \in [Functions -> {"host", "vfio", "none"}]
  /\ \A f \in Functions \ HadDriver : driver[f] # "host"
  /\ override \in [Functions -> BOOLEAN] /\ module \in BOOLEAN
  /\ display \in BOOLEAN /\ dark \in BOOLEAN
  /\ unit \in [Vms -> BOOLEAN]
  /\ stage \in [Vms -> Stages] /\ todo \in [Vms -> SUBSET Functions]
  /\ failed \in [Vms -> BOOLEAN]
  /\ rec \in {"idle", "stop", "restore", "done"} /\ recTodo \subseteq Functions
  /\ recErrors \in BOOLEAN /\ spoiled \in BOOLEAN

\* The host has its GPU, and its display if the display manager came up when it was
\* last restarted.
HostOwnsGpu == (display \/ dark) /\ \A f \in Functions : driver[f] = Original(f) /\ ~override[f]

\* From the committed handoff to its end a VM has every function of the GPU:
\* no partial handoff starts QEMU, and nothing takes a function back while it
\* runs (DEPLOYMENT.zh-TW.md:179: recover-display refuses to).
GuestOwnsGpu == \A v \in Vms : stage[v] \in {"launch", "up"} => \A f \in Functions : driver[f] = "vfio"

\* When the VMs are off and no command is at work the host has its GPU back, and its
\* display was restarted, wherever a start failed or was killed
\* (DEPLOYMENT.zh-TW.md:168-169), unless the restore of a function itself failed.
HostGetsGpuBack ==
  (\A v \in Vms : stage[v] = "off") /\ rec \in {"idle", "done"} /\ ~spoiled => HostOwnsGpu

\* The EXIT trap alone restores the host, before libvirt runs the release hook
\* (DEPLOYMENT.zh-TW.md:151-154).
RollbackRestores == \A v \in Vms : stage[v] = "failed" /\ ~spoiled => HostOwnsGpu

\* When recover-display reports success every function is bound to the driver it had
\* and none is claimed for vfio-pci, whatever state the failed or killed hooks had left;
\* and the display manager was restarted.  (That it came up is more than hooks.py:253-256
\* know: the last line they print may be untrue.)
RecoveryIsReal == rec = "done" => HostOwnsGpu

=============================================================================
