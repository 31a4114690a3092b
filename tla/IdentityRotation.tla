-------------------------- MODULE IdentityRotation --------------------------
(***************************************************************************)
(* The identity of one managed VM and every command that rewrites its      *)
(* libvirt definition (kvm_aavm/vm.py, state.py, hooks.py, cli.py).        *)
(*                                                                         *)
(* Four stores have to agree on the identity: libvirt's definition, the    *)
(* profile, the swtpm directory (named after the domain UUID) and the      *)
(* pending mark.  A command changes them one system call at a time, under  *)
(* the VM's flock; starting and stopping the VM, its hooks, the boot       *)
(* service and resume-vm do not take that lock.                            *)
(***************************************************************************)

CONSTANTS
  Procs,      \* concurrent invocations of the kvm-aavm command
  Uuids,      \* domain UUIDs; a rotation takes one that is nowhere in use
  Tpms,       \* TPM identities that swtpm may manufacture: bounds Launch
  Commands,   \* the commands the users of this instance type
  Faults,     \* what goes wrong in the environment of this instance
  NoUuid, NoTpm, NoProc

FaultKinds == {"defineFails", "recoveryFails", "renameFails", "kill", "crash", "startRace"}
CommandNames == {"randomize", "rebuild", "reconfigure", "cpuLayout", "recreate", "resume"}

ASSUME CommandsAssumption == Commands \subseteq CommandNames
ASSUME FaultsAssumption == Faults \subseteq FaultKinds
ASSUME NoValueAssumption == NoUuid \notin Uuids /\ NoTpm \notin Tpms /\ NoProc \notin Procs

VARIABLES
  domain,     \* UUID of libvirt's persistent definition, NoUuid: undefined
  vm,         \* what virsh domstate reports: "off", "starting", "running"
  running,    \* UUID of the active instance, NoUuid when off
  attached,   \* TPM identity the running guest talks to
  profile,    \* identity.domain_uuid in profile.json
  dynamic,    \* dynamic_randomization in the profile
  hooked,     \* the 05 hook is installed
  pending,    \* pending/NAME.json exists
  unit,       \* transient unit kvm-aavm-randomize-NAME: "none", "armed", "active"
  bootDue,    \* kvm-aavm-pending.service has not run since the last boot
  swtpm,      \* [Uuids -> TPM identity]: the directories under LIBVIRT_SWTPM_DIR
  markers,    \* TPM identities in *.kvm-aavm-migrating-* directories
  retired,    \* TPM identities in *.kvm-aavm-retired-* directories
  lock,       \* holder of vm_lock, NoProc: free
  pc, op,     \* of each command: where it is, what it is
  loaded,     \* the UUID in the profile it loaded
  old, new,   \* the UUIDs of the XML it dumped and of the XML it will define
  previous,   \* the UUID _replace_definition keeps for its recovery
  carried,    \* the TPM identity it moved (`migration' is not None)
  made,       \* history: the TPM identities manufactured so far
  sealed,     \* history: the TPM identity the guest's secrets are bound to
  booted      \* history: the UUIDs of a dynamic VM started under the hook

libvirtVars == <<domain, vm, running, attached>>
tpmVars     == <<swtpm, markers, retired, made, sealed>>
rotateVars  == <<pending, unit, bootDue>>
settingVars == <<dynamic, hooked>>
localVars   == <<op, loaded, old, new, previous, carried>>
vars == <<libvirtVars, profile, settingVars, rotateVars, tpmVars, lock, pc, localVars, booted>>

Labels == {"idle", "resave", "lock", "check", "dump", "moveOut", "moveIn", "undefine", "define",
           "recover", "rollback", "save", "clear", "retire", "create", "exit"}
Rotations == {"timer", "boot", "randomize"}   \* they all run randomize_xml
Operations == CommandNames \cup {"timer", "boot", "create", "none"}

-----------------------------------------------------------------------------
(* Helpers                                                                 *)

Known == domain # NoUuid \/ running # NoUuid        \* virsh dominfo NAME succeeds

\* Every UUID that is still written down somewhere; uuid4 never repeats one.
InUse == {domain, running, profile} \cup {u \in Uuids : swtpm[u] # NoTpm}
         \cup UNION {{loaded[p], old[p], new[p], previous[p]} : p \in Procs}

\* generate and rerandomize draw the new domain UUID from uuid4.
FreshUuids == Uuids \ InUse

\* The commands that write the XML anew from the profile, with its UUID: the
\* stages, passthrough, guest security, TPM and CPU settings; resume-vm.
FromProfile == {"reconfigure", "cpuLayout", "resume"}

\* virsh define refuses a second UUID for a name libvirt already knows.
CanDefine(u) == domain \in {NoUuid, u} /\ running \in {NoUuid, u}

Step(p, label) == pc' = [pc EXCEPT ![p] = label] /\ UNCHANGED lock

\* Mutant of Finish: the lock outlives the command that took it.
FinishKeepingLock(p) ==
  /\ pc' = [pc EXCEPT ![p] = "exit"]
  /\ loaded' = [loaded EXCEPT ![p] = NoUuid] /\ old' = [old EXCEPT ![p] = NoUuid]
  /\ new' = [new EXCEPT ![p] = NoUuid] /\ previous' = [previous EXCEPT ![p] = NoUuid]
  /\ carried' = [carried EXCEPT ![p] = NoTpm]
  /\ UNCHANGED <<op, lock>>

\* The with-statement of vm_lock ends, by return or by exception.
Finish(p) == /\ pc' = [pc EXCEPT ![p] = "exit"]
             /\ lock' = IF lock = p THEN NoProc ELSE lock
             /\ loaded' = [loaded EXCEPT ![p] = NoUuid]
             /\ old' = [old EXCEPT ![p] = NoUuid]
             /\ new' = [new EXCEPT ![p] = NoUuid]
             /\ previous' = [previous EXCEPT ![p] = NoUuid]
             /\ carried' = [carried EXCEPT ![p] = NoTpm]
             /\ UNCHANGED op

\* Nobody starts the VM while a command holds its lock, unless "startRace".
MayStart == "startRace" \in Faults \/ lock = NoProc

\* The 05 hook on release:end; systemd-run refuses a unit that is loaded.
ScheduleRotation == unit' = IF hooked /\ unit = "none" THEN "armed" ELSE unit

Init ==
  \E u \in Uuids :
    /\ domain = u /\ profile = u
    /\ vm = "off" /\ running = NoUuid /\ attached = NoTpm
    /\ dynamic \in BOOLEAN /\ hooked = dynamic
    /\ pending = FALSE /\ unit = "none" /\ bootDue = FALSE
    /\ swtpm = [v \in Uuids |-> NoTpm]
    /\ markers = {} /\ retired = {} /\ made = {} /\ sealed = NoTpm
    /\ lock = NoProc
    /\ pc = [p \in Procs |-> "idle"]
    /\ op = [p \in Procs |-> "none"]
    /\ loaded = [p \in Procs |-> NoUuid]
    /\ old = [p \in Procs |-> NoUuid]
    /\ new = [p \in Procs |-> NoUuid]
    /\ previous = [p \in Procs |-> NoUuid]
    /\ carried = [p \in Procs |-> NoTpm]
    /\ booted = {}

-----------------------------------------------------------------------------
(* How a command begins: the CLI, the timer unit, the boot service         *)

Begin(p, o, label) == /\ pc[p] = "idle"
                      /\ op' = [op EXCEPT ![p] = o]
                      /\ Step(p, label)

Invoke(p) ==
  /\ \E c \in Commands \ {"resume"} : Begin(p, c, "lock")
  /\ UNCHANGED <<libvirtVars, profile, settingVars, rotateVars, tpmVars, booted,
                 loaded, old, new, previous, carried>>

\* resume_vm reads the profile and works without the lock; for a domain that
\* is gone it calls create_vm, which does take it.
ResumeVm(p) ==
  /\ "resume" \in Commands
  /\ IF Known THEN Begin(p, "resume", "check") ELSE Begin(p, "create", "resave")
  /\ loaded' = [loaded EXCEPT ![p] = profile]
  /\ UNCHANGED <<libvirtVars, profile, settingVars, rotateVars, tpmVars, booted,
                 old, new, previous, carried>>

\* save_profile before create_vm, without the lock as well.
ResumeSaves(p) ==
  /\ pc[p] = "resave"
  /\ profile' = loaded[p]
  /\ Step(p, "lock") /\ UNCHANGED localVars
  /\ UNCHANGED <<libvirtVars, settingVars, rotateVars, tpmVars, booted>>

TimerFires(p) ==
  /\ unit = "armed"
  /\ unit' = "active"
  /\ Begin(p, "timer", "lock")
  /\ UNCHANGED <<libvirtVars, profile, settingVars, pending, bootDue, tpmVars, booted,
                 loaded, old, new, previous, carried>>

\* Mutant of BootService: the mark is cleared before the rotation has worked.
BootServiceClearsFirst(p) ==
  /\ bootDue
  /\ bootDue' = FALSE
  /\ pending' = FALSE
  /\ IF pending /\ dynamic THEN Begin(p, "boot", "lock")
                           ELSE pc[p] = "idle" /\ UNCHANGED <<pc, op, lock>>
  /\ UNCHANGED <<libvirtVars, profile, settingVars, unit, tpmVars, booted,
                 loaded, old, new, previous, carried>>

\* randomize_pending: rotate, or drop the mark of a VM that is not dynamic.
BootService(p) ==
  /\ bootDue
  /\ bootDue' = FALSE
  /\ pending' = (pending /\ dynamic)
  /\ IF pending /\ dynamic THEN Begin(p, "boot", "lock")
                           ELSE pc[p] = "idle" /\ UNCHANGED <<pc, op, lock>>
  /\ UNCHANGED <<libvirtVars, profile, settingVars, unit, tpmVars, booted,
                 loaded, old, new, previous, carried>>

\* set_dynamic, under the lock.  The rotations an earlier setting promised are
\* forgotten with it.
SetDynamic ==
  /\ lock = NoProc
  /\ dynamic' = ~dynamic
  /\ booted' = IF dynamic THEN {} ELSE booted
  /\ UNCHANGED <<libvirtVars, profile, hooked, rotateVars, tpmVars, lock, pc, localVars>>

\* The same command installs or removes the hook, unless it was killed in between;
\* then the next one does.
SetHook ==
  /\ hooked # dynamic
  /\ hooked' = dynamic
  /\ UNCHANGED <<libvirtVars, profile, dynamic, rotateVars, tpmVars, lock, pc, localVars, booted>>

-----------------------------------------------------------------------------
(* The body of a command                                                   *)

Acquire(p) ==
  /\ pc[p] = "lock" /\ lock = NoProc
  /\ lock' = p
  /\ loaded' = [loaded EXCEPT ![p] = IF op[p] = "create" THEN @ ELSE profile]
  /\ pc' = [pc EXCEPT ![p] = CASE op[p] = "create"    -> "create"
                               [] op[p] = "cpuLayout" -> "dump"   \* no _ensure_inactive
                               [] OTHER               -> "check"]
  /\ UNCHANGED <<libvirtVars, profile, settingVars, rotateVars, tpmVars, booted,
                 op, old, new, previous, carried>>

\* Mutant of EnsureInactive: the domain's state is not looked at.
EnsureNothing(p) ==
  /\ pc[p] = "check"
  /\ Step(p, "dump") /\ UNCHANGED localVars
  /\ UNCHANGED <<libvirtVars, profile, settingVars, rotateVars, tpmVars, booted>>

EnsureInactive(p) ==
  /\ pc[p] = "check"
  /\ \/ vm = "off" /\ Step(p, "dump") /\ UNCHANGED localVars
     \/ vm # "off" /\ Finish(p)
  /\ UNCHANGED <<libvirtVars, profile, settingVars, rotateVars, tpmVars, booted>>

\* _dump_xml, then the XML the command wants: a rotation takes a fresh UUID,
\* a rebuild keeps the dumped one (or pins the profile's, guest_secure_boot),
\* everything else builds the domain from the profile.
DumpXml(p) ==
  /\ pc[p] = "dump" /\ Known
  /\ old' = [old EXCEPT ![p] = IF domain # NoUuid THEN domain ELSE running]
  /\ \/ /\ op[p] \in Rotations
        /\ \E u \in FreshUuids : /\ new' = [new EXCEPT ![p] = u]
                                 /\ booted' = booted \cap InUse
        /\ Step(p, "moveOut")
     \/ /\ op[p] = "rebuild"
        /\ \E u \in {old'[p], loaded[p]} : new' = [new EXCEPT ![p] = u]
        /\ Step(p, "undefine") /\ UNCHANGED booted
     \/ /\ op[p] \in FromProfile
        /\ new' = [new EXCEPT ![p] = loaded[p]]
        /\ Step(p, "undefine") /\ UNCHANGED booted
     \/ /\ op[p] = "recreate"
        /\ Step(p, "retire") /\ UNCHANGED <<new, booted>>
  /\ UNCHANGED <<libvirtVars, profile, settingVars, rotateVars, tpmVars, op, loaded,
                 previous, carried>>

DumpFails(p) ==
  /\ pc[p] = "dump" /\ ~Known
  /\ Finish(p)
  /\ UNCHANGED <<libvirtVars, profile, settingVars, rotateVars, tpmVars, booted>>

\* _migrate_tpm_state_for_uuid, first rename.  new_root never exists: new[p]
\* is fresh.
MoveOut(p) ==
  /\ pc[p] = "moveOut"
  /\ \/ /\ swtpm[old[p]] = NoTpm
        /\ Step(p, "undefine") /\ UNCHANGED <<localVars, swtpm, markers>>
     \/ /\ swtpm[old[p]] # NoTpm /\ swtpm[new[p]] = NoTpm
        /\ swtpm' = [swtpm EXCEPT ![old[p]] = NoTpm]
        /\ markers' = markers \cup {swtpm[old[p]]}
        /\ carried' = [carried EXCEPT ![p] = swtpm[old[p]]]
        /\ Step(p, "moveIn") /\ UNCHANGED <<op, loaded, old, new, previous>>
     \/ /\ "renameFails" \in Faults /\ swtpm[old[p]] # NoTpm
        /\ Finish(p) /\ UNCHANGED <<swtpm, markers>>
  /\ UNCHANGED <<libvirtVars, profile, settingVars, rotateVars, retired, made, sealed, booted>>

\* Mutant of MoveIn: a failed rename removes the marker instead of taking it back.
MoveInCleansUp(p) ==
  /\ pc[p] = "moveIn"
  /\ \/ /\ swtpm' = [swtpm EXCEPT ![new[p]] = carried[p]]
        /\ Step(p, "undefine") /\ UNCHANGED localVars
     \/ "renameFails" \in Faults /\ Finish(p) /\ UNCHANGED swtpm
  /\ markers' = markers \ {carried[p]}
  /\ UNCHANGED <<libvirtVars, profile, settingVars, rotateVars, retired, made, sealed, booted>>

\* The second rename; when it fails the first one is taken back, if that works.
MoveIn(p) ==
  /\ pc[p] = "moveIn"
  /\ \/ /\ swtpm[new[p]] = NoTpm
        /\ swtpm' = [swtpm EXCEPT ![new[p]] = carried[p]]
        /\ markers' = markers \ {carried[p]}
        /\ Step(p, "undefine") /\ UNCHANGED localVars
     \/ /\ "renameFails" \in Faults /\ swtpm[old[p]] = NoTpm
        /\ swtpm' = [swtpm EXCEPT ![old[p]] = carried[p]]
        /\ markers' = markers \ {carried[p]}
        /\ Finish(p)
     \/ /\ "renameFails" \in Faults
        /\ Finish(p) /\ UNCHANGED <<swtpm, markers>>
  /\ UNCHANGED <<libvirtVars, profile, settingVars, rotateVars, retired, made, sealed, booted>>

\* _replace_definition up to virsh undefine; a transient domain has nothing
\* to undefine, and virt-xml-validate may refuse the new XML.
Undefine(p) ==
  /\ pc[p] = "undefine"
  /\ \/ /\ domain # NoUuid
        /\ previous' = [previous EXCEPT ![p] = domain]
        /\ domain' = NoUuid
        /\ Step(p, "define")
     \/ /\ domain = NoUuid \/ "defineFails" \in Faults
        /\ Step(p, "rollback") /\ UNCHANGED <<domain, previous>>
  /\ UNCHANGED <<vm, running, attached, profile, settingVars, rotateVars, tpmVars, booted,
                 op, loaded, old, new, carried>>

Define(p) ==
  /\ pc[p] = "define"
  /\ \/ CanDefine(new[p]) /\ domain' = new[p] /\ Step(p, "save")
     \/ /\ ~CanDefine(new[p]) \/ "defineFails" \in Faults
        /\ Step(p, "recover") /\ UNCHANGED domain
  /\ UNCHANGED <<vm, running, attached, profile, settingVars, rotateVars, tpmVars, localVars,
                 booted>>

\* Mutant of Recover: the previous XML is not defined again.
RecoverNothing(p) ==
  /\ pc[p] = "recover"
  /\ Step(p, "rollback")
  /\ UNCHANGED <<libvirtVars, profile, settingVars, rotateVars, tpmVars, localVars, booted>>

\* virsh define of the recovery XML runs with check=False: a failure is silent.
Recover(p) ==
  /\ pc[p] = "recover"
  /\ \/ CanDefine(previous[p]) /\ domain' = previous[p]
     \/ ~CanDefine(previous[p]) /\ UNCHANGED domain
     \/ "recoveryFails" \in Faults /\ UNCHANGED domain
  /\ Step(p, "rollback")
  /\ UNCHANGED <<vm, running, attached, profile, settingVars, rotateVars, tpmVars, localVars,
                 booted>>

\* Mutant of Rollback: without a domain there is nothing to roll back for.
RollbackIfDefined(p) ==
  /\ pc[p] = "rollback"
  /\ IF carried[p] # NoTpm /\ swtpm[new[p]] # NoTpm /\ swtpm[old[p]] = NoTpm /\ Known
       THEN \/ swtpm' = [swtpm EXCEPT ![old[p]] = swtpm[new[p]], ![new[p]] = NoTpm]
            \/ "renameFails" \in Faults /\ UNCHANGED swtpm
       ELSE UNCHANGED swtpm
  /\ Finish(p)
  /\ UNCHANGED <<libvirtVars, profile, settingVars, rotateVars, markers, retired, made, sealed,
                 booted>>

\* Mutant of Rollback: the TPM stays under the UUID that was refused.
RollbackNothing(p) ==
  /\ pc[p] = "rollback"
  /\ Finish(p)
  /\ UNCHANGED <<libvirtVars, profile, settingVars, rotateVars, tpmVars, booted>>

\* _rollback_tpm_state_migration: nothing to do without a migration, refused
\* when the old directory is back.
Rollback(p) ==
  /\ pc[p] = "rollback"
  /\ IF carried[p] # NoTpm /\ swtpm[new[p]] # NoTpm /\ swtpm[old[p]] = NoTpm
       THEN \/ swtpm' = [swtpm EXCEPT ![old[p]] = swtpm[new[p]], ![new[p]] = NoTpm]
            \/ "renameFails" \in Faults /\ UNCHANGED swtpm
       ELSE UNCHANGED swtpm
  /\ Finish(p)
  /\ UNCHANGED <<libvirtVars, profile, settingVars, rotateVars, markers, retired, made, sealed,
                 booted>>

\* Mutant of SaveProfile: the profile as loaded is saved, not the updated one.
SaveProfileLoaded(p) ==
  /\ pc[p] = "save"
  /\ profile' = loaded[p]
  /\ IF op[p] \in Rotations \cup {"rebuild"}
       THEN Step(p, "clear") /\ UNCHANGED localVars
       ELSE Finish(p)
  /\ UNCHANGED <<libvirtVars, settingVars, rotateVars, tpmVars, booted>>

\* save_profile; only a rotation changes the identity the command loaded.
SaveProfile(p) ==
  /\ pc[p] = "save"
  /\ profile' = IF op[p] \in Rotations THEN new[p] ELSE loaded[p]
  /\ IF op[p] \in Rotations \cup {"rebuild"}
       THEN Step(p, "clear") /\ UNCHANGED localVars
       ELSE Finish(p)
  /\ UNCHANGED <<libvirtVars, settingVars, rotateVars, tpmVars, booted>>

ClearPending(p) ==
  /\ pc[p] = "clear"
  /\ pending' = FALSE
  /\ Finish(p)
  /\ UNCHANGED <<libvirtVars, profile, settingVars, unit, bootDue, tpmVars, booted>>

\* recreate_tpm: the operator asked for a new TPM identity.
RetireTpm(p) ==
  /\ pc[p] = "retire"
  /\ swtpm' = [swtpm EXCEPT ![old[p]] = NoTpm]
  /\ retired' = retired \cup ({swtpm[old[p]]} \ {NoTpm})
  /\ sealed' = NoTpm
  /\ Finish(p)
  /\ UNCHANGED <<libvirtVars, profile, settingVars, rotateVars, markers, made, booted>>

\* create_vm for a profile whose domain was gone when resume_vm looked.
CreateVm(p) ==
  /\ pc[p] = "create"
  /\ IF Known THEN UNCHANGED <<domain, profile>>
              ELSE /\ profile' = loaded[p]
                   /\ \/ domain' = loaded[p]
                      \/ "defineFails" \in Faults /\ UNCHANGED domain
  /\ Finish(p)
  /\ UNCHANGED <<vm, running, attached, settingVars, rotateVars, tpmVars, booted>>

\* Mutant of Exit: without --collect a finished unit stays loaded as failed.
ExitUncollected(p) ==
  /\ pc[p] = "exit"
  /\ op' = [op EXCEPT ![p] = "none"]
  /\ unit' = IF op[p] = "timer" THEN "failed" ELSE unit
  /\ Step(p, "idle")
  /\ UNCHANGED <<libvirtVars, profile, settingVars, pending, bootDue, tpmVars, booted,
                 loaded, old, new, previous, carried>>

\* The process is gone; a transient unit is unloaded with it (--collect).
Exit(p) ==
  /\ pc[p] = "exit"
  /\ op' = [op EXCEPT ![p] = "none"]
  /\ unit' = IF op[p] = "timer" THEN "none" ELSE unit
  /\ Step(p, "idle")
  /\ UNCHANGED <<libvirtVars, profile, settingVars, pending, bootDue, tpmVars, booted,
                 loaded, old, new, previous, carried>>

Kill(p) ==
  /\ "kill" \in Faults /\ pc[p] \notin {"idle", "exit"}
  /\ Finish(p)
  /\ UNCHANGED <<libvirtVars, profile, settingVars, rotateVars, tpmVars, booted>>

-----------------------------------------------------------------------------
(* The virtual machine, libvirt's hooks and the host                       *)

\* virsh start: the domain is active before the prepare hook marks it.
Start ==
  /\ vm = "off" /\ domain # NoUuid /\ MayStart
  /\ vm' = "starting" /\ running' = domain
  /\ pending' = (pending \/ hooked)
  /\ booted' = IF dynamic /\ hooked THEN booted \cup {domain} ELSE booted
  /\ UNCHANGED <<domain, attached, profile, settingVars, unit, bootDue, tpmVars, lock, pc,
                 localVars>>

\* libvirt starts swtpm on the directory of the UUID, or manufactures one.
Launch ==
  /\ vm = "starting"
  /\ vm' = "running"
  /\ \/ /\ swtpm[running] # NoTpm
        /\ attached' = swtpm[running]
        /\ UNCHANGED <<swtpm, made>>
     \/ /\ swtpm[running] = NoTpm
        /\ \E t \in Tpms \ made : /\ attached' = t
                                  /\ swtpm' = [swtpm EXCEPT ![running] = t]
                                  /\ made' = made \cup {t}
  /\ sealed' = IF sealed = NoTpm THEN attached' ELSE sealed
  /\ UNCHANGED <<domain, running, profile, settingVars, rotateVars, markers, retired, lock, pc,
                 localVars, booted>>

\* A shutdown, or a start that fails; both end in the release hook.
Stop ==
  /\ vm # "off"
  /\ vm' = "off" /\ running' = NoUuid /\ attached' = NoTpm
  /\ ScheduleRotation
  /\ UNCHANGED <<domain, profile, settingVars, pending, bootDue, tpmVars, lock, pc, localVars,
                 booted>>

\* Power loss: files survive, processes, the VM and transient units do not.
Crash ==
  /\ "crash" \in Faults
  /\ vm' = "off" /\ running' = NoUuid /\ attached' = NoTpm
  /\ unit' = "none" /\ bootDue' = TRUE
  /\ lock' = NoProc
  /\ pc' = [p \in Procs |-> "idle"]
  /\ op' = [p \in Procs |-> "none"]
  /\ loaded' = [p \in Procs |-> NoUuid]
  /\ old' = [p \in Procs |-> NoUuid]
  /\ new' = [p \in Procs |-> NoUuid]
  /\ previous' = [p \in Procs |-> NoUuid]
  /\ carried' = [p \in Procs |-> NoTpm]
  /\ UNCHANGED <<domain, profile, settingVars, pending, tpmVars, booted>>

-----------------------------------------------------------------------------

Body(p) == \/ ResumeSaves(p) \/ EnsureInactive(p) \/ DumpXml(p) \/ DumpFails(p)
           \/ MoveOut(p) \/ MoveIn(p) \/ Undefine(p) \/ Define(p) \/ Recover(p) \/ Rollback(p)
           \/ SaveProfile(p) \/ ClearPending(p) \/ RetireTpm(p) \/ CreateVm(p) \/ Exit(p)

Next == \/ \E p \in Procs : \/ Invoke(p) \/ ResumeVm(p) \/ TimerFires(p) \/ BootService(p)
                            \/ Acquire(p) \/ Body(p) \/ Kill(p)
        \/ SetDynamic \/ SetHook \/ Start \/ Launch \/ Stop \/ Crash

Spec == Init /\ [][Next]_vars

\* A command that holds the lock goes on; flock wakes its waiters in order;
\* systemd fires an armed timer and runs the boot service whatever else runs.
FairSpec == /\ Spec
            /\ \A p \in Procs : WF_vars(Body(p)) /\ SF_vars(Acquire(p))
            /\ SF_vars(\E p \in Procs : TimerFires(p))
            /\ SF_vars(\E p \in Procs : BootService(p))

-----------------------------------------------------------------------------
(* Type invariant                                                          *)

\* Every variable stays within its type: what TLC and the proofs start from.
TypeOK ==
  /\ domain \in Uuids \cup {NoUuid} /\ running \in Uuids \cup {NoUuid} /\ profile \in Uuids
  /\ vm \in {"off", "starting", "running"}
  /\ attached \in Tpms \cup {NoTpm} /\ sealed \in Tpms \cup {NoTpm}
  /\ dynamic \in BOOLEAN /\ hooked \in BOOLEAN /\ pending \in BOOLEAN /\ bootDue \in BOOLEAN
  /\ unit \in {"none", "armed", "active"}
  /\ swtpm \in [Uuids -> Tpms \cup {NoTpm}]
  /\ markers \subseteq Tpms /\ retired \subseteq Tpms /\ made \subseteq Tpms
  /\ booted \subseteq Uuids
  /\ lock \in Procs \cup {NoProc}
  /\ pc \in [Procs -> Labels] /\ op \in [Procs -> Operations]
  /\ loaded \in [Procs -> Uuids \cup {NoUuid}] /\ old \in [Procs -> Uuids \cup {NoUuid}]
  /\ new \in [Procs -> Uuids \cup {NoUuid}] /\ previous \in [Procs -> Uuids \cup {NoUuid}]
  /\ carried \in [Procs -> Tpms \cup {NoTpm}]

-----------------------------------------------------------------------------
(* Safety                                                                  *)

\* No manufactured TPM identity is ever destroyed or duplicated: each lies in
\* exactly one swtpm, migrating or retired directory, whatever fails between
\* the two renames of _migrate_tpm_state_for_uuid, in the rollback or in
\* recreate_tpm.  (The copy that recreate_tpm leaves in BACKUP_DIR is never
\* read by the program and is left out.)
TpmConserved ==
  /\ made = ({swtpm[u] : u \in Uuids} \ {NoTpm}) \cup markers \cup retired
  /\ markers \cap retired = {}
  /\ \A u \in Uuids : swtpm[u] \notin markers \cup retired
  /\ \A u, v \in Uuids : swtpm[u] # NoTpm /\ swtpm[u] = swtpm[v] => u = v

\* A running guest talks to the TPM its secrets are sealed to: no sequence of
\* rotations, redefinitions and failed definitions makes libvirt manufacture a
\* new one silently (DEPLOYMENT.zh-TW.md:234-236).
GuestKeepsTpm == vm = "running" => attached = sealed

\* While an identity that the VM was started under is still defined, the
\* pending mark is on disk, so that the boot service can make up for a timer
\* that a power loss took away (DEPLOYMENT.zh-TW.md:230-231).
OwedIsPending == dynamic /\ domain \in booted => pending

\* Weaker: a mark on disk or at least a transient unit remembers the rotation.
OwedIsRemembered == dynamic /\ domain \in booted => pending \/ unit # "none"

\* No command is between its first and its last system call.
Quiescent == \A p \in Procs : pc[p] \in {"idle", "lock", "exit"}

\* Between commands the profile and libvirt name the same UUID: the next
\* command that rebuilds the domain from the profile does not change it.  Only a
\* host where the recovery of a refused definition fails too may lose the domain.
ProfileMatchesDomain ==
  Quiescent => domain = profile \/ ("recoveryFails" \in Faults /\ domain = NoUuid)

\* Between commands the VM is defined: _replace_definition undefines it first,
\* and no failure after that may leave it undefined.
DomainSurvives == Quiescent => Known

\* Between commands the TPM that the guest is sealed to lies under the UUID in the
\* profile, also when libvirt refused the new definition and then the previous one
\* (check=False, vm.py:1615) and the domain is gone: the profile is all it takes to
\* define the VM again with its TPM.
TpmFollowsProfile == Quiescent => swtpm[profile] = sealed

\* The rotations, seen through the committed identity, do nothing but what
\* VmIdentity allows: UUID and TPM change together or not at all.
Promise == INSTANCE VmIdentity WITH uuid <- profile, bound <- sealed
PromiseKept == Promise!Spec

-----------------------------------------------------------------------------
(* Liveness                                                                *)

\* A rotation scheduled at shutdown is carried out, however the lock is
\* contended, unless the VM is started first or the rotations are disabled.
RotationCompletes ==
  (unit = "armed" /\ vm = "off" /\ profile \in booted)
     ~> (vm # "off" \/ profile \notin booted)

=============================================================================
