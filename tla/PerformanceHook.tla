-------------------------- MODULE PerformanceHook --------------------------
(***************************************************************************)
(* 10-host-performance (hooks.py, install_performance_hook): the cpufreq   *)
(* files of the host are set to `performance' while any managed VM runs    *)
(* and get their values back when the last one has stopped.                *)
(*                                                                         *)
(* libvirt calls the hook of one VM at prepare:begin, stopped:end and      *)
(* release:end, in this order even when the start fails; the hooks of      *)
(* different VMs run at the same time and meet in a flock.                 *)
(***************************************************************************)

CONSTANTS
  Vms,          \* managed VMs with the hook installed
  Files,        \* scaling_governor and energy_performance_preference files
  Settings,     \* values the administrator gives them
  Performance,  \* the value the hook writes
  Kills,        \* whether a prepare hook may be killed in this instance
  Refusals,     \* whether the kernel may refuse a write, which the hook ignores
  NoVm, Absent

ASSUME PerformanceAssumption == Performance \in Settings
ASSUME KillsAssumption == Kills \in BOOLEAN /\ Refusals \in BOOLEAN
ASSUME NoValueAssumption == NoVm \notin Vms /\ Absent \notin [Files -> Settings]

VARIABLES
  stage,     \* [Vms -> where libvirt and the hook of the VM are]
  lock,      \* holder of flock 9 on STATE/lock, NoVm: free
  active,    \* the VMs with a marker STATE/active-NAME
  saved,     \* STATE/saved: a value for each file, or Absent
  files,     \* the cpufreq files
  todo,      \* the files the loop of the running hook has not reached
  chosen,    \* history: what the administrator last wrote without the hook
  missed,    \* history: the files that refused `performance' when it was last written
  lost       \* history: those that refused their own value, since it was chosen

refused == <<missed, lost>>
vars == <<stage, lock, active, saved, files, todo, chosen, refused>>

Activating   == {"aSave", "aTouch", "aWrite"}
Deactivating == {"sRemove", "sRestore", "rRemove", "rRestore"}
Stages == {"off", "aLock", "up", "failed", "sLock", "stopped", "rLock"} \cup Activating \cup Deactivating

Init == /\ stage = [v \in Vms |-> "off"]
        /\ lock = NoVm /\ active = {} /\ saved = Absent /\ todo = {}
        /\ files \in [Files -> Settings]
        /\ chosen = files
        /\ missed = {} /\ lost = {}

Go(v, s) == stage' = [stage EXCEPT ![v] = s]

-----------------------------------------------------------------------------
(* libvirt                                                                 *)

\* prepare:begin, stopped:end and release:end start a process that waits for
\* the flock.  A guest that ends and a start that fails both go to sLock.
CallHook(v) ==
  /\ \/ stage[v] = "off" /\ Go(v, "aLock")
     \/ stage[v] \in {"up", "failed"} /\ Go(v, "sLock")
     \/ stage[v] = "stopped" /\ Go(v, "rLock")
  /\ UNCHANGED <<lock, active, saved, files, todo, chosen, refused>>

\* The dispatcher (set -e) stops at the first hook that fails: 05-dynamic-
\* randomization runs before this one at prepare:begin and at release:end.
SkipHook(v) ==
  /\ \/ stage[v] = "off" /\ Go(v, "failed")
     \/ stage[v] = "stopped" /\ Go(v, "off")
  /\ UNCHANGED <<lock, active, saved, files, todo, chosen, refused>>

\* The administrator changes a file of the idle host.
Choose(f) ==
  /\ \A v \in Vms : stage[v] = "off"
  /\ \E x \in Settings : files' = [files EXCEPT ![f] = x]
  /\ chosen' = files' /\ lost' = lost \ {f}
  /\ UNCHANGED <<stage, lock, active, saved, todo, missed>>

-----------------------------------------------------------------------------
(* The hook                                                                *)

\* Mutant of Flock: it does not wait.
NoFlock(v) ==
  /\ \/ stage[v] = "aLock" /\ Go(v, "aSave")
     \/ stage[v] = "sLock" /\ Go(v, "sRemove")
     \/ stage[v] = "rLock" /\ Go(v, "rRemove")
  /\ lock' = v
  /\ UNCHANGED <<active, saved, files, todo, chosen, refused>>

Flock(v) ==
  /\ lock = NoVm
  /\ \/ stage[v] = "aLock" /\ Go(v, "aSave")
     \/ stage[v] = "sLock" /\ Go(v, "sRemove")
     \/ stage[v] = "rLock" /\ Go(v, "rRemove")
  /\ lock' = v
  /\ UNCHANGED <<active, saved, files, todo, chosen, refused>>

\* Mutant of Save: every activation saves, not only the first.
SaveAlways(v) ==
  /\ stage[v] = "aSave"
  /\ saved' = files
  /\ Go(v, "aTouch")
  /\ UNCHANGED <<lock, active, files, todo, chosen, refused>>

\* Mutant of Save: it writes saved in place, and may be killed half-way.
SaveTorn(v) ==
  /\ stage[v] = "aSave"
  /\ \/ saved' = (IF active = {} THEN files ELSE saved) /\ Go(v, "aTouch") /\ UNCHANGED lock
     \/ /\ Kills /\ active = {}
        /\ \E F \in SUBSET Files : saved' = [f \in F |-> files[f]]
        /\ Go(v, "failed") /\ lock' = NoVm
  /\ UNCHANGED <<active, files, todo, chosen, refused>>

\* The first activation saves: saved.new is complete before it becomes saved.
Save(v) ==
  /\ stage[v] = "aSave"
  /\ saved' = IF active = {} THEN files ELSE saved
  /\ Go(v, "aTouch")
  /\ UNCHANGED <<lock, active, files, todo, chosen, refused>>

Touch(v) ==
  /\ stage[v] = "aTouch"
  /\ active' = active \cup {v}
  /\ todo' = Files
  /\ Go(v, "aWrite")
  /\ UNCHANGED <<lock, saved, files, chosen, refused>>

\* One file of the two loops of activate; the hook ends with the last one.
Write(v) ==
  /\ stage[v] = "aWrite"
  /\ \/ /\ \E f \in todo :
             /\ todo' = todo \ {f}
             /\ \/ files' = [files EXCEPT ![f] = Performance] /\ missed' = missed \ {f}
                \/ /\ Refusals /\ files[f] # Performance
                   /\ missed' = missed \cup {f} /\ UNCHANGED files
        /\ UNCHANGED <<stage, lock>>
     \/ todo = {} /\ Go(v, "up") /\ lock' = NoVm /\ UNCHANGED <<files, todo, missed>>
  /\ UNCHANGED <<active, saved, chosen, lost>>

\* Mutant of Remove: the markers of the other VMs are not looked at.
RemoveAndRestore(v) ==
  /\ stage[v] \in {"sRemove", "rRemove"}
  /\ active' = active \ {v}
  /\ IF saved # Absent
       THEN todo' = Files /\ Go(v, IF stage[v] = "sRemove" THEN "sRestore" ELSE "rRestore")
            /\ UNCHANGED lock
       ELSE Go(v, IF stage[v] = "sRemove" THEN "stopped" ELSE "off") /\ lock' = NoVm
            /\ UNCHANGED todo
  /\ UNCHANGED <<saved, files, chosen, refused>>

\* deactivate: the marker goes; without another one the values are restored.
Remove(v) ==
  /\ stage[v] \in {"sRemove", "rRemove"}
  /\ active' = active \ {v}
  /\ IF active' = {} /\ saved # Absent
       THEN todo' = Files /\ Go(v, IF stage[v] = "sRemove" THEN "sRestore" ELSE "rRestore")
            /\ UNCHANGED lock
       ELSE Go(v, IF stage[v] = "sRemove" THEN "stopped" ELSE "off") /\ lock' = NoVm
            /\ UNCHANGED todo
  /\ UNCHANGED <<saved, files, chosen, refused>>

\* One line of saved; after the last one saved is removed.
Restore(v) ==
  /\ stage[v] \in {"sRestore", "rRestore"}
  /\ \/ /\ \E f \in todo :
             /\ todo' = todo \ {f}
             /\ \/ files' = [files EXCEPT ![f] = saved[f]] /\ UNCHANGED lost
                \/ /\ Refusals /\ files[f] # saved[f]
                   /\ lost' = lost \cup {f} /\ UNCHANGED files
        /\ UNCHANGED <<stage, lock, saved>>
     \/ /\ todo = {}
        /\ saved' = Absent
        /\ Go(v, IF stage[v] = "sRestore" THEN "stopped" ELSE "off")
        /\ lock' = NoVm
        /\ UNCHANGED <<files, todo, lost>>
  /\ UNCHANGED <<active, chosen, missed>>

\* A signal ends the hook and with it the flock.  A killed prepare hook fails
\* the start, which libvirt cleans up through stopped:end and release:end.
Kill(v) ==
  /\ Kills /\ stage[v] \in Activating /\ Go(v, "failed")
  /\ lock' = NoVm /\ todo' = {}
  /\ UNCHANGED <<active, saved, files, chosen, refused>>

Hook(v) == Flock(v) \/ Save(v) \/ Touch(v) \/ Write(v) \/ Remove(v) \/ Restore(v)

Next == \/ \E v \in Vms : CallHook(v) \/ SkipHook(v) \/ Hook(v) \/ Kill(v)
        \/ \E f \in Files : Choose(f)

Spec == Init /\ [][Next]_vars

-----------------------------------------------------------------------------
(* Properties                                                              *)

\* Every variable stays within its type.
TypeOK ==
  /\ stage \in [Vms -> Stages]
  /\ lock \in Vms \cup {NoVm} /\ active \subseteq Vms
  /\ saved \in [Files -> Settings] \cup {Absent}
  /\ files \in [Files -> Settings] /\ chosen \in [Files -> Settings]
  /\ todo \subseteq Files /\ missed \subseteq Files /\ lost \subseteq Files

\* While a VM runs all files say `performance' but for those that refused it: no hook
\* of another VM restores them early (DEPLOYMENT.zh-TW.md:100-104).
NeverRestoredEarly ==
  \A v \in Vms : stage[v] = "up" => \A f \in Files \ missed : files[f] = Performance

\* With no marker and no hook at work every file says what the administrator chose,
\* however the hooks of several VMs overlapped or were killed.  (A file that refused its
\* value is left, hooks.py:324; the next activation takes what it says for chosen.)
RestoredAtRest == lock = NoVm /\ active = {} => \A f \in Files \ lost : files[f] = chosen[f]

\* The saved values are the administrator's, never the hook's own.
SavedIsChosen == saved # Absent => \A f \in Files \ lost : saved[f] = chosen[f]

=============================================================================
