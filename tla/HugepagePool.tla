---------------------------- MODULE HugepagePool ----------------------------
(***************************************************************************)
(* configure_hugepages and the tail of purge_vm (kvm_aavm/vm.py): one      *)
(* kernel pool of 2 MiB pages and one sysctl.d file serve all managed VMs, *)
(* but a command holds only the flock of its own VM while it adds up what  *)
(* the profiles of the others ask for.                                     *)
(***************************************************************************)
EXTENDS Naturals, FiniteSets

CONSTANTS
  Vms,
  Size,       \* [Vms -> pages of its RAM]
  Serial,     \* whether the users run one command at a time
  Troubles    \* what may be wrong with the host: a history meets at most one

\* Too little memory, an unwritable sysctl.d file, a refused definition, an unwritable
\* profile, an unwritable domain.xml.
TroubleKinds == {"none", "alloc", "persist", "define", "save", "copy"}

ASSUME VmsAssumption == IsFiniteSet(Vms)
ASSUME SizeAssumption == Size \in [Vms -> Nat]
ASSUME SerialAssumption == Serial \in BOOLEAN
ASSUME TroublesAssumption == Troubles \subseteq TroubleKinds

VARIABLES
  pool,        \* nr_hugepages of the kernel
  sysctl,      \* the managed sysctl.d file; 0: no file
  managed,     \* VMs with a profile
  opted,       \* hugepages_2m in the profile
  xml,         \* the defined domain is backed by hugepages
  running,
  trouble,     \* what is wrong with this host
  pc,          \* the command that works on a VM: at most one, vm_lock
  want,        \* the setting it was asked for
  target,      \* target_pages
  before,      \* previous_pages
  sysctlBefore, \* previous_sysctl
  ahead,       \* history: VMs defined anew whose profile could not be saved
  unbacked     \* history: VMs saved as opted in whose reservation was given back

hostVars  == <<pool, sysctl>>
vmVars    == <<managed, opted, xml, running, trouble>>
localVars == <<want, target, before, sysctlBefore>>
partVars  == <<ahead, unbacked>>
vars == <<hostVars, vmVars, pc, localVars, partVars>>

Labels == {"idle", "total", "read", "set", "verify", "persist", "define", "save", "copy",
           "giveBack", "undoPool", "undoSysctl", "purgeTotal", "purgeSet", "purgeVerify", "purgePersist"}

-----------------------------------------------------------------------------
(* Helpers                                                                 *)

\* The sum of their sizes: the n-th page of v is <<v, n>>.
Pages(S) == Cardinality(UNION {{v} \X (1 .. Size[v]) : v \in S})

OptedIn == {v \in managed : opted[v]}
InUse   == Pages({v \in running : xml[v]})

\* What nr_hugepages may be once n was written to it: pages in use stay, and
\* fragmented memory may yield fewer new ones.
Kernel(n) == IF n > pool
               THEN IF trouble = "alloc" THEN pool..n ELSE {n}
               ELSE {IF n < InUse THEN InUse ELSE n}

Idle == \A v \in Vms : pc[v] = "idle"

Go(v, label) == pc' = [pc EXCEPT ![v] = label] /\ UNCHANGED localVars

\* The except-clause once the file was written; the pool only if it was changed.
Undo(v) == Go(v, IF before[v] # target[v] THEN "undoPool" ELSE "undoSysctl")

\* The command returns or raises: what it knew is gone.
Return(v) == /\ pc' = [pc EXCEPT ![v] = "idle"]
             /\ want' = [want EXCEPT ![v] = FALSE]
             /\ target' = [target EXCEPT ![v] = 0]
             /\ before' = [before EXCEPT ![v] = 0]
             /\ sysctlBefore' = [sysctlBefore EXCEPT ![v] = 0]

Init == /\ pool = 0 /\ sysctl = 0
        /\ managed = Vms /\ running = {}
        /\ opted = [v \in Vms |-> FALSE] /\ xml = [v \in Vms |-> FALSE]
        /\ trouble \in Troubles
        /\ pc = [v \in Vms |-> "idle"]
        /\ want = [v \in Vms |-> FALSE]
        /\ target = [v \in Vms |-> 0]
        /\ before = [v \in Vms |-> 0]
        /\ sysctlBefore = [v \in Vms |-> 0]
        /\ ahead = {} /\ unbacked = {}

-----------------------------------------------------------------------------
(* configure_hugepages                                                     *)

Begin(v) ==
  /\ pc[v] = "idle" /\ v \in managed \ running
  /\ Serial => Idle
  /\ \E w \in BOOLEAN : want' = [want EXCEPT ![v] = w]
  /\ pc' = [pc EXCEPT ![v] = "total"]
  /\ UNCHANGED <<hostVars, vmVars, target, before, sysctlBefore, partVars>>

\* Mutant of Total: the other VMs are left out.
TotalOwn(v) ==
  /\ pc[v] = "total"
  /\ target' = [target EXCEPT ![v] = Pages({u \in {v} : want[v]})]
  /\ pc' = [pc EXCEPT ![v] = "read"]
  /\ UNCHANGED <<hostVars, vmVars, want, before, sysctlBefore, partVars>>

\* _managed_hugepage_target_pages: the profiles of the others, as they are now.
Total(v) ==
  /\ pc[v] = "total"
  /\ target' = [target EXCEPT ![v] = Pages((OptedIn \ {v}) \cup {u \in {v} : want[v]})]
  /\ pc' = [pc EXCEPT ![v] = "read"]
  /\ UNCHANGED <<hostVars, vmVars, want, before, sysctlBefore, partVars>>

Read(v) ==
  /\ pc[v] = "read"
  /\ before' = [before EXCEPT ![v] = pool]
  /\ sysctlBefore' = [sysctlBefore EXCEPT ![v] = sysctl]
  /\ pc' = [pc EXCEPT ![v] = IF target[v] = pool THEN "persist" ELSE "set"]
  /\ UNCHANGED <<hostVars, vmVars, want, target, partVars>>

Set(v) ==
  /\ pc[v] = "set"
  /\ pool' \in Kernel(target[v])
  /\ Go(v, "verify")
  /\ UNCHANGED <<sysctl, vmVars, partVars>>

Verify(v) ==
  /\ pc[v] = "verify"
  /\ Go(v, IF pool = target[v] THEN "persist" ELSE "giveBack")
  /\ UNCHANGED <<hostVars, vmVars, partVars>>

Persist(v) ==
  /\ pc[v] = "persist"
  /\ \/ sysctl' = target[v] /\ Go(v, "define")
     \/ /\ trouble = "persist" /\ UNCHANGED sysctl
        /\ IF before[v] # target[v] THEN Go(v, "giveBack") ELSE Return(v)
  /\ UNCHANGED <<pool, vmVars, partVars>>

\* Mutant of Define: a refused definition goes unnoticed.
DefineUnchecked(v) ==
  /\ pc[v] = "define"
  /\ \/ xml' = [xml EXCEPT ![v] = want[v]]
     \/ trouble = "define" /\ UNCHANGED xml
  /\ Go(v, "save")
  /\ UNCHANGED <<hostVars, managed, opted, running, trouble, partVars>>

\* _replace_definition; the previous definition is restored when it fails.
Define(v) ==
  /\ pc[v] = "define"
  /\ \/ xml' = [xml EXCEPT ![v] = want[v]] /\ Go(v, "save")
     \/ trouble = "define" /\ Undo(v) /\ UNCHANGED xml
  /\ UNCHANGED <<hostVars, managed, opted, running, trouble, partVars>>

\* save_profile.  The definition in force is not part of what the handler undoes.
Save(v) ==
  /\ pc[v] = "save"
  /\ \/ /\ opted' = [opted EXCEPT ![v] = want[v]]
        /\ ahead' = ahead \ {v}
        /\ Go(v, "copy")
     \/ /\ trouble = "save" /\ Undo(v)
        /\ ahead' = ahead \cup {v} /\ UNCHANGED opted
  /\ UNCHANGED <<hostVars, managed, xml, running, trouble, unbacked>>

\* domain.xml; neither is the saved profile.  A command that succeeds has counted
\* every profile.
Copy(v) ==
  /\ pc[v] = "copy"
  /\ \/ Return(v) /\ unbacked' = {}
     \/ /\ trouble = "copy" /\ Undo(v)
        /\ unbacked' = IF want[v] THEN unbacked \cup {v} ELSE unbacked
  /\ UNCHANGED <<hostVars, vmVars, ahead>>

\* The except-clause: the pool (check=False), then the file if it was written.
GiveBack(v) ==
  /\ pc[v] = "giveBack"
  /\ pool' \in Kernel(before[v])
  /\ Return(v)
  /\ UNCHANGED <<sysctl, vmVars, partVars>>

UndoPool(v) ==
  /\ pc[v] = "undoPool"
  /\ pool' \in Kernel(before[v])
  /\ Go(v, "undoSysctl")
  /\ UNCHANGED <<sysctl, vmVars, partVars>>

\* Mutant of UndoSysctl: the file keeps the target of the failed command.
UndoSysctlNothing(v) ==
  /\ pc[v] = "undoSysctl"
  /\ Return(v)
  /\ UNCHANGED <<hostVars, vmVars, partVars>>

UndoSysctl(v) ==
  /\ pc[v] = "undoSysctl"
  /\ sysctl' = sysctlBefore[v]
  /\ Return(v)
  /\ UNCHANGED <<pool, vmVars, partVars>>

-----------------------------------------------------------------------------
(* purge_vm and a later create_vm of the same name                         *)

\* Mutant of Purge: a running VM is purged too.
PurgeRunning(v) ==
  /\ pc[v] = "idle" /\ v \in managed
  /\ Serial => Idle
  /\ managed' = managed \ {v}
  /\ opted' = [opted EXCEPT ![v] = FALSE] /\ xml' = [xml EXCEPT ![v] = FALSE]
  /\ ahead' = ahead \ {v} /\ unbacked' = unbacked \ {v}
  /\ IF opted[v] THEN Go(v, "purgeTotal") ELSE Return(v)
  /\ UNCHANGED <<hostVars, running, trouble>>

Purge(v) ==
  /\ pc[v] = "idle" /\ v \in managed \ running
  /\ Serial => Idle
  /\ managed' = managed \ {v}
  /\ opted' = [opted EXCEPT ![v] = FALSE] /\ xml' = [xml EXCEPT ![v] = FALSE]
  /\ ahead' = ahead \ {v} /\ unbacked' = unbacked \ {v}
  /\ IF opted[v] THEN Go(v, "purgeTotal") ELSE Return(v)
  /\ UNCHANGED <<hostVars, running, trouble>>

PurgeTotal(v) ==
  /\ pc[v] = "purgeTotal"
  /\ target' = [target EXCEPT ![v] = Pages(OptedIn)]
  /\ pc' = [pc EXCEPT ![v] = "purgeSet"]
  /\ UNCHANGED <<hostVars, vmVars, want, before, sysctlBefore, partVars>>

PurgeSet(v) ==
  /\ pc[v] = "purgeSet"
  /\ IF pool = target[v] THEN UNCHANGED pool ELSE pool' \in Kernel(target[v])
  /\ Go(v, "purgeVerify")
  /\ UNCHANGED <<sysctl, vmVars, partVars>>

\* A pool that did not shrink is reported; the file is left as it is.
PurgeVerify(v) ==
  /\ pc[v] = "purgeVerify"
  /\ IF pool = target[v] THEN Go(v, "purgePersist") ELSE Return(v)
  /\ UNCHANGED <<hostVars, vmVars, partVars>>

PurgePersist(v) ==
  /\ pc[v] = "purgePersist"
  /\ sysctl' = target[v] /\ unbacked' = {}
  /\ Return(v)
  /\ UNCHANGED <<pool, vmVars, ahead>>

Create(v) ==
  /\ pc[v] = "idle" /\ v \notin managed
  /\ managed' = managed \cup {v}
  /\ UNCHANGED <<hostVars, opted, xml, running, trouble, pc, localVars, partVars>>

-----------------------------------------------------------------------------
(* The VMs and the host                                                    *)

\* QEMU preallocates the guest's RAM and fails when the pool cannot give it.
Start(v) ==
  /\ pc[v] = "idle" /\ v \in managed \ running
  /\ xml[v] => InUse + Size[v] <= pool
  /\ running' = running \cup {v}
  /\ UNCHANGED <<hostVars, managed, opted, xml, trouble, pc, localVars, partVars>>

Stop(v) ==
  /\ v \in running
  /\ running' = running \ {v}
  /\ UNCHANGED <<hostVars, managed, opted, xml, trouble, pc, localVars, partVars>>

\* systemd-sysctl applies the file to a kernel that starts with an empty pool.
Reboot ==
  /\ Idle
  /\ pool' = sysctl /\ running' = {}
  /\ UNCHANGED <<sysctl, managed, opted, xml, trouble, pc, localVars, partVars>>

Next == \/ \E v \in Vms :
             \/ Begin(v) \/ Total(v) \/ Read(v) \/ Set(v) \/ Verify(v) \/ Persist(v)
             \/ Define(v) \/ Save(v) \/ Copy(v) \/ GiveBack(v) \/ UndoPool(v) \/ UndoSysctl(v)
             \/ Purge(v) \/ PurgeTotal(v) \/ PurgeSet(v) \/ PurgeVerify(v) \/ PurgePersist(v)
             \/ Create(v) \/ Start(v) \/ Stop(v)
        \/ Reboot

Spec == Init /\ [][Next]_vars

-----------------------------------------------------------------------------
(* Properties                                                              *)

\* Every variable stays within its type.
TypeOK ==
  /\ pool \in Nat /\ sysctl \in Nat
  /\ managed \subseteq Vms /\ running \subseteq managed
  /\ opted \in [Vms -> BOOLEAN] /\ xml \in [Vms -> BOOLEAN] /\ want \in [Vms -> BOOLEAN]
  /\ trouble \in TroubleKinds
  /\ pc \in [Vms -> Labels]
  /\ target \in [Vms -> Nat] /\ before \in [Vms -> Nat] /\ sysctlBefore \in [Vms -> Nat]
  /\ ahead \subseteq managed /\ unbacked \subseteq managed

\* The reservation covers every managed VM that has opted in, so that those
\* guests can all be started, also after a reboot (vm.py:963-969).  (The exception:
\* a command that fails at domain.xml, vm.py:1020, gives the pages of its own VM back
\* although the profile is saved; the next command that succeeds reserves them.)
ReservationCovers ==
  Idle => pool >= Pages(OptedIn \ unbacked) /\ sysctl >= Pages(OptedIn \ unbacked)

\* Between commands the domain is backed by hugepages exactly when its profile says
\* so, whatever part of a command fails: neither a refused definition nor a file that
\* cannot be written leaves a VM claiming pages that no profile asks for.  (The
\* exception, vm.py:1019: when save_profile itself fails the new definition stays.)
DefinedAsSaved == \A v \in Vms : pc[v] = "idle" /\ v \notin ahead => xml[v] = opted[v]

\* A command that fails, at any of its steps, leaves the file as it found it and the
\* pool too (DEPLOYMENT.zh-TW.md:527-528), unless the guest of an earlier failure was
\* started on the new pages and keeps them: the pool is then larger, never smaller.
FailureRestores ==
  [][\A v \in Vms : pc[v] \in {"giveBack", "undoSysctl"} /\ pc'[v] = "idle"
       => /\ sysctl' = sysctlBefore[v]
          /\ pool' >= before[v]
          /\ (ahead \cup unbacked) \ {v} = {} => pool' = before[v]]_vars

=============================================================================
