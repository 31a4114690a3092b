----------------------- MODULE PerformanceHook_proofs -----------------------
(***************************************************************************)
(* Proofs about PerformanceHook, for any number of VMs and cpufreq files.  *)
(***************************************************************************)
EXTENDS PerformanceHook, TLAPS

\* The flock: who works holds it, and who holds it works.
LockInv == /\ lock # NoVm => stage[lock] \in Activating \cup Deactivating
           /\ \A v \in Vms : stage[v] \in Activating \cup Deactivating => lock = v

\* Where a VM will still come to its deactivation, or is in it.
Restorers == {"aTouch", "aWrite", "up", "failed", "sLock", "sRemove", "sRestore", "rRestore"}

\* A marker belongs to a VM between its activation and its deactivation, and a
\* saved file has somebody who will restore it.
MarkerInv == /\ \A v \in Vms : stage[v] \in {"aWrite", "up"} => v \in active
             /\ \A v \in active : stage[v] \in {"aWrite", "up", "failed", "sLock", "sRemove"}
             /\ active # {} => saved # Absent
             /\ saved # Absent => \E v \in Vms : stage[v] \in Restorers

\* What the files say while a hook is at work.
FilesInv ==
  /\ \A v \in Vms : stage[v] = "aTouch" => saved # Absent
  /\ \A v \in Vms : stage[v] = "aWrite" => \A f \in Files \ (todo \cup missed) : files[f] = Performance
  /\ \A v \in Vms : stage[v] \in {"sRestore", "rRestore"} =>
       active = {} /\ saved # Absent /\ \A f \in Files \ (todo \cup lost) : files[f] = chosen[f]
  /\ active = {} /\ (\A v \in Vms : stage[v] \notin {"sRestore", "rRestore"})
       => \A f \in Files \ lost : files[f] = chosen[f]

Inv == TypeOK /\ LockInv /\ MarkerInv /\ FilesInv /\ SavedIsChosen /\ NeverRestoredEarly

-----------------------------------------------------------------------------
LEMMA InitInv == Init => Inv
  BY NoValueAssumption, PerformanceAssumption
  DEF Init, Inv, TypeOK, LockInv, MarkerInv, FilesInv, SavedIsChosen, NeverRestoredEarly, Stages,
      Activating, Deactivating

LEMMA StepInv == Inv /\ [Next]_vars => Inv'
<1> SUFFICES ASSUME Inv, [Next]_vars PROVE Inv'
  OBVIOUS
<1> USE NoValueAssumption, PerformanceAssumption
<1> USE DEF Inv, TypeOK, LockInv, MarkerInv, FilesInv, SavedIsChosen, NeverRestoredEarly, Stages,
        Activating, Deactivating, Go, Restorers, refused
<1>1. ASSUME NEW v \in Vms, CallHook(v) PROVE Inv'
  BY <1>1 DEF CallHook
<1>2. ASSUME NEW v \in Vms, SkipHook(v) PROVE Inv'
  BY <1>2 DEF SkipHook
<1>3. ASSUME NEW v \in Vms, Flock(v) PROVE Inv'
  BY <1>3 DEF Flock
<1>4. ASSUME NEW v \in Vms, Save(v) PROVE Inv'
  BY <1>4 DEF Save
<1>5. ASSUME NEW v \in Vms, Touch(v) PROVE Inv'
  BY <1>5 DEF Touch
<1>6. ASSUME NEW v \in Vms, Write(v) PROVE Inv'
  BY <1>6 DEF Write
<1>7. ASSUME NEW v \in Vms, Remove(v) PROVE Inv'
  BY <1>7 DEF Remove
<1>8. ASSUME NEW v \in Vms, Restore(v) PROVE Inv'
  BY <1>8 DEF Restore
<1>9. ASSUME NEW v \in Vms, Kill(v) PROVE Inv'
  BY <1>9 DEF Kill
<1>10. ASSUME NEW f \in Files, Choose(f) PROVE Inv'
  BY <1>10 DEF Choose
<1>11. CASE UNCHANGED vars
  BY <1>11 DEF vars
<1> QED
  BY <1>1, <1>2, <1>3, <1>4, <1>5, <1>6, <1>7, <1>8, <1>9, <1>10, <1>11 DEF Next, Hook

LEMMA Invariant == Spec => []Inv
  BY InitInv, StepInv, PTL DEF Spec

\* While a VM runs no hook of another VM takes the performance settings away,
\* for any number of VMs and any kills of prepare hooks and refused writes.
THEOREM NoEarlyRestore == Spec => []NeverRestoredEarly
<1>1. Inv => NeverRestoredEarly
  BY DEF Inv
<1> QED
  BY <1>1, Invariant, PTL

\* Without a marker, and with no hook at work, the administrator's values are back,
\* but in files that refused them.
THEOREM RestoredByTheLast == Spec => []RestoredAtRest
<1>1. Inv => RestoredAtRest
  BY NoValueAssumption DEF Inv, LockInv, FilesInv, RestoredAtRest, Deactivating
<1> QED
  BY <1>1, Invariant, PTL

\* What is saved are the administrator's values as long as anybody will restore them,
\* never a `performance' that a hook wrote.
THEOREM ChoiceIsSaved == Spec => []SavedIsChosen
<1>1. Inv => SavedIsChosen
  BY DEF Inv
<1> QED
  BY <1>1, Invariant, PTL

\* Markers, saved values, lock and hooks keep their types.
THEOREM HookTypes == Spec => []TypeOK
<1>1. Inv => TypeOK
  BY DEF Inv
<1> QED
  BY <1>1, Invariant, PTL

=============================================================================
