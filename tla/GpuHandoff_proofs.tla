------------------------- MODULE GpuHandoff_proofs --------------------------
(***************************************************************************)
(* Proofs about GpuHandoff for any number of VMs and PCI functions and for *)
(* every fault, as long as the users wait: for the other VM, for the       *)
(* rotation of the VM, for recover-display.                                *)
(***************************************************************************)
EXTENDS GpuHandoff, TLAPS

\* The users of this section overlap nothing.
Patient == Overlaps = {}

\* One VM, or recover-display, or nobody is at work on the GPU.
Exclusive == /\ \A v, w \in Vms : stage[v] # "off" /\ stage[w] # "off" => v = w
             /\ rec # "idle" => \A v \in Vms : stage[v] = "off"
             /\ \A v \in Vms : unit[v] => stage[v] \in {"off", "restore"}

Given(f) == driver[f] = "vfio"
Back(f)  == driver[f] = Original(f) /\ ~override[f]

\* How far the loops of the hook have come.
Progress(v) ==
  /\ stage[v] = "unbind" /\ ~failed[v] => \A f \in Functions \ todo[v] : driver[f] # "host"
  /\ stage[v] \in {"load", "bind"} => \A f \in Functions : driver[f] # "host"
  /\ stage[v] = "bind" /\ ~failed[v] => \A f \in Functions \ todo[v] : Given(f)
  /\ stage[v] \in {"launch", "up"} => \A f \in Functions : Given(f)
  /\ stage[v] \in {"rollback", "restore"} /\ ~spoiled => \A f \in Functions \ todo[v] : Back(f)
  /\ stage[v] = "failed" /\ ~spoiled => HostOwnsGpu

\* How far recover-display has come; it meets no error on a host that is well.
Recovery ==
  /\ rec \in {"stop", "restore"} /\ ~spoiled => \A f \in Functions : Back(f)
  /\ rec = "restore" /\ ~spoiled => ~recErrors
  /\ rec = "restore" /\ ~recErrors => \A f \in Functions \ recTodo : Back(f)
  /\ rec = "done" => HostOwnsGpu

\* A function bound to its host driver is not claimed by an override.
Unclaimed == \A f \in Functions : driver[f] = "host" => ~override[f]

Inv == /\ TypeOK /\ Exclusive /\ Unclaimed /\ Recovery /\ HostGetsGpuBack
       /\ \A v \in Vms : Progress(v)

-----------------------------------------------------------------------------
LEMMA InitInv == Init => Inv
<1> SUFFICES ASSUME Init PROVE Inv
  OBVIOUS
<1>1. TypeOK
  BY FunctionsAssumption DEF Init, TypeOK, Stages, Original
<1>2. HostGetsGpuBack
  BY DEF Init, HostGetsGpuBack, HostOwnsGpu
<1>3. Exclusive /\ Unclaimed /\ Recovery /\ \A v \in Vms : Progress(v)
  BY DEF Init, Exclusive, Unclaimed, Recovery, Progress
<1> QED
  BY <1>1, <1>2, <1>3 DEF Inv

LEMMA StepInv == ASSUME Patient, Inv, [Next]_vars PROVE Inv'
<1> USE FunctionsAssumption, DynamicAssumption
<1> USE DEF Patient, Inv
<1>1. ASSUME NEW v \in Vms, Start(v) PROVE Inv'
  <2> USE <1>1 DEF Start, TypeOK, gpuVars, screenVars, hookVars, recVars, Go, Loop, Reached
  <2>1. TypeOK'
    BY DEF Stages, Preparing, Original
  <2>2. Exclusive' /\ Recovery'
    BY DEF Exclusive, Recovery, Preparing, HostOwnsGpu, Back
  <2>3. HostGetsGpuBack'
    BY DEF Exclusive, HostGetsGpuBack, Preparing, Progress, HostOwnsGpu, Back
  <2>4. Unclaimed'
    BY DEF Unclaimed, Progress, Original
  <2>5. ASSUME NEW w \in Vms PROVE Progress(w)'
    <3>1. CASE w = v
      BY <3>1 DEF Progress, HostOwnsGpu, Back, Given, Original, Unclaimed, Preparing
    <3>2. CASE w # v
      BY <3>2 DEF Exclusive, Progress, Preparing, HostOwnsGpu, Back, Given
    <3> QED
      BY <3>1, <3>2
  <2> QED
    BY <2>1, <2>2, <2>3, <2>4, <2>5
<1>2. ASSUME NEW v \in Vms, Mark(v) PROVE Inv'
  <2> USE <1>2 DEF Mark, TypeOK, gpuVars, screenVars, hookVars, recVars, Go, Loop, Reached
  <2>1. TypeOK'
    BY DEF Stages, Preparing, Original
  <2>2. Exclusive' /\ Recovery'
    BY DEF Exclusive, Recovery, Preparing, HostOwnsGpu, Back
  <2>3. HostGetsGpuBack'
    BY DEF Exclusive, HostGetsGpuBack, Preparing, Progress, HostOwnsGpu, Back
  <2>4. Unclaimed'
    BY DEF Unclaimed, Progress, Original
  <2>5. ASSUME NEW w \in Vms PROVE Progress(w)'
    <3>1. CASE w = v
      BY <3>1 DEF Progress, HostOwnsGpu, Back, Given, Original, Unclaimed, Preparing
    <3>2. CASE w # v
      BY <3>2 DEF Exclusive, Progress, Preparing, HostOwnsGpu, Back, Given
    <3> QED
      BY <3>1, <3>2
  <2> QED
    BY <2>1, <2>2, <2>3, <2>4, <2>5
<1>3. ASSUME NEW v \in Vms, StopDisplay(v) PROVE Inv'
  <2> USE <1>3 DEF StopDisplay, StopScreen, TypeOK, gpuVars, screenVars, hookVars, recVars, Go, Loop, Reached
  <2>1. TypeOK'
    BY DEF Stages, Preparing, Original
  <2>2. Exclusive' /\ Recovery'
    BY DEF Exclusive, Recovery, Preparing, HostOwnsGpu, Back
  <2>3. HostGetsGpuBack'
    BY DEF Exclusive, HostGetsGpuBack, Preparing, Progress, HostOwnsGpu, Back
  <2>4. Unclaimed'
    BY DEF Unclaimed, Progress, Original
  <2>5. ASSUME NEW w \in Vms PROVE Progress(w)'
    <3>1. CASE w = v
      BY <3>1 DEF Progress, HostOwnsGpu, Back, Given, Original, Unclaimed, Preparing
    <3>2. CASE w # v
      BY <3>2 DEF Exclusive, Progress, Preparing, HostOwnsGpu, Back, Given
    <3> QED
      BY <3>1, <3>2
  <2> QED
    BY <2>1, <2>2, <2>3, <2>4, <2>5
<1>4. ASSUME NEW v \in Vms, NEW f \in Functions, Unbind(v, f) PROVE Inv'
  <2> USE <1>4 DEF Unbind, TypeOK, gpuVars, screenVars, hookVars, recVars, Go, Loop, Reached
  <2>1. TypeOK'
    BY DEF Stages, Preparing, Original
  <2>2. Exclusive' /\ Recovery'
    BY DEF Exclusive, Recovery, Preparing, HostOwnsGpu, Back
  <2>3. HostGetsGpuBack'
    BY DEF Exclusive, HostGetsGpuBack, Preparing, Progress, HostOwnsGpu, Back
  <2>4. Unclaimed'
    BY DEF Unclaimed, Progress, Original
  <2>5. ASSUME NEW w \in Vms PROVE Progress(w)'
    <3>1. CASE w = v
      BY <3>1 DEF Progress, HostOwnsGpu, Back, Given, Original, Unclaimed, Preparing
    <3>2. CASE w # v
      BY <3>2 DEF Exclusive, Progress, Preparing, HostOwnsGpu, Back, Given
    <3> QED
      BY <3>1, <3>2
  <2> QED
    BY <2>1, <2>2, <2>3, <2>4, <2>5
<1>5. ASSUME NEW v \in Vms, Unbound(v) PROVE Inv'
  <2> USE <1>5 DEF Unbound, Abort, TypeOK, gpuVars, screenVars, hookVars, recVars, Go, Loop, Reached
  <2>1. TypeOK'
    BY DEF Stages, Preparing, Original
  <2>2. Exclusive' /\ Recovery'
    BY DEF Exclusive, Recovery, Preparing, HostOwnsGpu, Back
  <2>3. HostGetsGpuBack'
    BY DEF Exclusive, HostGetsGpuBack, Preparing, Progress, HostOwnsGpu, Back
  <2>4. Unclaimed'
    BY DEF Unclaimed, Progress, Original
  <2>5. ASSUME NEW w \in Vms PROVE Progress(w)'
    <3>1. CASE w = v
      BY <3>1 DEF Progress, HostOwnsGpu, Back, Given, Original, Unclaimed, Preparing
    <3>2. CASE w # v
      BY <3>2 DEF Exclusive, Progress, Preparing, HostOwnsGpu, Back, Given
    <3> QED
      BY <3>1, <3>2
  <2> QED
    BY <2>1, <2>2, <2>3, <2>4, <2>5
<1>6. ASSUME NEW v \in Vms, Load(v) PROVE Inv'
  <2> USE <1>6 DEF Load, Abort, UnloadModules, TypeOK, gpuVars, screenVars, hookVars, recVars, Go, Loop, Reached
  <2>1. TypeOK'
    BY DEF Stages, Preparing, Original
  <2>2. Exclusive' /\ Recovery'
    BY DEF Exclusive, Recovery, Preparing, HostOwnsGpu, Back
  <2>3. HostGetsGpuBack'
    BY DEF Exclusive, HostGetsGpuBack, Preparing, Progress, HostOwnsGpu, Back
  <2>4. Unclaimed'
    BY DEF Unclaimed, Progress, Original
  <2>5. ASSUME NEW w \in Vms PROVE Progress(w)'
    <3>1. CASE w = v
      BY <3>1 DEF Progress, HostOwnsGpu, Back, Given, Original, Unclaimed, Preparing
    <3>2. CASE w # v
      BY <3>2 DEF Exclusive, Progress, Preparing, HostOwnsGpu, Back, Given
    <3> QED
      BY <3>1, <3>2
  <2> QED
    BY <2>1, <2>2, <2>3, <2>4, <2>5
<1>7. ASSUME NEW v \in Vms, NEW f \in Functions, Bind(v, f) PROVE Inv'
  <2> USE <1>7 DEF Bind, TypeOK, gpuVars, screenVars, hookVars, recVars, Go, Loop, Reached
  <2>1. TypeOK'
    BY DEF Stages, Preparing, Original
  <2>2. Exclusive' /\ Recovery'
    BY DEF Exclusive, Recovery, Preparing, HostOwnsGpu, Back
  <2>3. HostGetsGpuBack'
    BY DEF Exclusive, HostGetsGpuBack, Preparing, Progress, HostOwnsGpu, Back
  <2>4. Unclaimed'
    BY DEF Unclaimed, Progress, Original
  <2>5. ASSUME NEW w \in Vms PROVE Progress(w)'
    <3>1. CASE w = v
      BY <3>1 DEF Progress, HostOwnsGpu, Back, Given, Original, Unclaimed, Preparing
    <3>2. CASE w # v
      BY <3>2 DEF Exclusive, Progress, Preparing, HostOwnsGpu, Back, Given
    <3> QED
      BY <3>1, <3>2
  <2> QED
    BY <2>1, <2>2, <2>3, <2>4, <2>5
<1>8. ASSUME NEW v \in Vms, Bound(v) PROVE Inv'
  <2> USE <1>8 DEF Bound, Abort, TypeOK, gpuVars, screenVars, hookVars, recVars, Go, Loop, Reached
  <2>1. TypeOK'
    BY DEF Stages, Preparing, Original
  <2>2. Exclusive' /\ Recovery'
    BY DEF Exclusive, Recovery, Preparing, HostOwnsGpu, Back
  <2>3. HostGetsGpuBack'
    BY DEF Exclusive, HostGetsGpuBack, Preparing, Progress, HostOwnsGpu, Back
  <2>4. Unclaimed'
    BY DEF Unclaimed, Progress, Original
  <2>5. ASSUME NEW w \in Vms PROVE Progress(w)'
    <3>1. CASE w = v
      BY <3>1 DEF Progress, HostOwnsGpu, Back, Given, Original, Unclaimed, Preparing
    <3>2. CASE w # v
      BY <3>2 DEF Exclusive, Progress, Preparing, HostOwnsGpu, Back, Given
    <3> QED
      BY <3>1, <3>2
  <2> QED
    BY <2>1, <2>2, <2>3, <2>4, <2>5
<1>9. ASSUME NEW v \in Vms, NEW f \in Functions, RestoreFunction(v, f) PROVE Inv'
  <2> USE <1>9 DEF RestoreFunction, TypeOK, gpuVars, screenVars, hookVars, recVars, Go, Loop, Reached
  <2>1. TypeOK'
    BY DEF Stages, Preparing, Original
  <2>2. Exclusive' /\ Recovery'
    BY DEF Exclusive, Recovery, Preparing, HostOwnsGpu, Back
  <2>3. HostGetsGpuBack'
    BY DEF Exclusive, HostGetsGpuBack, Preparing, Progress, HostOwnsGpu, Back
  <2>4. Unclaimed'
    BY DEF Unclaimed, Progress, Original
  <2>5. ASSUME NEW w \in Vms PROVE Progress(w)'
    <3>1. CASE w = v
      BY <3>1 DEF Progress, HostOwnsGpu, Back, Given, Original, Unclaimed, Preparing
    <3>2. CASE w # v
      BY <3>2 DEF Exclusive, Progress, Preparing, HostOwnsGpu, Back, Given
    <3> QED
      BY <3>1, <3>2
  <2> QED
    BY <2>1, <2>2, <2>3, <2>4, <2>5
<1>10. ASSUME NEW v \in Vms, RestoreDisplay(v) PROVE Inv'
  <2> USE <1>10 DEF RestoreDisplay, RestartScreen, TypeOK, gpuVars, screenVars, hookVars, recVars, Go, Loop, Reached
  <2>1. TypeOK'
    BY DEF Stages, Preparing, Original
  <2>2. Exclusive' /\ Recovery'
    BY DEF Exclusive, Recovery, Preparing, HostOwnsGpu, Back
  <2>3. HostGetsGpuBack'
    BY DEF Exclusive, HostGetsGpuBack, Preparing, Progress, HostOwnsGpu, Back
  <2>4. Unclaimed'
    BY DEF Unclaimed, Progress, Original
  <2>5. ASSUME NEW w \in Vms PROVE Progress(w)'
    <3>1. CASE w = v
      BY <3>1 DEF Progress, HostOwnsGpu, Back, Given, Original, Unclaimed, Preparing
    <3>2. CASE w # v
      BY <3>2 DEF Exclusive, Progress, Preparing, HostOwnsGpu, Back, Given
    <3> QED
      BY <3>1, <3>2
  <2> QED
    BY <2>1, <2>2, <2>3, <2>4, <2>5
<1>11. ASSUME NEW v \in Vms, Kill(v) PROVE Inv'
  <2> USE <1>11 DEF Kill, TypeOK, gpuVars, screenVars, hookVars, recVars, Go, Loop, Reached
  <2>1. TypeOK'
    BY DEF Stages, Preparing, Original
  <2>2. Exclusive' /\ Recovery'
    BY DEF Exclusive, Recovery, Preparing, HostOwnsGpu, Back
  <2>3. HostGetsGpuBack'
    BY DEF Exclusive, HostGetsGpuBack, Preparing, Progress, HostOwnsGpu, Back
  <2>4. Unclaimed'
    BY DEF Unclaimed, Progress, Original
  <2>5. ASSUME NEW w \in Vms PROVE Progress(w)'
    <3>1. CASE w = v
      BY <3>1 DEF Progress, HostOwnsGpu, Back, Given, Original, Unclaimed, Preparing
    <3>2. CASE w # v
      BY <3>2 DEF Exclusive, Progress, Preparing, HostOwnsGpu, Back, Given
    <3> QED
      BY <3>1, <3>2
  <2> QED
    BY <2>1, <2>2, <2>3, <2>4, <2>5
<1>12. ASSUME NEW v \in Vms, Launch(v) PROVE Inv'
  <2> USE <1>12 DEF Launch, TypeOK, gpuVars, screenVars, hookVars, recVars, Go, Loop, Reached
  <2>1. TypeOK'
    BY DEF Stages, Preparing, Original
  <2>2. Exclusive' /\ Recovery'
    BY DEF Exclusive, Recovery, Preparing, HostOwnsGpu, Back
  <2>3. HostGetsGpuBack'
    BY DEF Exclusive, HostGetsGpuBack, Preparing, Progress, HostOwnsGpu, Back
  <2>4. Unclaimed'
    BY DEF Unclaimed, Progress, Original
  <2>5. ASSUME NEW w \in Vms PROVE Progress(w)'
    <3>1. CASE w = v
      BY <3>1 DEF Progress, HostOwnsGpu, Back, Given, Original, Unclaimed, Preparing
    <3>2. CASE w # v
      BY <3>2 DEF Exclusive, Progress, Preparing, HostOwnsGpu, Back, Given
    <3> QED
      BY <3>1, <3>2
  <2> QED
    BY <2>1, <2>2, <2>3, <2>4, <2>5
<1>13. ASSUME NEW v \in Vms, Release(v) PROVE Inv'
  <2> USE <1>13 DEF Release, TypeOK, gpuVars, screenVars, hookVars, recVars, Go, Loop, Reached
  <2>1. TypeOK'
    BY DEF Stages, Preparing, Original
  <2>2. Exclusive' /\ Recovery'
    BY DEF Exclusive, Recovery, Preparing, HostOwnsGpu, Back
  <2>3. HostGetsGpuBack'
    BY DEF Exclusive, HostGetsGpuBack, Preparing, Progress, HostOwnsGpu, Back
  <2>4. Unclaimed'
    BY DEF Unclaimed, Progress, Original
  <2>5. ASSUME NEW w \in Vms PROVE Progress(w)'
    <3>1. CASE w = v
      BY <3>1 DEF Progress, HostOwnsGpu, Back, Given, Original, Unclaimed, Preparing
    <3>2. CASE w # v
      BY <3>2 DEF Exclusive, Progress, Preparing, HostOwnsGpu, Back, Given
    <3> QED
      BY <3>1, <3>2
  <2> QED
    BY <2>1, <2>2, <2>3, <2>4, <2>5
<1>14. ASSUME NEW v \in Vms, ReleaseHooks(v) PROVE Inv'
  <2> USE <1>14 DEF ReleaseHooks, TypeOK, gpuVars, screenVars, hookVars, recVars, Go, Loop, Reached
  <2>1. TypeOK'
    BY DEF Stages, Preparing, Original
  <2>2. Exclusive' /\ Recovery'
    BY DEF Exclusive, Recovery, Preparing, HostOwnsGpu, Back
  <2>3. HostGetsGpuBack'
    BY DEF Exclusive, HostGetsGpuBack, Preparing, Progress, HostOwnsGpu, Back
  <2>4. Unclaimed'
    BY DEF Unclaimed, Progress, Original
  <2>5. ASSUME NEW w \in Vms PROVE Progress(w)'
    <3>1. CASE w = v
      BY <3>1 DEF Progress, HostOwnsGpu, Back, Given, Original, Unclaimed, Preparing
    <3>2. CASE w # v
      BY <3>2 DEF Exclusive, Progress, Preparing, HostOwnsGpu, Back, Given
    <3> QED
      BY <3>1, <3>2
  <2> QED
    BY <2>1, <2>2, <2>3, <2>4, <2>5
<1>15. ASSUME NEW v \in Vms, RotationEnds(v) PROVE Inv'
  <2> USE <1>15 DEF RotationEnds, TypeOK, gpuVars, screenVars, hookVars, recVars, Go, Loop, Reached
  <2>1. TypeOK'
    BY DEF Stages, Preparing, Original
  <2>2. Exclusive' /\ Recovery'
    BY DEF Exclusive, Recovery, Preparing, HostOwnsGpu, Back
  <2>3. HostGetsGpuBack'
    BY DEF Exclusive, HostGetsGpuBack, Preparing, Progress, HostOwnsGpu, Back
  <2>4. Unclaimed'
    BY DEF Unclaimed, Progress, Original
  <2>5. ASSUME NEW w \in Vms PROVE Progress(w)'
    <3>1. CASE w = v
      BY <3>1 DEF Progress, HostOwnsGpu, Back, Given, Original, Unclaimed, Preparing
    <3>2. CASE w # v
      BY <3>2 DEF Exclusive, Progress, Preparing, HostOwnsGpu, Back, Given
    <3> QED
      BY <3>1, <3>2
  <2> QED
    BY <2>1, <2>2, <2>3, <2>4, <2>5
<1>16. ASSUME NEW v \in Vms, Recover(v) PROVE Inv'
  <2> USE <1>16 DEF Recover, Stale, Healthy, TypeOK, gpuVars, screenVars, hookVars, recVars
  <2>1. TypeOK' /\ Exclusive' /\ Unclaimed'
    <3>1. TypeOK'
      OBVIOUS
    <3>2. Exclusive'
      BY DEF Exclusive
    <3>3. Unclaimed'
      BY DEF Unclaimed
    <3> QED
      BY <3>1, <3>2, <3>3
  <2>2. Recovery'
    BY DEF Exclusive, Recovery, HostGetsGpuBack, HostOwnsGpu, Back, Unclaimed, Original
  <2>3. HostGetsGpuBack'
    BY DEF Exclusive, Recovery, HostGetsGpuBack, HostOwnsGpu, Back, Original
  <2>4. ASSUME NEW w \in Vms PROVE Progress(w)'
    BY DEF Exclusive, Progress
  <2> QED
    BY <2>1, <2>2, <2>3, <2>4
<1>17. ASSUME RecoverStop PROVE Inv'
  <2> USE <1>17 DEF RecoverStop, StopScreen, TypeOK, gpuVars, screenVars, hookVars, recVars
  <2>1. TypeOK' /\ Exclusive' /\ Unclaimed'
    BY DEF Exclusive, Unclaimed, Original
  <2>2. Recovery'
    BY DEF Exclusive, Recovery, HostGetsGpuBack, HostOwnsGpu, Back, Unclaimed, Original
  <2>3. HostGetsGpuBack'
    BY DEF Exclusive, Recovery, HostGetsGpuBack, HostOwnsGpu, Back, Original
  <2>4. ASSUME NEW w \in Vms PROVE Progress(w)'
    BY DEF Exclusive, Progress
  <2> QED
    BY <2>1, <2>2, <2>3, <2>4
<1>18. ASSUME NEW f \in Functions, RecoverFunction(f) PROVE Inv'
  <2> USE <1>18 DEF RecoverFunction, TypeOK, gpuVars, screenVars, hookVars, recVars
  <2>1. TypeOK' /\ Exclusive' /\ Unclaimed'
    BY DEF Exclusive, Unclaimed, Original
  <2>2. Recovery'
    BY DEF Exclusive, Recovery, HostGetsGpuBack, HostOwnsGpu, Back, Unclaimed, Original
  <2>3. HostGetsGpuBack'
    BY DEF Exclusive, Recovery, HostGetsGpuBack, HostOwnsGpu, Back, Original
  <2>4. ASSUME NEW w \in Vms PROVE Progress(w)'
    BY DEF Exclusive, Progress
  <2> QED
    BY <2>1, <2>2, <2>3, <2>4
<1>19. ASSUME RecoverDisplay PROVE Inv'
  <2> USE <1>19 DEF RecoverDisplay, RestartScreen, TypeOK, gpuVars, screenVars, hookVars, recVars
  <2>1. TypeOK' /\ Exclusive' /\ Unclaimed'
    BY DEF Exclusive, Unclaimed, Original
  <2>2. Recovery'
    BY DEF Exclusive, Recovery, HostGetsGpuBack, HostOwnsGpu, Back, Unclaimed, Original
  <2>3. HostGetsGpuBack'
    BY DEF Exclusive, Recovery, HostGetsGpuBack, HostOwnsGpu, Back, Original
  <2>4. ASSUME NEW w \in Vms PROVE Progress(w)'
    BY DEF Exclusive, Progress
  <2> QED
    BY <2>1, <2>2, <2>3, <2>4
<1>20. ASSUME RecoverReturns PROVE Inv'
  <2> USE <1>20 DEF RecoverReturns, TypeOK, gpuVars, screenVars, hookVars, recVars
  <2>1. TypeOK' /\ Exclusive' /\ Unclaimed'
    BY DEF Exclusive, Unclaimed, Original
  <2>2. Recovery'
    BY DEF Exclusive, Recovery, HostGetsGpuBack, HostOwnsGpu, Back, Unclaimed, Original
  <2>3. HostGetsGpuBack'
    BY DEF Exclusive, Recovery, HostGetsGpuBack, HostOwnsGpu, Back, Original
  <2>4. ASSUME NEW w \in Vms PROVE Progress(w)'
    BY DEF Exclusive, Progress
  <2> QED
    BY <2>1, <2>2, <2>3, <2>4
<1>21. CASE UNCHANGED vars
  BY <1>21 DEF vars, gpuVars, screenVars, hookVars, recVars, TypeOK, Exclusive, Unclaimed, Recovery,
     HostGetsGpuBack, Progress, HostOwnsGpu, Given, Back
<1> QED
  BY <1>1, <1>2, <1>3, <1>4, <1>5, <1>6, <1>7, <1>8, <1>9, <1>10, <1>11, <1>12, <1>13, <1>14,
     <1>15, <1>16, <1>17, <1>18, <1>19, <1>20, <1>21 DEF Next, Hook

LEMMA Invariant == ASSUME Patient PROVE Spec => []Inv
<1>1. Inv /\ [Next]_vars => Inv'
  BY StepInv
<1> QED
  BY <1>1, InitInv, PTL DEF Spec

\* A VM that runs, or whose start is committed, has every function of the GPU.
THEOREM GuestHasTheGpu == ASSUME Patient PROVE Spec => []GuestOwnsGpu
<1>1. Inv => GuestOwnsGpu
  BY DEF Inv, Progress, GuestOwnsGpu, Given
<1> QED
  BY <1>1, Invariant, PTL

\* However starts and hooks failed or were killed, the host has its GPU back when no VM
\* and no command is at work on it, and its display was restarted.
THEOREM HostHasTheGpu == ASSUME Patient PROVE Spec => []HostGetsGpuBack
<1>1. Inv => HostGetsGpuBack
  BY DEF Inv
<1> QED
  BY <1>1, Invariant, PTL

\* The EXIT trap restores the host by itself.
THEOREM TrapRestores == ASSUME Patient PROVE Spec => []RollbackRestores
<1>1. Inv => RollbackRestores
  BY DEF Inv, Progress, RollbackRestores
<1> QED
  BY <1>1, Invariant, PTL

\* Whenever recover-display reports success every function has its driver back and no
\* override is left, from whatever state it started; the display was restarted, which
\* may have failed (hooks.py:253-256 do not look).
THEOREM RecoveryRestores == ASSUME Patient PROVE Spec => []RecoveryIsReal
<1>1. Inv => RecoveryIsReal
  BY DEF Inv, Recovery, RecoveryIsReal
<1> QED
  BY <1>1, Invariant, PTL

\* No function is ever bound to a driver it never had.
THEOREM HandoffTypes == ASSUME Patient PROVE Spec => []TypeOK
<1>1. Inv => TypeOK
  BY DEF Inv
<1> QED
  BY <1>1, Invariant, PTL

=============================================================================
