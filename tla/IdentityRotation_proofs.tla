---------------------- MODULE IdentityRotation_proofs ----------------------
(***************************************************************************)
(* Proofs about IdentityRotation, for every set of commands, UUIDs, TPM    *)
(* identities and users, and for every combination of faults.              *)
(***************************************************************************)
EXTENDS IdentityRotation, TLAPS

Working  == Labels \ {"idle", "resave", "lock", "exit"}
Building == {"moveOut", "moveIn", "undefine", "define", "recover", "rollback", "save", "clear"}

\* What a command knows of itself: a profile as soon as it works, the dumped
\* UUID once it has dumped, the UUID to define once it has built the new XML,
\* and a TPM identity only while it builds.
LocalOK(p) ==
  /\ pc[p] \in Working => loaded[p] \in Uuids
  /\ pc[p] = "resave" => loaded[p] \in Uuids
  /\ pc[p] = "lock" /\ op[p] = "create" => loaded[p] \in Uuids
  /\ pc[p] \in Building \cup {"retire"} => old[p] \in Uuids
  /\ pc[p] \in Building => new[p] \in Uuids
  /\ pc[p] \in {"define", "recover"} => previous[p] \in Uuids
  /\ pc[p] \notin Building => carried[p] = NoTpm

\* Every command but resume-vm works under the lock, and only a rotation
\* moves a TPM; its identity is in a marker between the two renames.
LockOK(p) ==
  /\ pc[p] \in Working /\ op[p] # "resume" => lock = p
  /\ pc[p] \in {"moveOut", "moveIn"} => op[p] \in Rotations
  /\ pc[p] = "moveIn" => carried[p] \in markers

VmOK == vm # "off" => running \in Uuids

TypeInv == TypeOK /\ VmOK /\ \A p \in Procs : LocalOK(p)
TpmInv == TypeInv /\ (\A p \in Procs : LockOK(p)) /\ TpmConserved

-----------------------------------------------------------------------------
LEMMA TypeInit == Init => TypeInv
<1> SUFFICES ASSUME Init PROVE TypeInv
  OBVIOUS
<1>1. TypeOK
  <2>1. dynamic \in BOOLEAN /\ hooked \in BOOLEAN /\ pending \in BOOLEAN /\ bootDue \in BOOLEAN
    BY DEF Init
  <2> QED
    BY <2>1 DEF Init, TypeOK, Labels, Operations
<1>2. VmOK /\ \A p \in Procs : LocalOK(p)
  BY DEF Init, VmOK, LocalOK, Working, Building
<1> QED
  BY <1>1, <1>2 DEF TypeInv

LEMMA TypeStep == TypeInv /\ [Next]_vars => TypeInv'
<1> SUFFICES ASSUME TypeInv, [Next]_vars PROVE TypeInv'
  OBVIOUS
<1> USE NoValueAssumption, CommandsAssumption
<1> USE DEF TypeInv, TypeOK, VmOK, LocalOK, Working, Building, Labels, Operations, Rotations,
        libvirtVars, settingVars, rotateVars, tpmVars, localVars
<1>1. ASSUME NEW p \in Procs, Invoke(p) PROVE TypeInv'
  BY <1>1 DEF Invoke, Begin, Step, CommandNames
<1>2. ASSUME NEW p \in Procs, ResumeVm(p) \/ ResumeSaves(p) PROVE TypeInv'
  BY <1>2 DEF ResumeVm, ResumeSaves, Begin, Step
<1>3. ASSUME NEW p \in Procs, TimerFires(p) PROVE TypeInv'
  BY <1>3 DEF TimerFires, Begin, Step
<1>4. ASSUME NEW p \in Procs, BootService(p) PROVE TypeInv'
  <2>1. pending' \in BOOLEAN
    <3>1. pending' = (pending /\ dynamic) /\ pending \in BOOLEAN /\ dynamic \in BOOLEAN
      BY <1>4 DEF BootService
    <3> QED
      BY ONLY <3>1, Zenon
  <2>2. Begin(p, "boot", "lock") \/ UNCHANGED <<pc, op, lock>>
    BY ONLY <1>4, Zenon DEF BootService
  <2>3. bootDue' \in BOOLEAN
    BY <1>4 DEF BootService
  <2>4. UNCHANGED <<libvirtVars, profile, settingVars, unit, tpmVars, booted, loaded, old, new,
                    previous, carried>>
    BY ONLY <1>4 DEF BootService
  <2> QED
    BY <2>1, <2>2, <2>3, <2>4 DEF Begin, Step
<1>5. ASSUME NEW p \in Procs, Acquire(p) PROVE TypeInv'
  BY <1>5 DEF Acquire
<1>6. ASSUME NEW p \in Procs, EnsureInactive(p) PROVE TypeInv'
  BY <1>6 DEF EnsureInactive, Step, Finish
<1>7. ASSUME NEW p \in Procs, DumpXml(p) PROVE TypeInv'
  BY <1>7 DEF DumpXml, FromProfile, FreshUuids, Step, Known
<1>8. ASSUME NEW p \in Procs, DumpFails(p) PROVE TypeInv'
  BY <1>8 DEF DumpFails, Finish
<1>9. ASSUME NEW p \in Procs, MoveOut(p) PROVE TypeInv'
  BY <1>9 DEF MoveOut, Step, Finish
<1>10. ASSUME NEW p \in Procs, MoveIn(p) PROVE TypeInv'
  BY <1>10 DEF MoveIn, Step, Finish
<1>11. ASSUME NEW p \in Procs, Undefine(p) PROVE TypeInv'
  BY <1>11 DEF Undefine, Step
<1>12. ASSUME NEW p \in Procs, Define(p) PROVE TypeInv'
  BY <1>12 DEF Define, Step
<1>13. ASSUME NEW p \in Procs, Recover(p) PROVE TypeInv'
  BY <1>13 DEF Recover, Step
<1>14. ASSUME NEW p \in Procs, Rollback(p) PROVE TypeInv'
  BY <1>14 DEF Rollback, Finish
<1>15. ASSUME NEW p \in Procs, SaveProfile(p) PROVE TypeInv'
  BY <1>15 DEF SaveProfile, Step, Finish
<1>16. ASSUME NEW p \in Procs, ClearPending(p) PROVE TypeInv'
  BY <1>16 DEF ClearPending, Finish
<1>17. ASSUME NEW p \in Procs, RetireTpm(p) PROVE TypeInv'
  BY <1>17 DEF RetireTpm, Finish
<1>18. ASSUME NEW p \in Procs, CreateVm(p) PROVE TypeInv'
  BY <1>18 DEF CreateVm, Finish
<1>19. ASSUME NEW p \in Procs, Exit(p) PROVE TypeInv'
  BY <1>19 DEF Exit, Step
<1>20. ASSUME NEW p \in Procs, Kill(p) PROVE TypeInv'
  BY <1>20 DEF Kill, Finish
<1>21. ASSUME SetDynamic PROVE TypeInv'
  BY <1>21 DEF SetDynamic
<1>22. CASE Start
  BY <1>22 DEF Start
<1>23. CASE Launch
  BY <1>23 DEF Launch
<1>24. CASE Stop
  BY <1>24 DEF Stop, ScheduleRotation
<1>25. CASE Crash
  BY <1>25 DEF Crash
<1>26. CASE UNCHANGED vars
  BY <1>26 DEF vars
<1>27. ASSUME SetHook PROVE TypeInv'
  <2>1. hooked' \in BOOLEAN
    <3>1. hooked' = dynamic /\ dynamic \in BOOLEAN
      BY <1>27 DEF SetHook
    <3> QED
      BY ONLY <3>1, Zenon
  <2> QED
    BY <1>27, <2>1 DEF SetHook
<1> QED
  BY <1>1, <1>2, <1>3, <1>4, <1>5, <1>6, <1>7, <1>8, <1>9, <1>10, <1>11, <1>12, <1>13,
     <1>14, <1>15, <1>16, <1>17, <1>18, <1>19, <1>20, <1>21, <1>22, <1>23, <1>24, <1>25,
     <1>26, <1>27 DEF Next, Body

\* Every variable keeps its type, in every run of the commands, whatever fails.
THEOREM TypeCorrect == Spec => []TypeOK
<1>1. TypeInv => TypeOK
  BY DEF TypeInv
<1> QED
  BY <1>1, TypeInit, TypeStep, PTL DEF Spec

-----------------------------------------------------------------------------
(* Conservation of the TPM identities                                      *)

\* The lock is respected, and nothing but its holder touches a marker.
LEMMA LockStep == TypeInv /\ (\A p \in Procs : LockOK(p)) /\ [Next]_vars
                    => \A q \in Procs : LockOK(q)'
<1> SUFFICES ASSUME TypeInv, \A p \in Procs : LockOK(p), [Next]_vars,
                    NEW q \in Procs
             PROVE  LockOK(q)'
  OBVIOUS
<1> USE NoValueAssumption, CommandsAssumption
<1> USE DEF TypeInv, TypeOK, LocalOK, LockOK, Working, Building, Labels, Operations, Rotations,
        libvirtVars, settingVars, rotateVars, tpmVars, localVars
<1>1. ASSUME NEW p \in Procs, Invoke(p) PROVE LockOK(q)'
  BY <1>1 DEF Invoke, Begin, Step, CommandNames
<1>2. ASSUME NEW p \in Procs, ResumeVm(p) \/ ResumeSaves(p) PROVE LockOK(q)'
  BY <1>2 DEF ResumeVm, ResumeSaves, Begin, Step
<1>3. ASSUME NEW p \in Procs, TimerFires(p) PROVE LockOK(q)'
  BY <1>3 DEF TimerFires, Begin, Step
<1>4. ASSUME NEW p \in Procs, BootService(p) PROVE LockOK(q)'
  BY <1>4 DEF BootService, Begin, Step
<1>5. ASSUME NEW p \in Procs, Acquire(p) PROVE LockOK(q)'
  BY <1>5 DEF Acquire
<1>6. ASSUME NEW p \in Procs, EnsureInactive(p) PROVE LockOK(q)'
  BY <1>6 DEF EnsureInactive, Step, Finish
<1>7. ASSUME NEW p \in Procs, DumpXml(p) PROVE LockOK(q)'
  BY <1>7 DEF DumpXml, FromProfile, FreshUuids, Step
<1>8. ASSUME NEW p \in Procs, DumpFails(p) PROVE LockOK(q)'
  BY <1>8 DEF DumpFails, Finish
<1>9. ASSUME NEW p \in Procs, MoveOut(p) PROVE LockOK(q)'
  BY <1>9 DEF MoveOut, Step, Finish
<1>10. ASSUME NEW p \in Procs, MoveIn(p) PROVE LockOK(q)'
  BY <1>10 DEF MoveIn, Step, Finish
<1>11. ASSUME NEW p \in Procs, Undefine(p) PROVE LockOK(q)'
  BY <1>11 DEF Undefine, Step
<1>12. ASSUME NEW p \in Procs, Define(p) PROVE LockOK(q)'
  BY <1>12 DEF Define, Step
<1>13. ASSUME NEW p \in Procs, Recover(p) PROVE LockOK(q)'
  BY <1>13 DEF Recover, Step
<1>14. ASSUME NEW p \in Procs, Rollback(p) PROVE LockOK(q)'
  BY <1>14 DEF Rollback, Finish
<1>15. ASSUME NEW p \in Procs, SaveProfile(p) PROVE LockOK(q)'
  BY <1>15 DEF SaveProfile, Step, Finish
<1>16. ASSUME NEW p \in Procs, ClearPending(p) PROVE LockOK(q)'
  BY <1>16 DEF ClearPending, Finish
<1>17. ASSUME NEW p \in Procs, RetireTpm(p) PROVE LockOK(q)'
  BY <1>17 DEF RetireTpm, Finish
<1>18. ASSUME NEW p \in Procs, CreateVm(p) PROVE LockOK(q)'
  BY <1>18 DEF CreateVm, Finish
<1>19. ASSUME NEW p \in Procs, Exit(p) PROVE LockOK(q)'
  BY <1>19 DEF Exit, Step
<1>20. ASSUME NEW p \in Procs, Kill(p) PROVE LockOK(q)'
  BY <1>20 DEF Kill, Finish
<1>21. CASE SetDynamic \/ SetHook
  BY <1>21 DEF SetDynamic, SetHook
<1>22. CASE Start
  BY <1>22 DEF Start
<1>23. CASE Launch
  BY <1>23 DEF Launch
<1>24. CASE Stop
  BY <1>24 DEF Stop
<1>25. CASE Crash
  BY <1>25 DEF Crash
<1>26. CASE UNCHANGED vars
  BY <1>26 DEF vars
<1> QED
  BY <1>1, <1>2, <1>3, <1>4, <1>5, <1>6, <1>7, <1>8, <1>9, <1>10, <1>11, <1>12,
     <1>13, <1>14, <1>15, <1>16, <1>17, <1>18, <1>19, <1>20, <1>21, <1>22, <1>23,
     <1>24, <1>25, <1>26 DEF Next, Body

\* Five actions touch a TPM identity; each moves it or, Launch, adds a new one.
LEMMA ConservedStep == TpmInv /\ [Next]_vars => TpmConserved'
<1> SUFFICES ASSUME TpmInv, [Next]_vars PROVE TpmConserved'
  OBVIOUS
<1> USE NoValueAssumption
<1> USE DEF TpmInv, TypeInv, TypeOK, VmOK, LocalOK, LockOK, Building, Working, TpmConserved
<1>1. ASSUME NEW p \in Procs, MoveOut(p) PROVE TpmConserved'
  BY <1>1 DEF MoveOut
<1>2. ASSUME NEW p \in Procs, MoveIn(p) PROVE TpmConserved'
  BY <1>2 DEF MoveIn
<1>3. ASSUME NEW p \in Procs, Rollback(p) PROVE TpmConserved'
  BY <1>3 DEF Rollback
<1>4. ASSUME NEW p \in Procs, RetireTpm(p) PROVE TpmConserved'
  BY <1>4 DEF RetireTpm
<1>5. CASE Launch
  BY <1>5 DEF Launch
<1>6. CASE UNCHANGED <<swtpm, markers, retired, made>>
  BY <1>6
<1> QED
  BY <1>1, <1>2, <1>3, <1>4, <1>5, <1>6
  DEF Next, Body, tpmVars, vars, Invoke, ResumeVm, ResumeSaves, TimerFires, BootService, Acquire,
      EnsureInactive, DumpXml, FromProfile, FreshUuids, DumpFails, Undefine, Define, Recover, SaveProfile,
      ClearPending, CreateVm, Exit, Kill, SetDynamic, SetHook, Start, Stop, Crash

\* Whatever fails between the renames, in a rollback or in recreate-tpm, no
\* manufactured TPM identity is destroyed or duplicated.
THEOREM TpmConservation == Spec => []TpmConserved
<1>1. Init => TpmInv
  <2> SUFFICES ASSUME Init PROVE TpmInv
    OBVIOUS
  <2>1. TypeInv
    BY TypeInit
  <2>2. \A p \in Procs : LockOK(p)
    BY DEF Init, LockOK, Working
  <2>3. TpmConserved
    BY DEF Init, TpmConserved
  <2> QED
    BY <2>1, <2>2, <2>3 DEF TpmInv
<1>2. TpmInv /\ [Next]_vars => TpmInv'
  BY TypeStep, LockStep, ConservedStep DEF TpmInv
<1>3. TpmInv => TpmConserved
  BY DEF TpmInv
<1> QED
  BY <1>1, <1>2, <1>3, PTL DEF Spec

-----------------------------------------------------------------------------
(* The guest, its TPM and the committed UUID                               *)

\* libvirt may refuse the new definition and the previous one; nothing else fails, and
\* resume-vm is not used: without the lock it breaks what all of this rests on.
Disciplined == Faults \subseteq {"defineFails", "recoveryFails"} /\ "resume" \notin Commands

\* A rotation has moved the TPM (if there is one) and not yet committed.
Moved(p) == op[p] \in Rotations /\ pc[p] \in {"undefine", "define", "recover", "rollback", "save"}

\* The command that holds the lock: what it read is still true, ...
Informed(p) ==
  /\ pc[p] # "check" /\ op[p] # "cpuLayout" => vm = "off"
  /\ pc[p] # "clear" => loaded[p] = profile
  /\ pc[p] \in (Building \cup {"retire"}) \ {"clear"} => old[p] = profile
  /\ pc[p] \in Building \ {"clear"} /\ op[p] \in Rotations => new[p] # profile
  /\ pc[p] \in Building \ {"clear"} /\ op[p] \notin Rotations => new[p] = profile
  /\ pc[p] = "retire" => op[p] = "recreate"

\* ... the definition is the committed one, gone, or the new one, ...
Defined(p) ==
  /\ pc[p] \in {"define", "recover"} => domain = NoUuid /\ previous[p] = profile
  /\ pc[p] = "save" => domain = new[p]
  /\ pc[p] \notin {"define", "recover", "save"} => domain \in {profile, NoUuid}
  /\ pc[p] = "rollback" => previous[p] \in {NoUuid, profile}
  /\ pc[p] \in {"check", "dump", "moveOut", "moveIn", "undefine"} => previous[p] = NoUuid

\* ... and the TPM the guest is sealed to lies where the next step looks for it.
Sealed(p) ==
  /\ pc[p] = "moveOut" => swtpm[new[p]] = NoTpm /\ carried[p] = NoTpm
  /\ pc[p] = "moveIn" => /\ carried[p] = sealed /\ sealed # NoTpm
                         /\ swtpm[old[p]] = NoTpm /\ swtpm[new[p]] = NoTpm
  /\ Moved(p) => carried[p] = sealed /\ swtpm[new[p]] = sealed /\ swtpm[old[p]] = NoTpm
  /\ pc[p] # "moveIn" /\ ~Moved(p) => swtpm[profile] = sealed
  /\ op[p] \notin Rotations => carried[p] = NoTpm

Transaction(p) == /\ op[p] \notin {"resume", "create"} /\ pc[p] \notin {"create", "resave"}
                  /\ pc[p] \in Working => lock = p /\ Informed(p) /\ Defined(p) /\ Sealed(p)
                  /\ pc[p] \notin Working => previous[p] = NoUuid

AtRest == lock = NoProc => domain \in {profile, NoUuid} /\ swtpm[profile] = sealed

Guest == /\ vm = "off" => running = NoUuid /\ attached = NoTpm
         /\ vm # "off" => running = profile
         /\ vm = "starting" => attached = NoTpm
         /\ vm = "running" => attached = sealed /\ attached # NoTpm

GuestInv == /\ TypeInv /\ AtRest /\ Guest
            /\ lock # NoProc => pc[lock] \in Working
            /\ \A p \in Procs : LockOK(p) /\ Transaction(p)

\* What the lock holder may rely on survives every step, its own and others'.
LEMMA TransactionStep == Disciplined /\ GuestInv /\ [Next]_vars
                           => \A q \in Procs : Transaction(q)'
<1> SUFFICES ASSUME Disciplined, GuestInv, [Next]_vars, NEW q \in Procs
             PROVE  Transaction(q)'
  OBVIOUS
<1> USE NoValueAssumption, CommandsAssumption
<1> USE DEF Disciplined, GuestInv, TypeInv, TypeOK, VmOK, LocalOK, LockOK, Working, Building,
        Labels, Operations, Rotations, Transaction, Informed, Defined, Sealed, Moved, AtRest,
        Guest, libvirtVars, settingVars, rotateVars, tpmVars, localVars
<1>1. ASSUME NEW p \in Procs, Invoke(p) PROVE Transaction(q)'
  BY <1>1 DEF Invoke, Begin, Step, CommandNames
<1>2. ASSUME NEW p \in Procs, ResumeVm(p) \/ ResumeSaves(p) PROVE Transaction(q)'
  BY <1>2 DEF ResumeVm, ResumeSaves, Begin, Step
<1>3. ASSUME NEW p \in Procs, TimerFires(p) PROVE Transaction(q)'
  BY <1>3 DEF TimerFires, Begin, Step
<1>4. ASSUME NEW p \in Procs, BootService(p) PROVE Transaction(q)'
  BY <1>4 DEF BootService, Begin, Step
<1>5. ASSUME NEW p \in Procs, Acquire(p) PROVE Transaction(q)'
  BY <1>5 DEF Acquire
<1>6. ASSUME NEW p \in Procs, EnsureInactive(p) PROVE Transaction(q)'
  BY <1>6 DEF EnsureInactive, Step, Finish
<1>7. ASSUME NEW p \in Procs, DumpXml(p) PROVE Transaction(q)'
  BY <1>7 DEF DumpXml, FromProfile, FreshUuids, Step, InUse, Known
<1>8. ASSUME NEW p \in Procs, DumpFails(p) PROVE Transaction(q)'
  BY <1>8 DEF DumpFails, Finish, Known
<1>9. ASSUME NEW p \in Procs, MoveOut(p) PROVE Transaction(q)'
  BY <1>9 DEF MoveOut, Step, Finish
<1>10. ASSUME NEW p \in Procs, MoveIn(p) PROVE Transaction(q)'
  BY <1>10 DEF MoveIn, Step, Finish
<1>11. ASSUME NEW p \in Procs, Undefine(p) PROVE Transaction(q)'
  BY <1>11 DEF Undefine, Step
<1>12. ASSUME NEW p \in Procs, Define(p) PROVE Transaction(q)'
  BY <1>12 DEF Define, Step
<1>13. ASSUME NEW p \in Procs, Recover(p) PROVE Transaction(q)'
  BY <1>13 DEF Recover, Step, CanDefine
<1>14. ASSUME NEW p \in Procs, Rollback(p) PROVE Transaction(q)'
  BY <1>14 DEF Rollback, Finish
<1>15. ASSUME NEW p \in Procs, SaveProfile(p) PROVE Transaction(q)'
  BY <1>15 DEF SaveProfile, Step, Finish
<1>16. ASSUME NEW p \in Procs, ClearPending(p) PROVE Transaction(q)'
  BY <1>16 DEF ClearPending, Finish
<1>17. ASSUME NEW p \in Procs, RetireTpm(p) PROVE Transaction(q)'
  BY <1>17 DEF RetireTpm, Finish
<1>18. ASSUME NEW p \in Procs, CreateVm(p) PROVE Transaction(q)'
  BY <1>18 DEF CreateVm, Finish
<1>19. ASSUME NEW p \in Procs, Exit(p) PROVE Transaction(q)'
  BY <1>19 DEF Exit, Step
<1>20. ASSUME NEW p \in Procs, Kill(p) PROVE Transaction(q)'
  BY <1>20 DEF Kill, Finish
<1>21. CASE SetDynamic \/ SetHook
  BY <1>21 DEF SetDynamic, SetHook
<1>22. CASE Start
  BY <1>22 DEF Start, MayStart
<1>23. CASE Launch
  BY <1>23 DEF Launch
<1>24. CASE Stop
  BY <1>24 DEF Stop, ScheduleRotation
<1>25. CASE Crash
  BY <1>25 DEF Crash
<1>26. CASE UNCHANGED vars
  BY <1>26 DEF vars
<1> QED
  BY <1>1, <1>2, <1>3, <1>4, <1>5, <1>6, <1>7, <1>8, <1>9, <1>10, <1>11, <1>12,
     <1>13, <1>14, <1>15, <1>16, <1>17, <1>18, <1>19, <1>20, <1>21, <1>22, <1>23,
     <1>24, <1>25, <1>26 DEF Next, Body

\* Whenever the lock is free the stores agree, and a running guest is served.
LEMMA RestStep == Disciplined /\ GuestInv /\ [Next]_vars
                    => AtRest' /\ Guest' /\ (lock # NoProc => pc[lock] \in Working)'
<1> DEFINE Rest == AtRest /\ Guest /\ (lock # NoProc => pc[lock] \in Working)
<1> SUFFICES ASSUME Disciplined, GuestInv, [Next]_vars PROVE Rest'
  OBVIOUS
<1> USE NoValueAssumption, CommandsAssumption
<1> USE DEF Disciplined, GuestInv, TypeInv, TypeOK, VmOK, LocalOK, LockOK, Working, Building,
        Labels, Operations, Rotations, Transaction, Informed, Defined, Sealed, Moved, AtRest,
        Guest, libvirtVars, settingVars, rotateVars, tpmVars, localVars
<1>1. ASSUME NEW p \in Procs, Invoke(p) PROVE Rest'
  BY <1>1 DEF Invoke, Begin, Step, CommandNames
<1>2. ASSUME NEW p \in Procs, ResumeVm(p) \/ ResumeSaves(p) PROVE Rest'
  BY <1>2 DEF ResumeVm, ResumeSaves, Begin, Step
<1>3. ASSUME NEW p \in Procs, TimerFires(p) PROVE Rest'
  BY <1>3 DEF TimerFires, Begin, Step
<1>4. ASSUME NEW p \in Procs, BootService(p) PROVE Rest'
  BY <1>4 DEF BootService, Begin, Step
<1>5. ASSUME NEW p \in Procs, Acquire(p) PROVE Rest'
  BY <1>5 DEF Acquire
<1>6. ASSUME NEW p \in Procs, EnsureInactive(p) PROVE Rest'
  BY <1>6 DEF EnsureInactive, Step, Finish
<1>7. ASSUME NEW p \in Procs, DumpXml(p) PROVE Rest'
  BY <1>7 DEF DumpXml, FromProfile, FreshUuids, Step, InUse
<1>8. ASSUME NEW p \in Procs, DumpFails(p) PROVE Rest'
  BY <1>8 DEF DumpFails, Finish, Known
<1>9. ASSUME NEW p \in Procs, MoveOut(p) PROVE Rest'
  BY <1>9 DEF MoveOut, Step, Finish
<1>10. ASSUME NEW p \in Procs, MoveIn(p) PROVE Rest'
  BY <1>10 DEF MoveIn, Step, Finish
<1>11. ASSUME NEW p \in Procs, Undefine(p) PROVE Rest'
  BY <1>11 DEF Undefine, Step
<1>12. ASSUME NEW p \in Procs, Define(p) PROVE Rest'
  BY <1>12 DEF Define, Step
<1>13. ASSUME NEW p \in Procs, Recover(p) PROVE Rest'
  BY <1>13 DEF Recover, Step, CanDefine
<1>14. ASSUME NEW p \in Procs, Rollback(p) PROVE Rest'
  BY <1>14 DEF Rollback, Finish
<1>15. ASSUME NEW p \in Procs, SaveProfile(p) PROVE Rest'
  BY <1>15 DEF SaveProfile, Step, Finish
<1>16. ASSUME NEW p \in Procs, ClearPending(p) PROVE Rest'
  BY <1>16 DEF ClearPending, Finish
<1>17. ASSUME NEW p \in Procs, RetireTpm(p) PROVE Rest'
  BY <1>17 DEF RetireTpm, Finish
<1>18. ASSUME NEW p \in Procs, CreateVm(p) PROVE Rest'
  BY <1>18 DEF CreateVm, Finish
<1>19. ASSUME NEW p \in Procs, Exit(p) PROVE Rest'
  BY <1>19 DEF Exit, Step
<1>20. ASSUME NEW p \in Procs, Kill(p) PROVE Rest'
  BY <1>20 DEF Kill, Finish
<1>21. CASE SetDynamic \/ SetHook
  BY <1>21 DEF SetDynamic, SetHook
<1>22. CASE Start
  BY <1>22 DEF Start, MayStart
<1>23. CASE Launch
  BY <1>23 DEF Launch
<1>24. CASE Stop
  BY <1>24 DEF Stop, ScheduleRotation
<1>25. CASE Crash
  BY <1>25 DEF Crash
<1>26. CASE UNCHANGED vars
  BY <1>26 DEF vars
<1> QED
  BY <1>1, <1>2, <1>3, <1>4, <1>5, <1>6, <1>7, <1>8, <1>9, <1>10, <1>11, <1>12,
     <1>13, <1>14, <1>15, <1>16, <1>17, <1>18, <1>19, <1>20, <1>21, <1>22, <1>23,
     <1>24, <1>25, <1>26 DEF Next, Body

LEMMA GuestInit == Disciplined /\ Init => GuestInv
<1> SUFFICES ASSUME Init PROVE GuestInv
  OBVIOUS
<1>1. TypeInv
  BY TypeInit
<1>2. \A p \in Procs : LockOK(p)
  BY DEF Init, LockOK, Working
<1>3. \A p \in Procs : Transaction(p)
  BY DEF Init, Transaction, Working
<1>4. AtRest /\ Guest /\ (lock # NoProc => pc[lock] \in Working)
  BY DEF Init, AtRest, Guest
<1> QED
  BY <1>1, <1>2, <1>3, <1>4 DEF GuestInv

\* GuestInv is an invariant wherever only definitions and their recoveries fail.
LEMMA GuestInvariant == ASSUME Disciplined PROVE Spec => []GuestInv
<1>1. Init => GuestInv
  BY GuestInit
<1>2. GuestInv /\ [Next]_vars => GuestInv'
  BY TypeStep, LockStep, TransactionStep, RestStep DEF GuestInv
<1> QED
  BY <1>1, <1>2, PTL DEF Spec

\* However rotations, rebuilds and refused definitions follow one another, a
\* running guest talks to the TPM it is sealed to.
THEOREM GuestTpmIsKept == ASSUME Disciplined PROVE Spec => []GuestKeepsTpm
<1>1. GuestInv => GuestKeepsTpm
  BY DEF GuestInv, Guest, GuestKeepsTpm
<1> QED
  BY <1>1, GuestInvariant, PTL

\* Whatever definitions and recoveries libvirt refuses, the UUID in the profile leads to
\* the TPM the guest is sealed to: defining the VM again from the profile finds it.
THEOREM ProfileLeadsToTpm == ASSUME Disciplined PROVE Spec => []TpmFollowsProfile
<1>1. GuestInv => TpmFollowsProfile
  <2> SUFFICES ASSUME GuestInv, Quiescent PROVE swtpm[profile] = sealed
    BY DEF TpmFollowsProfile
  <2>1. lock = NoProc
    BY DEF GuestInv, TypeInv, TypeOK, Quiescent, Working
  <2> QED
    BY <2>1 DEF GuestInv, AtRest
<1> QED
  BY <1>1, GuestInvariant, PTL

LEMMA RefinementStep == Disciplined /\ GuestInv /\ [Next]_vars => [Promise!Next]_(Promise!vars)
<1> SUFFICES ASSUME Disciplined, GuestInv, [Next]_vars
             PROVE  Promise!Next \/ UNCHANGED <<profile, sealed, running, attached>>
  BY DEF Promise!vars
<1> USE DEF Disciplined, GuestInv, TypeInv, TypeOK, AtRest, Guest
<1>1. ASSUME NEW p \in Procs, SaveProfile(p)
      PROVE  Promise!Rotate \/ UNCHANGED <<profile, sealed, running, attached>>
  BY <1>1 DEF SaveProfile, Transaction, Informed, LocalOK, Working, Labels, Building, Rotations,
              libvirtVars, tpmVars, Promise!Rotate
<1>2. ASSUME NEW p \in Procs, RetireTpm(p) PROVE Promise!Recreate
  BY <1>2 DEF RetireTpm, Transaction, Informed, Working, Labels, libvirtVars, Promise!Recreate
<1>3. ASSUME Start PROVE Promise!PowerOn
  BY <1>3 DEF Start, MayStart, tpmVars, Promise!PowerOn
<1>4. ASSUME Launch PROVE Promise!PlugTpm
  <2>1. swtpm[profile] = sealed
    BY <1>4 DEF Launch, Transaction, Informed, Sealed, Moved, Working, Rotations
  <2>2. running = profile /\ running # NoUuid /\ attached = NoTpm /\ UNCHANGED <<profile, running>>
    BY <1>4, NoValueAssumption DEF Launch
  <2>3. attached' \in (IF sealed = NoTpm THEN Tpms ELSE {sealed}) /\ sealed' = attached'
    BY <1>4, <2>1, <2>2 DEF Launch
  <2> QED
    BY <2>2, <2>3 DEF Promise!PlugTpm
<1>5. ASSUME Stop PROVE Promise!PowerOff
  BY <1>5, NoValueAssumption DEF Stop, VmOK, tpmVars, Promise!PowerOff
<1>6. ASSUME NEW p \in Procs, CreateVm(p) \/ ResumeSaves(p) PROVE FALSE
  BY <1>6 DEF CreateVm, ResumeSaves, Transaction
<1>7. CASE UNCHANGED <<profile, sealed, running, attached>>
  BY <1>7
<1> QED
  BY <1>1, <1>2, <1>3, <1>4, <1>5, <1>6, <1>7
  DEF Next, Body, libvirtVars, tpmVars, vars, Invoke, ResumeVm, TimerFires, BootService,
      Acquire, EnsureInactive, DumpXml, FromProfile, FreshUuids, DumpFails, MoveOut, MoveIn,
      Undefine, Define, Recover,
      Rollback, ClearPending, Exit, Kill, SetDynamic, SetHook, Crash, Promise!Next

\* Seen through the committed UUID and the sealed TPM, every run of the
\* commands is a behaviour of VmIdentity.
THEOREM PromiseIsKept == ASSUME Disciplined PROVE Spec => PromiseKept
<1>1. Init => Promise!Init
  BY DEF Init, Promise!Init
<1>2. GuestInv /\ [Next]_vars => [Promise!Next]_(Promise!vars)
  BY RefinementStep
<1> QED
  BY <1>1, <1>2, GuestInvariant, PTL DEF Spec, PromiseKept, Promise!Spec

-----------------------------------------------------------------------------
(* Survival of the definition                                              *)

\* No process of _replace_definition dies and libvirt takes back what it had: all that is
\* asked for; starts may race with commands and resume-vm may work without the lock.
Recoverable == Faults \cap {"kill", "crash", "recoveryFails"} = {}

\* p has undefined the VM, and nothing that is still running keeps libvirt from accepting
\* the previous definition again.
Redefines(p) == pc[p] \in {"define", "recover"} /\ running \in {NoUuid, previous[p]}

SurvivalInv ==
  /\ TypeInv
  /\ domain # NoUuid => running \in {NoUuid, domain}
  /\ domain = NoUuid => \E p \in Procs : Redefines(p)

LEMMA SurvivalStep == Recoverable /\ SurvivalInv /\ [Next]_vars => SurvivalInv'
<1> SUFFICES ASSUME Recoverable, SurvivalInv, [Next]_vars PROVE SurvivalInv'
  OBVIOUS
<1>0. TypeInv /\ TypeInv'
  BY TypeStep DEF SurvivalInv
<1> DEFINE Waits == \A p \in Procs : pc[p] \in {"define", "recover"} =>
                       pc'[p] = pc[p] /\ previous'[p] = previous[p]
<1>1. ASSUME domain' = domain, running' \in {NoUuid, running}, Waits PROVE SurvivalInv'
  BY <1>0, <1>1 DEF SurvivalInv, Redefines
<1> HIDE DEF Waits
<1> USE <1>0 DEF TypeInv, TypeOK, LocalOK, libvirtVars, settingVars, rotateVars, tpmVars, localVars
<1>2. ASSUME NEW p \in Procs,
             Invoke(p) \/ ResumeVm(p) \/ ResumeSaves(p) \/ TimerFires(p) \/ BootService(p) \/ Acquire(p)
      PROVE  SurvivalInv'
  <2>1. domain' = domain /\ running' = running /\ previous' = previous
    BY <1>2 DEF Invoke, ResumeVm, ResumeSaves, TimerFires, BootService, Acquire
  <2>2. pc' = pc \/ (pc[p] \in {"idle", "resave", "lock"} /\ \E l \in Labels : pc' = [pc EXCEPT ![p] = l])
    BY <1>2 DEF Invoke, ResumeVm, ResumeSaves, TimerFires, BootService, Acquire, Begin, Step, Labels
  <2>3. Waits
    BY <2>1, <2>2 DEF Waits
  <2> QED  BY <1>1, <2>1, <2>3
<1>3. ASSUME NEW p \in Procs,
             EnsureInactive(p) \/ DumpXml(p) \/ DumpFails(p) \/ MoveOut(p) \/ MoveIn(p)
      PROVE  SurvivalInv'
  <2>1. domain' = domain /\ running' = running
    BY <1>3 DEF EnsureInactive, DumpXml, DumpFails, MoveOut, MoveIn
  <2>2. pc[p] \notin {"define", "recover"}
    BY <1>3 DEF EnsureInactive, DumpXml, DumpFails, MoveOut, MoveIn
  <2>3. \A q \in Procs \ {p} : pc'[q] = pc[q] /\ previous'[q] = previous[q]
    BY <1>3 DEF EnsureInactive, DumpXml, DumpFails, MoveOut, MoveIn, Step, Finish
  <2> QED  BY <1>1, <2>1, <2>2, <2>3 DEF Waits
<1>4. ASSUME NEW p \in Procs,
             Rollback(p) \/ SaveProfile(p) \/ ClearPending(p) \/ RetireTpm(p) \/ Exit(p)
      PROVE  SurvivalInv'
  <2>1. domain' = domain /\ running' = running
    BY <1>4 DEF Rollback, SaveProfile, ClearPending, RetireTpm, Exit
  <2>2. pc[p] \notin {"define", "recover"}
    BY <1>4 DEF Rollback, SaveProfile, ClearPending, RetireTpm, Exit
  <2>3. \A q \in Procs \ {p} : pc'[q] = pc[q] /\ previous'[q] = previous[q]
    BY <1>4 DEF Rollback, SaveProfile, ClearPending, RetireTpm, Exit, Step, Finish
  <2> QED  BY <1>1, <2>1, <2>2, <2>3 DEF Waits
<1>5. ASSUME NEW p \in Procs, Undefine(p) PROVE SurvivalInv'
  <2>1. CASE domain # NoUuid /\ domain' = NoUuid /\ previous' = [previous EXCEPT ![p] = domain]
             /\ Step(p, "define")
    <3>1. running' \in {NoUuid, domain}
      BY <1>5, <2>1 DEF SurvivalInv, Undefine
    <3>2. Redefines(p)'
      BY <2>1, <3>1 DEF Redefines, Step
    <3> QED  BY <1>0, <2>1, <3>2 DEF SurvivalInv
  <2>2. CASE Step(p, "rollback") /\ UNCHANGED <<domain, previous>>
    <3>1. Waits
      BY <1>5, <2>2 DEF Undefine, Step, Waits
    <3> QED  BY <1>1, <1>5, <2>2, <3>1 DEF Undefine
  <2> QED  BY <1>5, <2>1, <2>2 DEF Undefine
<1>6. ASSUME NEW p \in Procs, Define(p) PROVE SurvivalInv'
  <2>1. CASE CanDefine(new[p]) /\ domain' = new[p]
    <3>1. domain' # NoUuid /\ running' \in {NoUuid, domain'}
      BY <1>6, <2>1, NoValueAssumption DEF Define, CanDefine, Building
    <3> QED  BY <1>0, <3>1 DEF SurvivalInv
  <2>2. CASE Step(p, "recover") /\ UNCHANGED domain
    <3>1. running' = running /\ previous' = previous
      BY <1>6 DEF Define
    <3>2. \A q \in Procs : Redefines(q) => Redefines(q)'
      BY <1>6, <2>2, <3>1 DEF Redefines, Step
    <3> QED  BY <1>0, <2>2, <3>1, <3>2 DEF SurvivalInv
  <2> QED  BY <1>6, <2>1, <2>2 DEF Define
<1>7. ASSUME NEW p \in Procs, Recover(p) PROVE SurvivalInv'
  <2>1. CASE CanDefine(previous[p]) /\ domain' = previous[p]
    <3>1. domain' # NoUuid /\ running' \in {NoUuid, domain'}
      BY <1>7, <2>1, NoValueAssumption DEF Recover, CanDefine
    <3> QED  BY <1>0, <3>1 DEF SurvivalInv
  <2>2. CASE ~CanDefine(previous[p]) /\ UNCHANGED domain
    <3>1. running' = running /\ previous' = previous
      BY <1>7 DEF Recover
    <3>2. domain = NoUuid => ~Redefines(p)
      BY <2>2 DEF CanDefine, Redefines
    <3>3. \A q \in Procs \ {p} : Redefines(q) => Redefines(q)'
      BY <1>7, <3>1 DEF Redefines, Recover, Step
    <3> QED  BY <1>0, <2>2, <3>1, <3>2, <3>3 DEF SurvivalInv
  <2> QED  BY <1>7, <2>1, <2>2 DEF Recover, Recoverable
<1>8. ASSUME NEW p \in Procs, CreateVm(p) PROVE SurvivalInv'
  <2>1. CASE Known /\ UNCHANGED domain
    <3>1. Waits
      BY <1>8 DEF CreateVm, Finish, Waits
    <3> QED  BY <1>1, <1>8, <2>1, <3>1 DEF CreateVm
  <2>2. CASE ~Known /\ domain' = loaded[p]
    <3>1. domain' # NoUuid /\ running' = NoUuid
      BY <1>8, <2>2, NoValueAssumption DEF CreateVm, Known, Working, Labels
    <3> QED  BY <1>0, <3>1 DEF SurvivalInv
  <2>3. CASE ~Known /\ UNCHANGED domain
    <3>1. Waits
      BY <1>8 DEF CreateVm, Finish, Waits
    <3> QED  BY <1>1, <1>8, <2>3, <3>1 DEF CreateVm
  <2> QED  BY <1>8, <2>1, <2>2, <2>3 DEF CreateVm
<1>9. ASSUME NEW p \in Procs, Kill(p) PROVE SurvivalInv'
  BY <1>9 DEF Kill, Recoverable
<1>10. CASE SetDynamic \/ SetHook \/ Launch \/ Stop \/ UNCHANGED vars
  <2>1. domain' = domain /\ running' \in {NoUuid, running} /\ pc' = pc /\ previous' = previous
    BY <1>10 DEF SetDynamic, SetHook, Launch, Stop, vars
  <2> QED  BY <1>1, <2>1 DEF Waits
<1>11. CASE Start
  <2>1. domain # NoUuid /\ domain' = domain /\ running' = domain
    BY <1>11 DEF Start
  <2> QED  BY <1>0, <2>1 DEF SurvivalInv
<1>12. CASE Crash
  BY <1>12 DEF Crash, Recoverable
<1> QED
  BY <1>2, <1>3, <1>4, <1>5, <1>6, <1>7, <1>8, <1>9, <1>10, <1>11, <1>12 DEF Next, Body

\* Between commands the VM is defined, whatever definitions libvirt refused, whoever
\* started the VM meanwhile and however many resume-vm worked beside the lock's holder.
THEOREM DefinitionSurvives == ASSUME Recoverable PROVE Spec => []DomainSurvives
<1>1. Init => SurvivalInv
  BY TypeInit, NoValueAssumption DEF Init, SurvivalInv
<1>2. SurvivalInv => DomainSurvives
  BY DEF SurvivalInv, Redefines, DomainSurvives, Quiescent, Known
<1> QED
  BY <1>1, <1>2, SurvivalStep, PTL DEF Spec

-----------------------------------------------------------------------------
(* What survives more than Disciplined: kills, crashes, failing renames,   *)
(* racing starts                                                           *)

\* Nobody works beside the holder of the lock.
Exclusive == "resume" \notin Commands

\* What _replace_definition has undefined it can define again: nobody else defines the VM
\* meanwhile, and what is running was started from it.
Replacing(p) ==
  /\ op[p] \notin {"resume", "create"} /\ pc[p] \notin {"create", "resave"}
  /\ pc[p] \in {"define", "recover"} => domain = NoUuid /\ running \in {NoUuid, previous[p]}
  /\ pc[p] = "rollback" => previous[p] \in {NoUuid, domain}
  /\ pc[p] \notin {"define", "recover", "rollback", "save", "clear"} => previous[p] = NoUuid

ReplaceInv ==
  /\ TypeInv
  /\ domain # NoUuid => running \in {NoUuid, domain}
  /\ \A p \in Procs : LockOK(p) /\ Replacing(p)

LEMMA ReplaceStep == Exclusive /\ "recoveryFails" \notin Faults /\ ReplaceInv /\ [Next]_vars
                       => ReplaceInv'
<1> DEFINE Kept == /\ (domain # NoUuid => running \in {NoUuid, domain})'
                   /\ \A q \in Procs : Replacing(q)'
<1> SUFFICES ASSUME Exclusive, "recoveryFails" \notin Faults, ReplaceInv, [Next]_vars
             PROVE  Kept
  BY TypeStep, LockStep DEF ReplaceInv
<1> USE NoValueAssumption, CommandsAssumption
<1> USE DEF Exclusive, ReplaceInv, TypeInv, TypeOK, VmOK, LocalOK, LockOK, Working, Building,
        Labels, Operations, Rotations, Replacing, libvirtVars, settingVars, rotateVars, tpmVars, localVars
<1>1. ASSUME NEW p \in Procs, Invoke(p) PROVE Kept
  BY <1>1 DEF Invoke, Begin, Step, CommandNames
<1>2. ASSUME NEW p \in Procs, ResumeVm(p) \/ ResumeSaves(p) PROVE Kept
  BY <1>2 DEF ResumeVm, ResumeSaves, Begin, Step
<1>3. ASSUME NEW p \in Procs, TimerFires(p) PROVE Kept
  BY <1>3 DEF TimerFires, Begin, Step
<1>4. ASSUME NEW p \in Procs, BootService(p) PROVE Kept
  BY <1>4 DEF BootService, Begin, Step
<1>5. ASSUME NEW p \in Procs, Acquire(p) PROVE Kept
  BY <1>5 DEF Acquire
<1>6. ASSUME NEW p \in Procs, EnsureInactive(p) PROVE Kept
  BY <1>6 DEF EnsureInactive, Step, Finish
<1>7. ASSUME NEW p \in Procs, DumpXml(p) PROVE Kept
  BY <1>7 DEF DumpXml, FromProfile, FreshUuids, Step
<1>8. ASSUME NEW p \in Procs, DumpFails(p) PROVE Kept
  BY <1>8 DEF DumpFails, Finish, Known
<1>9. ASSUME NEW p \in Procs, MoveOut(p) PROVE Kept
  BY <1>9 DEF MoveOut, Step, Finish
<1>10. ASSUME NEW p \in Procs, MoveIn(p) PROVE Kept
  BY <1>10 DEF MoveIn, Step, Finish
<1>11. ASSUME NEW p \in Procs, Undefine(p) PROVE Kept
  BY <1>11 DEF Undefine, Step
<1>12. ASSUME NEW p \in Procs, Define(p) PROVE Kept
  BY <1>12 DEF Define, Step, CanDefine
<1>13. ASSUME NEW p \in Procs, Recover(p) PROVE Kept
  BY <1>13 DEF Recover, Step, CanDefine
<1>14. ASSUME NEW p \in Procs, Rollback(p) PROVE Kept
  BY <1>14 DEF Rollback, Finish
<1>15. ASSUME NEW p \in Procs, SaveProfile(p) PROVE Kept
  BY <1>15 DEF SaveProfile, Step, Finish
<1>16. ASSUME NEW p \in Procs, ClearPending(p) PROVE Kept
  BY <1>16 DEF ClearPending, Finish
<1>17. ASSUME NEW p \in Procs, RetireTpm(p) PROVE Kept
  BY <1>17 DEF RetireTpm, Finish
<1>18. ASSUME NEW p \in Procs, CreateVm(p) PROVE Kept
  BY <1>18 DEF CreateVm, Finish
<1>19. ASSUME NEW p \in Procs, Exit(p) PROVE Kept
  BY <1>19 DEF Exit, Step
<1>20. ASSUME NEW p \in Procs, Kill(p) PROVE Kept
  BY <1>20 DEF Kill, Finish
<1>21. CASE SetDynamic \/ SetHook
  BY <1>21 DEF SetDynamic, SetHook
<1>22. CASE Start
  BY <1>22 DEF Start
<1>23. CASE Launch
  BY <1>23 DEF Launch
<1>24. CASE Stop
  BY <1>24 DEF Stop, ScheduleRotation
<1>25. CASE Crash
  BY <1>25 DEF Crash
<1>26. CASE UNCHANGED vars
  BY <1>26 DEF vars
<1> QED
  BY <1>1, <1>2, <1>3, <1>4, <1>5, <1>6, <1>7, <1>8, <1>9, <1>10, <1>11, <1>12,
     <1>13, <1>14, <1>15, <1>16, <1>17, <1>18, <1>19, <1>20, <1>21, <1>22, <1>23,
     <1>24, <1>25, <1>26 DEF Next, Body

\* The command that holds the lock and the two stores: the definition is the profile's,
\* gone, or new and not yet saved.
Committing(p) ==
  /\ pc[p] \in Working => lock = p
  /\ pc[p] \in Working \ {"clear"} => loaded[p] = profile
  /\ pc[p] \in Building \ {"clear"} /\ op[p] \notin Rotations => new[p] = profile
  /\ pc[p] \in {"define", "recover"} => previous[p] = profile
  /\ pc[p] = "save" => domain = new[p]
  /\ pc[p] \in Working \ {"define", "recover", "save"} => domain = profile

StoresInv ==
  /\ ReplaceInv /\ \A p \in Procs : Committing(p)
  /\ lock = NoProc => domain = profile
  /\ lock # NoProc => pc[lock] \in Working

LEMMA StoresStep == Exclusive /\ Recoverable /\ StoresInv /\ [Next]_vars => StoresInv'
<1> DEFINE Agree == /\ \A q \in Procs : Committing(q)'
                    /\ (lock = NoProc => domain = profile)'
                    /\ (lock # NoProc => pc[lock] \in Working)'
<1> SUFFICES ASSUME Exclusive, Recoverable, StoresInv, [Next]_vars PROVE Agree
  BY ReplaceStep DEF StoresInv, Recoverable
<1> USE NoValueAssumption, CommandsAssumption
<1> USE DEF Exclusive, Recoverable, StoresInv, ReplaceInv, TypeInv, TypeOK, VmOK, LocalOK,
        LockOK, Working, Building, Labels, Operations, Rotations, Replacing, Committing,
        libvirtVars, settingVars, rotateVars, tpmVars, localVars
<1>1. ASSUME NEW p \in Procs, Invoke(p) PROVE Agree
  BY <1>1 DEF Invoke, Begin, Step, CommandNames
<1>2. ASSUME NEW p \in Procs, ResumeVm(p) \/ ResumeSaves(p) PROVE Agree
  BY <1>2 DEF ResumeVm, ResumeSaves, Begin, Step
<1>3. ASSUME NEW p \in Procs, TimerFires(p) PROVE Agree
  BY <1>3 DEF TimerFires, Begin, Step
<1>4. ASSUME NEW p \in Procs, BootService(p) PROVE Agree
  BY <1>4 DEF BootService, Begin, Step
<1>5. ASSUME NEW p \in Procs, Acquire(p) PROVE Agree
  BY <1>5 DEF Acquire
<1>6. ASSUME NEW p \in Procs, EnsureInactive(p) PROVE Agree
  BY <1>6 DEF EnsureInactive, Step, Finish
<1>7. ASSUME NEW p \in Procs, DumpXml(p) PROVE Agree
  BY <1>7 DEF DumpXml, FromProfile, FreshUuids, Step
<1>8. ASSUME NEW p \in Procs, DumpFails(p) PROVE Agree
  BY <1>8 DEF DumpFails, Finish, Known
<1>9. ASSUME NEW p \in Procs, MoveOut(p) PROVE Agree
  BY <1>9 DEF MoveOut, Step, Finish
<1>10. ASSUME NEW p \in Procs, MoveIn(p) PROVE Agree
  BY <1>10 DEF MoveIn, Step, Finish
<1>11. ASSUME NEW p \in Procs, Undefine(p) PROVE Agree
  BY <1>11 DEF Undefine, Step
<1>12. ASSUME NEW p \in Procs, Define(p) PROVE Agree
  BY <1>12 DEF Define, Step, CanDefine
<1>13. ASSUME NEW p \in Procs, Recover(p) PROVE Agree
  BY <1>13 DEF Recover, Step, CanDefine
<1>14. ASSUME NEW p \in Procs, Rollback(p) PROVE Agree
  BY <1>14 DEF Rollback, Finish
<1>15. ASSUME NEW p \in Procs, SaveProfile(p) PROVE Agree
  BY <1>15 DEF SaveProfile, Step, Finish
<1>16. ASSUME NEW p \in Procs, ClearPending(p) PROVE Agree
  BY <1>16 DEF ClearPending, Finish
<1>17. ASSUME NEW p \in Procs, RetireTpm(p) PROVE Agree
  BY <1>17 DEF RetireTpm, Finish
<1>18. ASSUME NEW p \in Procs, CreateVm(p) PROVE Agree
  BY <1>18 DEF CreateVm, Finish
<1>19. ASSUME NEW p \in Procs, Exit(p) PROVE Agree
  BY <1>19 DEF Exit, Step
<1>20. ASSUME NEW p \in Procs, Kill(p) PROVE Agree
  BY <1>20 DEF Kill, Finish
<1>21. CASE SetDynamic \/ SetHook
  BY <1>21 DEF SetDynamic, SetHook
<1>22. CASE Start
  BY <1>22 DEF Start
<1>23. CASE Launch
  BY <1>23 DEF Launch
<1>24. CASE Stop
  BY <1>24 DEF Stop, ScheduleRotation
<1>25. CASE Crash
  BY <1>25 DEF Crash
<1>26. CASE UNCHANGED vars
  BY <1>26 DEF vars
<1> QED
  BY <1>1, <1>2, <1>3, <1>4, <1>5, <1>6, <1>7, <1>8, <1>9, <1>10, <1>11, <1>12,
     <1>13, <1>14, <1>15, <1>16, <1>17, <1>18, <1>19, <1>20, <1>21, <1>22, <1>23,
     <1>24, <1>25, <1>26 DEF Next, Body

\* Between commands the profile and libvirt name the same UUID, whatever definition or
\* rename failed and whoever started the VM meanwhile.
THEOREM StoresAgree == ASSUME Exclusive, Recoverable  PROVE Spec => []ProfileMatchesDomain
<1>1. Init => StoresInv
  BY TypeInit, NoValueAssumption
     DEF Init, StoresInv, ReplaceInv, Replacing, Committing, LockOK, Working, Building, Labels
<1>2. StoresInv => ProfileMatchesDomain
  BY DEF StoresInv, ReplaceInv, TypeInv, TypeOK, Working, ProfileMatchesDomain, Quiescent
<1> QED
  BY <1>1, <1>2, StoresStep, PTL DEF Spec

-----------------------------------------------------------------------------
(* A rotation that is owed stays on disk                                   *)

\* Processes may be killed, the host may crash, libvirt and rename may fail;
\* but nobody starts the VM under a running command, and neither
\* rebuild-artifacts, which drops the mark, nor resume-vm is used.
Marked == "startRace" \notin Faults /\ Commands \cap {"rebuild", "resume"} = {}

\* An identity that may still be defined again, and that was booted, is owed.
Remembered(u) == dynamic /\ u \in booted => pending

Owing(p) ==
  /\ op[p] \notin {"rebuild", "resume", "create"} /\ pc[p] \notin {"create", "resave"}
  /\ pc[p] \in Working => lock = p
  /\ pc[p] \notin Working => loaded[p] = NoUuid /\ new[p] = NoUuid /\ previous[p] = NoUuid
  /\ Remembered(loaded[p]) /\ Remembered(new[p]) /\ Remembered(previous[p])
  /\ pc[p] \in Building /\ op[p] \in Rotations => new[p] \notin booted
  /\ pc[p] \in {"save", "clear"} => domain = new[p]
  /\ pc[p] = "clear" => op[p] \in Rotations /\ profile = new[p]

OwedInv == /\ TypeInv /\ Remembered(domain) /\ Remembered(profile)
           /\ ~dynamic => booted = {}
           /\ \A p \in Procs : Owing(p)

LEMMA OwingStep == Marked /\ OwedInv /\ [Next]_vars => \A q \in Procs : Owing(q)'
<1> SUFFICES ASSUME Marked, OwedInv, [Next]_vars, NEW q \in Procs PROVE Owing(q)'
  OBVIOUS
<1> USE NoValueAssumption, CommandsAssumption
<1> USE DEF Marked, OwedInv, TypeInv, TypeOK, VmOK, LocalOK, Working, Building, Labels,
        Operations, Rotations, Owing, Remembered, libvirtVars, settingVars, rotateVars, tpmVars, localVars
<1>1. ASSUME NEW p \in Procs, Invoke(p) PROVE Owing(q)'
  BY <1>1 DEF Invoke, Begin, Step, CommandNames
<1>2. ASSUME NEW p \in Procs, ResumeVm(p) \/ ResumeSaves(p) PROVE Owing(q)'
  BY <1>2 DEF ResumeVm, ResumeSaves
<1>3. ASSUME NEW p \in Procs, TimerFires(p) PROVE Owing(q)'
  BY <1>3 DEF TimerFires, Begin, Step
<1>4. ASSUME NEW p \in Procs, BootService(p) PROVE Owing(q)'
  BY <1>4 DEF BootService, Begin, Step
<1>5. ASSUME NEW p \in Procs, Acquire(p) PROVE Owing(q)'
  BY <1>5 DEF Acquire
<1>6. ASSUME NEW p \in Procs, EnsureInactive(p) PROVE Owing(q)'
  BY <1>6 DEF EnsureInactive, Step, Finish
<1>7. ASSUME NEW p \in Procs, DumpXml(p) PROVE Owing(q)'
  BY <1>7 DEF DumpXml, FromProfile, FreshUuids, Step, InUse, Known
<1>8. ASSUME NEW p \in Procs, DumpFails(p) PROVE Owing(q)'
  BY <1>8 DEF DumpFails, Finish, Known
<1>9. ASSUME NEW p \in Procs, MoveOut(p) PROVE Owing(q)'
  BY <1>9 DEF MoveOut, Step, Finish
<1>10. ASSUME NEW p \in Procs, MoveIn(p) PROVE Owing(q)'
  BY <1>10 DEF MoveIn, Step, Finish
<1>11. ASSUME NEW p \in Procs, Undefine(p) PROVE Owing(q)'
  BY <1>11 DEF Undefine, Step
<1>12. ASSUME NEW p \in Procs, Define(p) PROVE Owing(q)'
  BY <1>12 DEF Define, Step
<1>13. ASSUME NEW p \in Procs, Recover(p) PROVE Owing(q)'
  BY <1>13 DEF Recover, Step, CanDefine
<1>14. ASSUME NEW p \in Procs, Rollback(p) PROVE Owing(q)'
  BY <1>14 DEF Rollback, Finish
<1>15. ASSUME NEW p \in Procs, SaveProfile(p) PROVE Owing(q)'
  BY <1>15 DEF SaveProfile, Step, Finish
<1>16. ASSUME NEW p \in Procs, ClearPending(p) PROVE Owing(q)'
  BY <1>16 DEF ClearPending, Finish
<1>17. ASSUME NEW p \in Procs, RetireTpm(p) PROVE Owing(q)'
  BY <1>17 DEF RetireTpm, Finish
<1>18. ASSUME NEW p \in Procs, CreateVm(p) PROVE Owing(q)'
  BY <1>18 DEF CreateVm, Finish
<1>19. ASSUME NEW p \in Procs, Exit(p) PROVE Owing(q)'
  BY <1>19 DEF Exit, Step
<1>20. ASSUME NEW p \in Procs, Kill(p) PROVE Owing(q)'
  BY <1>20 DEF Kill, Finish
<1>21. CASE SetDynamic \/ SetHook
  BY <1>21 DEF SetDynamic, SetHook
<1>22. CASE Start
  BY <1>22 DEF Start, MayStart
<1>23. CASE Launch
  BY <1>23 DEF Launch
<1>24. CASE Stop
  BY <1>24 DEF Stop, ScheduleRotation
<1>25. CASE Crash
  BY <1>25 DEF Crash
<1>26. CASE UNCHANGED vars
  BY <1>26 DEF vars
<1> QED
  BY <1>1, <1>2, <1>3, <1>4, <1>5, <1>6, <1>7, <1>8, <1>9, <1>10, <1>11, <1>12,
     <1>13, <1>14, <1>15, <1>16, <1>17, <1>18, <1>19, <1>20, <1>21, <1>22, <1>23,
     <1>24, <1>25, <1>26 DEF Next, Body

LEMMA RememberedStep == Marked /\ OwedInv /\ [Next]_vars
            => (Remembered(domain) /\ Remembered(profile) /\ (~dynamic => booted = {}))'
<1> DEFINE Owed == Remembered(domain) /\ Remembered(profile) /\ (~dynamic => booted = {})
<1> SUFFICES ASSUME Marked, OwedInv, [Next]_vars PROVE Owed'
  OBVIOUS
<1> USE NoValueAssumption, CommandsAssumption
<1> USE DEF Marked, OwedInv, TypeInv, TypeOK, VmOK, LocalOK, Working, Building, Labels,
        Operations, Rotations, Owing, Remembered, libvirtVars, settingVars, rotateVars, tpmVars, localVars
<1>1. ASSUME NEW p \in Procs, Invoke(p) PROVE Owed'
  BY <1>1 DEF Invoke, Begin, Step, CommandNames
<1>2. ASSUME NEW p \in Procs, ResumeVm(p) \/ ResumeSaves(p) PROVE Owed'
  BY <1>2 DEF ResumeVm, ResumeSaves
<1>3. ASSUME NEW p \in Procs, TimerFires(p) PROVE Owed'
  BY <1>3 DEF TimerFires, Begin, Step
<1>4. ASSUME NEW p \in Procs, BootService(p) PROVE Owed'
  BY <1>4 DEF BootService, Begin, Step
<1>5. ASSUME NEW p \in Procs, Acquire(p) PROVE Owed'
  BY <1>5 DEF Acquire
<1>6. ASSUME NEW p \in Procs, EnsureInactive(p) PROVE Owed'
  BY <1>6 DEF EnsureInactive, Step, Finish
<1>7. ASSUME NEW p \in Procs, DumpXml(p) PROVE Owed'
  BY <1>7 DEF DumpXml, FromProfile, FreshUuids, Step, InUse, Known
<1>8. ASSUME NEW p \in Procs, DumpFails(p) PROVE Owed'
  BY <1>8 DEF DumpFails, Finish, Known
<1>9. ASSUME NEW p \in Procs, MoveOut(p) PROVE Owed'
  BY <1>9 DEF MoveOut, Step, Finish
<1>10. ASSUME NEW p \in Procs, MoveIn(p) PROVE Owed'
  BY <1>10 DEF MoveIn, Step, Finish
<1>11. ASSUME NEW p \in Procs, Undefine(p) PROVE Owed'
  BY <1>11 DEF Undefine, Step
<1>12. ASSUME NEW p \in Procs, Define(p) PROVE Owed'
  BY <1>12 DEF Define, Step
<1>13. ASSUME NEW p \in Procs, Recover(p) PROVE Owed'
  BY <1>13 DEF Recover, Step, CanDefine
<1>14. ASSUME NEW p \in Procs, Rollback(p) PROVE Owed'
  BY <1>14 DEF Rollback, Finish
<1>15. ASSUME NEW p \in Procs, SaveProfile(p) PROVE Owed'
  BY <1>15 DEF SaveProfile, Step, Finish
<1>16. ASSUME NEW p \in Procs, ClearPending(p) PROVE Owed'
  BY <1>16 DEF ClearPending, Finish
<1>17. ASSUME NEW p \in Procs, RetireTpm(p) PROVE Owed'
  BY <1>17 DEF RetireTpm, Finish
<1>18. ASSUME NEW p \in Procs, CreateVm(p) PROVE Owed'
  BY <1>18 DEF CreateVm, Finish
<1>19. ASSUME NEW p \in Procs, Exit(p) PROVE Owed'
  BY <1>19 DEF Exit, Step
<1>20. ASSUME NEW p \in Procs, Kill(p) PROVE Owed'
  BY <1>20 DEF Kill, Finish
<1>21. CASE SetDynamic \/ SetHook
  BY <1>21 DEF SetDynamic, SetHook
<1>22. CASE Start
  BY <1>22 DEF Start, MayStart
<1>23. CASE Launch
  BY <1>23 DEF Launch
<1>24. CASE Stop
  BY <1>24 DEF Stop, ScheduleRotation
<1>25. CASE Crash
  BY <1>25 DEF Crash
<1>26. CASE UNCHANGED vars
  BY <1>26 DEF vars
<1> QED
  BY <1>1, <1>2, <1>3, <1>4, <1>5, <1>6, <1>7, <1>8, <1>9, <1>10, <1>11, <1>12,
     <1>13, <1>14, <1>15, <1>16, <1>17, <1>18, <1>19, <1>20, <1>21, <1>22, <1>23,
     <1>24, <1>25, <1>26 DEF Next, Body

\* Through crashes, kills and every failure of libvirt, the mark of a rotation
\* that is still due stays on disk for the boot service.
THEOREM OwedStaysPending == ASSUME Marked PROVE Spec => []OwedIsPending
<1>1. Init => OwedInv
  <2> SUFFICES ASSUME Init PROVE OwedInv
    OBVIOUS
  <2>1. TypeInv
    BY TypeInit
  <2>2. booted = {} /\ \A p \in Procs : Owing(p)
    BY DEF Init, Owing, Remembered, Working, Building
  <2> QED
    BY <2>1, <2>2 DEF OwedInv, Remembered
<1>2. OwedInv /\ [Next]_vars => OwedInv'
  BY TypeStep, OwingStep, RememberedStep DEF OwedInv
<1>3. OwedInv => OwedIsPending
  BY DEF OwedInv, Remembered, OwedIsPending
<1> QED
  BY <1>1, <1>2, <1>3, PTL DEF Spec

=============================================================================
