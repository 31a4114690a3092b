------------------------ MODULE HugepagePool_proofs ------------------------
(***************************************************************************)
(* What the flock of one VM does guarantee: however the commands of        *)
(* several VMs overlap, a VM's profile and its domain agree, unless        *)
(* save_profile itself failed.  What it does not, the reservation of the   *)
(* VMs together (refuted by a run for overlapping commands), holds as long *)
(* as the users run one command at a time, but for a VM whose command      *)
(* failed at domain.xml.                                                   *)
(***************************************************************************)
EXTENDS HugepagePool, FiniteSetTheorems, TLAPS

\* The domain is ahead of the profile between virsh define and save_profile, and when
\* save_profile failed; a profile is without its pages only when domain.xml failed.
SettingInv ==
  /\ pc \in [Vms -> Labels] /\ opted \in [Vms -> BOOLEAN] /\ xml \in [Vms -> BOOLEAN]
  /\ want \in [Vms -> BOOLEAN]
  /\ \A v \in Vms : pc[v] = "save" => xml[v] = want[v]
  /\ \A v \in Vms : pc[v] # "save" /\ v \notin ahead => xml[v] = opted[v]
  /\ ahead # {} => trouble = "save"
  /\ unbacked # {} => trouble = "copy"

LEMMA SettingInit == Init => SettingInv
  BY DEF Init, SettingInv, Labels

LEMMA SettingStep == SettingInv /\ [Next]_vars => SettingInv'
<1> SUFFICES ASSUME SettingInv, [Next]_vars PROVE SettingInv'
  OBVIOUS
<1> USE DEF SettingInv, Labels, hostVars, vmVars, localVars, partVars, Go, Return
<1>1. ASSUME NEW v \in Vms, Begin(v) PROVE SettingInv'
  BY <1>1 DEF Begin
<1>2. ASSUME NEW v \in Vms, Total(v) PROVE SettingInv'
  BY <1>2 DEF Total
<1>3. ASSUME NEW v \in Vms, Read(v) PROVE SettingInv'
  BY <1>3 DEF Read
<1>4. ASSUME NEW v \in Vms, Set(v) PROVE SettingInv'
  BY <1>4 DEF Set
<1>5. ASSUME NEW v \in Vms, Verify(v) PROVE SettingInv'
  BY <1>5 DEF Verify
<1>6. ASSUME NEW v \in Vms, Persist(v) PROVE SettingInv'
  BY <1>6 DEF Persist
<1>7. ASSUME NEW v \in Vms, Define(v) PROVE SettingInv'
  BY <1>7 DEF Define, Undo
<1>8. ASSUME NEW v \in Vms, Save(v) \/ Copy(v) PROVE SettingInv'
  BY <1>8 DEF Save, Copy, Undo
<1>9. ASSUME NEW v \in Vms, GiveBack(v) \/ UndoPool(v) \/ UndoSysctl(v) PROVE SettingInv'
  BY <1>9 DEF GiveBack, UndoPool, UndoSysctl
<1>10. ASSUME NEW v \in Vms, Purge(v) PROVE SettingInv'
  BY <1>10 DEF Purge
<1>11. ASSUME NEW v \in Vms,
              PurgeTotal(v) \/ PurgeSet(v) \/ PurgeVerify(v) \/ PurgePersist(v)
       PROVE  SettingInv'
  BY <1>11 DEF PurgeTotal, PurgeSet, PurgeVerify, PurgePersist
<1>12. ASSUME NEW v \in Vms, Create(v) \/ Start(v) \/ Stop(v) PROVE SettingInv'
  BY <1>12 DEF Create, Start, Stop
<1>13. CASE Reboot
  BY <1>13 DEF Reboot
<1>14. CASE UNCHANGED vars
  BY <1>14 DEF vars
<1> QED
  BY <1>1, <1>2, <1>3, <1>4, <1>5, <1>6, <1>7, <1>8, <1>9, <1>10, <1>11, <1>12, <1>13, <1>14
  DEF Next

\* A failed definition, a failed allocation, a file that could not be written or a purge
\* never leaves a VM whose domain is backed by hugepages that its profile does not ask
\* for, or the reverse, whether or not the users run their commands one at a time.  The
\* exception is a VM whose own save_profile failed (vm.py:1019), until a command saves
\* its profile.
THEOREM SettingIsTransactional == Spec => []DefinedAsSaved
<1>1. SettingInv => DefinedAsSaved
  BY DEF SettingInv, DefinedAsSaved
<1> QED
  BY <1>1, SettingInit, SettingStep, PTL DEF Spec

-----------------------------------------------------------------------------
(* The pool. *)

Wanted(v) == (OptedIn \ {v}) \cup {u \in {v} : want[v]}

\* Those the reservation has to cover.
Covered == OptedIn \ unbacked

\* The command knows its target, and what it found; it has written neither the pool,
\* nor the file, nor the domain; the file is still the one it found.
Planned == {"read", "set", "verify", "persist", "define", "save", "copy",
            "giveBack", "undoPool", "undoSysctl"}
Found == Planned \ {"read"}
FileAsFound == {"set", "verify", "persist", "giveBack"}
Purging == {"purgeTotal", "purgeSet", "purgeVerify", "purgePersist"}

\* Where the only command at work has brought the pool and the file.  Once its profile
\* is saved, what it found covers the others; that is enough if it fails, because its
\* own VM is then left without its pages.
At(v) ==
  /\ pc[v] \in {"total", "read"} \cup Purging => pool >= Pages(Covered) /\ sysctl >= Pages(Covered)
  /\ pc[v] \in Planned \cup {"total"} => v \in managed
  /\ pc[v] \in Planned => target[v] = Pages(Wanted(v))
  /\ pc[v] \in Found => before[v] >= Pages(Covered \ {v}) /\ sysctlBefore[v] >= Pages(Covered \ {v})
  /\ pc[v] \in Found \ {"copy"} => before[v] >= Pages(Covered) /\ sysctlBefore[v] >= Pages(Covered)
  /\ pc[v] \in FileAsFound => sysctl = sysctlBefore[v]
  /\ pc[v] = "set" => pool = before[v]
  /\ pc[v] \in {"verify", "giveBack"} =>
       trouble # "alloc" \/ pool = target[v] \/ before[v] <= pool
  /\ pc[v] = "giveBack" => trouble # "alloc" \/ before[v] <= pool
  /\ pc[v] \in {"persist", "define", "save", "copy", "undoPool"} => pool = target[v]
  /\ pc[v] \in {"define", "save", "copy"} => sysctl = target[v]
  /\ pc[v] = "copy" => opted[v] = want[v]
  /\ pc[v] = "undoPool" => trouble # "alloc"
  /\ pc[v] = "undoSysctl" => /\ pool >= before[v]
                             /\ (ahead \cup unbacked) \ {v} = {} => pool = before[v]
  /\ pc[v] \in {"purgeSet", "purgeVerify", "purgePersist"} => target[v] = Pages(OptedIn)
  /\ pc[v] = "purgePersist" => pool = target[v]

PoolInv ==
  /\ TypeOK /\ SettingInv
  /\ \A v \in Vms : v \notin managed => ~opted[v]
  /\ \A v \in running : pc[v] = "idle"
  /\ \A u, v \in Vms : pc[u] # "idle" /\ pc[v] # "idle" => u = v
  /\ Idle => pool >= Pages(Covered) /\ sysctl >= Pages(Covered)
  /\ \A v \in Vms : pc[v] # "idle" => At(v)

\* A set of VMs asks for a natural number of pages, a part of it for no more.
LEMMA PagesType == ASSUME NEW S \in SUBSET Vms PROVE IsFiniteSet(UNION {{v} \X (1 .. Size[v]) : v \in S})
<1> DEFINE Of == {{v} \X (1 .. Size[v]) : v \in S}
           f == [v \in S |-> {v} \X (1 .. Size[v])]
<1>1. IsFiniteSet(S)
  BY FS_Subset, VmsAssumption
<1>2. f \in Surjection(S, Of)
  BY DEF Surjection
<1>3. IsFiniteSet(Of)
  <2> HIDE DEF f, Of
  <2> QED  BY <1>1, <1>2, FS_Surjection
<1>4. ASSUME NEW v \in S PROVE IsFiniteSet({v} \X (1 .. Size[v]))
  <2>1. IsFiniteSet({v})
    BY FS_Singleton
  <2>2. IsFiniteSet(1 .. Size[v])
    BY FS_Interval, SizeAssumption
  <2> QED  BY <2>1, <2>2, FS_Product
<1>5. \A T \in Of : IsFiniteSet(T)
  BY <1>4
<1>6. IsFiniteSet(UNION Of)
  <2> HIDE DEF Of
  <2> QED  BY <1>3, <1>5, FS_UNION
<1> QED  BY <1>6

LEMMA PagesNat == ASSUME NEW S \in SUBSET Vms PROVE Pages(S) \in Nat
  BY PagesType, FS_CardinalityType DEF Pages

LEMMA PagesMonotone ==
  ASSUME NEW T \in SUBSET Vms, NEW S \in SUBSET T
  PROVE  Pages(S) <= Pages(T)
<1> DEFINE Of(R) == UNION {{v} \X (1 .. Size[v]) : v \in R}
<1>1. Of(S) \in SUBSET Of(T)
  OBVIOUS
<1>2. IsFiniteSet(Of(T))
  BY PagesType
<1>3. Pages(S) = Cardinality(Of(S)) /\ Pages(T) = Cardinality(Of(T))
  BY DEF Pages
<1> HIDE DEF Of
<1> QED  BY <1>1, <1>2, <1>3, FS_Subset

LEMMA TypeInit == Init => TypeOK
  BY TroublesAssumption DEF Init, TypeOK, Labels, TroubleKinds

\* Whatever the kernel makes of a request, it is a number of pages.
LEMMA KernelType ==
  ASSUME TypeOK, NEW n \in Nat, NEW m \in Kernel(n)
  PROVE  m \in Nat
<1>1. InUse \in Nat
  BY PagesNat DEF TypeOK, InUse
<1> QED  BY <1>1 DEF Kernel, TypeOK

\* A command that returns leaves its local variables as they started.
LEMMA ReturnTypes ==
  ASSUME TypeOK, NEW v \in Vms, Return(v)
  PROVE  /\ pc' \in [Vms -> Labels] /\ want' \in [Vms -> BOOLEAN]
         /\ target' \in [Vms -> Nat] /\ before' \in [Vms -> Nat] /\ sysctlBefore' \in [Vms -> Nat]
  BY DEF TypeOK, Return, Labels

\* A VM stays managed while configure_hugepages works on it: purge_vm needs its lock.
AtWork == \A v \in Vms : pc[v] \in Planned \cup {"total"} => v \in managed

LEMMA WorkStep == TypeOK /\ AtWork /\ [Next]_vars => AtWork'
<1> SUFFICES ASSUME TypeOK, AtWork, [Next]_vars PROVE AtWork'
  OBVIOUS
<1> USE DEF TypeOK, AtWork, Planned, hostVars, vmVars, localVars, Go, Return
<1>1. ASSUME NEW v \in Vms, Begin(v) \/ Total(v) \/ Read(v) \/ Set(v) \/ Verify(v) \/ Persist(v)
      PROVE  AtWork'
  BY <1>1 DEF Begin, Total, Read, Set, Verify, Persist
<1>2. ASSUME NEW v \in Vms, Define(v) \/ Save(v) \/ Copy(v) PROVE AtWork'
  BY <1>2 DEF Define, Save, Copy, Undo
<1>3. ASSUME NEW v \in Vms, GiveBack(v) \/ UndoPool(v) \/ UndoSysctl(v) PROVE AtWork'
  BY <1>3 DEF GiveBack, UndoPool, UndoSysctl
<1>4. ASSUME NEW v \in Vms, Purge(v) PROVE AtWork'
  BY <1>4 DEF Purge
<1>5. ASSUME NEW v \in Vms, PurgeTotal(v) \/ PurgeSet(v) \/ PurgeVerify(v) \/ PurgePersist(v)
      PROVE  AtWork'
  BY <1>5 DEF PurgeTotal, PurgeSet, PurgeVerify, PurgePersist
<1>6. ASSUME NEW v \in Vms, Create(v) \/ Start(v) \/ Stop(v) PROVE AtWork'
  BY <1>6 DEF Create, Start, Stop
<1>7. CASE Reboot
  BY <1>7 DEF Reboot
<1>8. CASE UNCHANGED vars
  BY <1>8 DEF vars
<1> QED
  BY <1>1, <1>2, <1>3, <1>4, <1>5, <1>6, <1>7, <1>8 DEF Next

LEMMA TypeStep == TypeOK /\ AtWork /\ [Next]_vars => TypeOK'
<1> SUFFICES ASSUME TypeOK, AtWork, [Next]_vars PROVE TypeOK'
  OBVIOUS
<1> USE DEF TypeOK, Labels, hostVars, vmVars, localVars, partVars, Go, Return
<1>1. ASSUME NEW v \in Vms, Begin(v) PROVE TypeOK'
  BY <1>1 DEF Begin
<1>2. ASSUME NEW v \in Vms, Total(v) PROVE TypeOK'
  <2>1. Pages((OptedIn \ {v}) \cup {u \in {v} : want[v]}) \in Nat
    BY PagesNat DEF OptedIn
  <2> QED  BY <1>2, <2>1 DEF Total
<1>3. ASSUME NEW v \in Vms, Read(v) PROVE TypeOK'
  BY <1>3 DEF Read
<1>4. ASSUME NEW v \in Vms, Set(v) PROVE TypeOK'
  <2>1. pool' \in Nat
    BY <1>4, KernelType DEF Set
  <2> QED  BY <1>4, <2>1 DEF Set
<1>5. ASSUME NEW v \in Vms, GiveBack(v) PROVE TypeOK'
  <2>1. pool' \in Nat
    BY <1>5, KernelType DEF GiveBack
  <2> QED  BY <1>5, <2>1 DEF GiveBack
<1>6. ASSUME NEW v \in Vms, UndoPool(v) PROVE TypeOK'
  <2>1. pool' \in Nat
    BY <1>6, KernelType DEF UndoPool
  <2> QED  BY <1>6, <2>1 DEF UndoPool
<1>7. ASSUME NEW v \in Vms, PurgeSet(v) PROVE TypeOK'
  <2>1. pool' \in Nat
    BY <1>7, KernelType DEF PurgeSet
  <2> QED  BY <1>7, <2>1 DEF PurgeSet
<1>8. ASSUME NEW v \in Vms, Verify(v) PROVE TypeOK'
  BY <1>8 DEF Verify
<1>9. ASSUME NEW v \in Vms, Persist(v) PROVE TypeOK'
  <2>1. CASE sysctl' = target[v] /\ Go(v, "define")
    BY <1>9, <2>1 DEF Persist
  <2>2. CASE UNCHANGED sysctl /\ Go(v, "giveBack")
    BY <1>9, <2>2 DEF Persist
  <2>3. CASE UNCHANGED sysctl /\ Return(v)
    <3> HIDE DEF Return
    <3> QED  BY <1>9, <2>3, ReturnTypes DEF Persist
  <2> QED  BY <1>9, <2>1, <2>2, <2>3 DEF Persist
<1>10. ASSUME NEW v \in Vms, Define(v) PROVE TypeOK'
  BY <1>10 DEF Define, Undo
<1>11. ASSUME NEW v \in Vms, Save(v) PROVE TypeOK'
  <2>1. v \in managed
    BY <1>11 DEF Save, AtWork, Planned
  <2> QED  BY <1>11, <2>1 DEF Save, Undo
<1>20. ASSUME NEW v \in Vms, Copy(v) PROVE TypeOK'
  <2>1. CASE Return(v) /\ unbacked' = {}
    <3> HIDE DEF Return
    <3> QED  BY <1>20, <2>1, ReturnTypes DEF Copy
  <2>2. CASE Undo(v) /\ unbacked' = IF want[v] THEN unbacked \cup {v} ELSE unbacked
    <3>1. v \in managed
      BY <1>20 DEF Copy, AtWork, Planned
    <3> QED  BY <1>20, <2>2, <3>1 DEF Copy, Undo
  <2> QED  BY <1>20, <2>1, <2>2 DEF Copy
<1>12. ASSUME NEW v \in Vms, UndoSysctl(v) PROVE TypeOK'
  BY <1>12 DEF UndoSysctl
<1>13. ASSUME NEW v \in Vms, Purge(v) PROVE TypeOK'
  <2>1. CASE opted[v]
    BY <1>13, <2>1 DEF Purge
  <2>2. CASE ~opted[v]
    <3> HIDE DEF Return
    <3>1. Return(v)
      BY <1>13, <2>2 DEF Purge
    <3> QED  BY <1>13, <3>1, ReturnTypes DEF Purge
  <2> QED  BY <2>1, <2>2
<1>14. ASSUME NEW v \in Vms, PurgeTotal(v) PROVE TypeOK'
  <2>1. Pages(OptedIn) \in Nat
    BY PagesNat DEF OptedIn
  <2> QED  BY <1>14, <2>1 DEF PurgeTotal
<1>15. ASSUME NEW v \in Vms, PurgeVerify(v) PROVE TypeOK'
  <2>1. CASE pool = target[v]
    BY <1>15, <2>1 DEF PurgeVerify
  <2>2. CASE pool # target[v]
    <3> HIDE DEF Return
    <3>1. Return(v)
      BY <1>15, <2>2 DEF PurgeVerify
    <3> QED  BY <1>15, <3>1, ReturnTypes DEF PurgeVerify
  <2> QED  BY <2>1, <2>2
<1>16. ASSUME NEW v \in Vms, PurgePersist(v) PROVE TypeOK'
  BY <1>16 DEF PurgePersist
<1>17. ASSUME NEW v \in Vms, Create(v) \/ Start(v) \/ Stop(v) PROVE TypeOK'
  BY <1>17 DEF Create, Start, Stop
<1>18. CASE Reboot
  BY <1>18 DEF Reboot
<1>19. CASE UNCHANGED vars
  BY <1>19 DEF vars
<1> QED
  BY <1>1, <1>2, <1>3, <1>4, <1>5, <1>6, <1>7, <1>8, <1>9, <1>10, <1>11, <1>12, <1>13, <1>14,
     <1>15, <1>16, <1>17, <1>18, <1>19, <1>20 DEF Next

\* The pool, the file, the profiles and the commands' variables keep their types,
\* whatever the kernel allocates.
THEOREM HugepageTypes == Spec => []TypeOK
<1>1. Init => AtWork
  BY DEF Init, AtWork, Planned
<1> QED
  BY <1>1, TypeInit, TypeStep, WorkStep, PTL DEF Spec
-----------------------------------------------------------------------------
(* One command at a time. *)

LEMMA PoolInit == Init => PoolInv
<1> SUFFICES ASSUME Init PROVE PoolInv
  OBVIOUS
<1>1. TypeOK /\ SettingInv
  BY TypeInit, SettingInit
<1>2. Covered = {}
  BY DEF Init, OptedIn, Covered
<1>3. Pages({}) = 0
  BY FS_EmptySet DEF Pages
<1> QED  BY <1>1, <1>2, <1>3 DEF Init, PoolInv, Idle

\* The sums of an invariant state are numbers, and ordered as their sets are.
LEMMA Sums ==
  ASSUME TypeOK, NEW v \in Vms
  PROVE  /\ InUse \in Nat /\ Pages(OptedIn) \in Nat /\ Pages(Wanted(v)) \in Nat
         /\ Pages(Covered) \in Nat /\ Pages(Covered \ {v}) \in Nat
         /\ Pages(Covered) <= Pages(OptedIn) /\ Pages(Covered \ {v}) <= Pages(Covered)
         /\ Pages(Covered \ {v}) <= Pages(Wanted(v))
<1>1. OptedIn \subseteq Vms /\ Wanted(v) \subseteq Vms /\ Covered \subseteq OptedIn
      /\ Covered \ {v} \subseteq Wanted(v) /\ {u \in running : xml[u]} \subseteq Vms
  BY DEF TypeOK, OptedIn, Wanted, Covered
<1>2. Covered \subseteq Vms /\ Covered \ {v} \subseteq Covered /\ Covered \ {v} \subseteq Vms
  BY <1>1
<1>3. /\ Pages(OptedIn) \in Nat /\ Pages(Wanted(v)) \in Nat /\ Pages(Covered) \in Nat
      /\ Pages(Covered \ {v}) \in Nat /\ InUse \in Nat
  BY <1>1, <1>2, PagesNat DEF InUse
<1>4. Pages(Covered) <= Pages(OptedIn)
  BY <1>1, PagesMonotone
<1>5. Pages(Covered \ {v}) <= Pages(Covered)
  BY <1>2, PagesMonotone
<1>6. Pages(Covered \ {v}) <= Pages(Wanted(v))
  BY <1>1, PagesMonotone
<1> QED  BY <1>3, <1>4, <1>5, <1>6

\* But for the VMs of failed commands, what runs on hugepages has opted in and is
\* covered: it takes part in every sum.
LEMMA InUseCovered ==
  ASSUME PoolInv, NEW v \in Vms, v \notin running, (ahead \cup unbacked) \ {v} = {}
  PROVE  InUse <= Pages(Covered) /\ InUse <= Pages(Wanted(v))
<1> DEFINE Backed == {u \in running : xml[u]}
<1>1. Backed \subseteq Covered /\ Backed \subseteq Wanted(v)
  BY DEF PoolInv, SettingInv, TypeOK, OptedIn, Wanted, Covered
<1>2. Covered \subseteq Vms /\ Wanted(v) \subseteq Vms
  BY DEF PoolInv, TypeOK, OptedIn, Wanted, Covered
<1> QED  BY <1>1, <1>2, PagesMonotone DEF InUse

\* On a host whose memory is short no file fails to be written.
LEMMA ShortMemory ==
  ASSUME PoolInv, trouble = "alloc"
  PROVE  ahead = {} /\ unbacked = {}
  BY DEF PoolInv, SettingInv

\* A request is met, unless memory is short; then growing may give less, never less than
\* there was.  Pages in use are kept: shrinking may give more.
LEMMA KernelGives ==
  ASSUME TypeOK, InUse \in Nat, NEW n \in Nat, NEW m \in Kernel(n)
  PROVE  /\ m \in Nat
         /\ trouble # "alloc" \/ n <= pool => m >= n /\ (InUse <= n => m = n)
         /\ n > pool => m >= pool
  BY DEF Kernel, TypeOK

\* A step of the only command, when the profiles and who runs stay: the rest of the
\* invariant follows from where the command is then.
LEMMA OneCommand ==
  ASSUME Serial, PoolInv, TypeOK', SettingInv',
         NEW v \in Vms, v \notin running, UNCHANGED <<managed, running>>,
         \A u \in Vms : u \notin managed => ~opted'[u],
         \A u \in Vms \ {v} : pc[u] = "idle" /\ pc'[u] = "idle",
         pc'[v] # "idle" => At(v)',
         pc'[v] = "idle" => pool' >= Pages(Covered)' /\ sysctl' >= Pages(Covered)'
  PROVE  PoolInv'
<1>1. \A u \in running' : pc'[u] = "idle"
  BY DEF PoolInv, TypeOK
<1>2. \A u \in Vms : pc'[u] # "idle" => u = v
  OBVIOUS
<1>3. Idle' => pc'[v] = "idle"
  BY DEF Idle
<1> QED  BY <1>1, <1>2, <1>3 DEF PoolInv

\* What the only command knows of itself and of the others.
LEMMA Alone ==
  ASSUME PoolInv, NEW v \in Vms, pc[v] # "idle"
  PROVE  /\ v \notin running /\ At(v)
         /\ \A u \in Vms \ {v} : pc[u] = "idle"
  BY DEF PoolInv

\* Its next step as far as the commands go.
LEMMA OthersStay ==
  ASSUME PoolInv, NEW v \in Vms, pc[v] # "idle", NEW l, pc' = [pc EXCEPT ![v] = l]
  PROVE  pc'[v] = l /\ \A u \in Vms \ {v} : pc[u] = "idle" /\ pc'[u] = "idle"
  BY Alone DEF PoolInv, TypeOK

\* The labels of the except-clause.
LEMMA UndoLabels ==
  ASSUME PoolInv, NEW v \in Vms, pc[v] # "idle", Undo(v)
  PROVE  /\ pc'[v] = IF before[v] # target[v] THEN "undoPool" ELSE "undoSysctl"
         /\ \A u \in Vms \ {v} : pc[u] = "idle" /\ pc'[u] = "idle"
         /\ UNCHANGED <<want, target, before, sysctlBefore>>
<1>1. pc' = [pc EXCEPT ![v] = IF before[v] # target[v] THEN "undoPool" ELSE "undoSysctl"]
  BY DEF Undo, Go
<1> QED  BY <1>1, OthersStay DEF Undo, Go, localVars

LEMMA PlanStep ==
  ASSUME Serial, PoolInv, TypeOK', SettingInv', NEW v \in Vms,
         Total(v) \/ Read(v) \/ Set(v) \/ Verify(v) \/ Persist(v)
  PROVE  PoolInv'
<1> DEFINE others == \A u \in Vms \ {v} : pc[u] = "idle" /\ pc'[u] = "idle"
<1> USE DEF hostVars, vmVars, localVars, partVars, Go, Planned, Found, FileAsFound, Purging
<1>1. pc[v] # "idle"
  BY DEF Total, Read, Set, Verify, Persist
<1>2. v \notin running /\ At(v) /\ TypeOK
  BY <1>1, Alone DEF PoolInv
<1>3. /\ InUse \in Nat /\ Pages(Covered) \in Nat /\ Pages(Covered \ {v}) \in Nat
      /\ Pages(Covered \ {v}) <= Pages(Covered)
  BY <1>2, Sums
<1>4. UNCHANGED <<managed, running, opted, xml, trouble, ahead, unbacked>>
  BY DEF Total, Read, Set, Verify, Persist
<1>5. OptedIn' = OptedIn /\ Covered' = Covered
  BY <1>4 DEF OptedIn, Covered
<1>14. want' = want => Wanted(v)' = Wanted(v)
  BY <1>5 DEF Wanted
<1>6. \A u \in Vms : u \notin managed => ~opted'[u]
  BY <1>4 DEF PoolInv
<1>7. CASE Total(v)
  <2>1. pc'[v] = "read" /\ others
    BY <1>1, <1>7, OthersStay DEF Total
  <2>2. target'[v] = Pages(Wanted(v))
    BY <1>2, <1>7 DEF Total, Wanted, TypeOK
  <2>3. At(v)'
    BY <1>2, <1>5, <1>14, <1>7, <2>1, <2>2 DEF At, Total
  <2> QED  BY <1>2, <1>4, <1>6, <2>1, <2>3, OneCommand
<1>8. CASE Read(v)
  <2>1. pc'[v] \in {"persist", "set"} /\ others
    BY <1>1, <1>8, OthersStay DEF Read
  <2>2. /\ before'[v] = pool /\ sysctlBefore'[v] = sysctl
        /\ UNCHANGED <<pool, sysctl, want, target>>
        /\ pc'[v] = IF target[v] = pool THEN "persist" ELSE "set"
    BY <1>2, <1>8 DEF Read, TypeOK
  <2>3. /\ pool >= Pages(Covered) /\ sysctl >= Pages(Covered) /\ pool \in Nat /\ sysctl \in Nat
        /\ v \in managed /\ target[v] = Pages(Wanted(v))
    BY <1>2, <1>8 DEF At, Read, TypeOK
  <2>4. pool >= Pages(Covered \ {v}) /\ sysctl >= Pages(Covered \ {v})
    BY <1>3, <2>3
  <2>5. At(v)'
    BY <1>4, <1>5, <1>14, <2>1, <2>2, <2>3, <2>4 DEF At
  <2> QED  BY <1>2, <1>4, <1>6, <2>1, <2>5, OneCommand
<1>9. CASE Set(v)
  <2>1. pc'[v] = "verify" /\ others /\ UNCHANGED <<sysctl, want, target, before, sysctlBefore>>
    BY <1>1, <1>9, OthersStay DEF Set
  <2>2. /\ target[v] \in Nat /\ target[v] = Pages(Wanted(v)) /\ pool = before[v] /\ pool \in Nat
        /\ pool' \in Kernel(target[v])
    BY <1>2, <1>9 DEF At, Set, TypeOK
  <2>3. trouble = "alloc" => pool' = target[v] \/ before[v] <= pool'
    <3>1. trouble = "alloc" => InUse <= target[v]
      BY <1>2, <2>2, ShortMemory, InUseCovered
    <3> QED  BY <1>2, <1>3, <2>2, <3>1, KernelGives
  <2>4. At(v)'
    BY <1>2, <1>4, <1>5, <1>14, <1>9, <2>1, <2>2, <2>3 DEF At, Set
  <2> QED  BY <1>2, <1>4, <1>6, <2>1, <2>4, OneCommand
<1>10. CASE Verify(v)
  <2>1. /\ pc'[v] = IF pool = target[v] THEN "persist" ELSE "giveBack"
        /\ others /\ UNCHANGED <<pool, sysctl, want, target, before, sysctlBefore>>
    BY <1>1, <1>10, OthersStay DEF Verify
  <2>2. At(v)'
    BY <1>2, <1>4, <1>5, <1>14, <1>10, <2>1 DEF At, Verify
  <2> QED  BY <1>2, <1>4, <1>6, <2>1, <2>2, OneCommand
<1>11. CASE sysctl' = target[v] /\ Go(v, "define") /\ Persist(v)
  <2>1. pc'[v] = "define" /\ others /\ sysctl' = target[v] /\ UNCHANGED <<pool, want, target, before, sysctlBefore>>
    BY <1>1, <1>11, OthersStay DEF Persist
  <2>2. At(v)'
    BY <1>2, <1>4, <1>5, <1>14, <1>11, <2>1 DEF At, Persist
  <2> QED  BY <1>2, <1>4, <1>6, <2>1, <2>2, OneCommand
<1>12. CASE trouble = "persist" /\ UNCHANGED sysctl /\ Go(v, "giveBack") /\ Persist(v)
  <2>1. pc'[v] = "giveBack" /\ others /\ UNCHANGED <<pool, sysctl, want, target, before, sysctlBefore>>
    BY <1>1, <1>12, OthersStay DEF Persist
  <2>2. At(v)'
    BY <1>2, <1>4, <1>5, <1>14, <1>12, <2>1 DEF At, Persist
  <2> QED  BY <1>2, <1>4, <1>6, <2>1, <2>2, OneCommand
<1>13. CASE before[v] = target[v] /\ UNCHANGED sysctl /\ Return(v) /\ Persist(v)
  <2>1. pc'[v] = "idle" /\ others
    BY <1>1, <1>13, OthersStay DEF Return
  <2>2. pool' >= Pages(Covered)' /\ sysctl' >= Pages(Covered)'
    BY <1>2, <1>5, <1>13 DEF At, Persist, Pages
  <2> QED  BY <1>2, <1>4, <1>6, <2>1, <2>2, OneCommand
<1> QED  BY <1>7, <1>8, <1>9, <1>10, <1>11, <1>12, <1>13 DEF Persist

\* The definition is replaced, or is refused and the reservation is to be undone.
LEMMA DefineStep ==
  ASSUME Serial, PoolInv, TypeOK', SettingInv', NEW v \in Vms, Define(v)
  PROVE  PoolInv'
<1> USE DEF Planned, Found, FileAsFound, Purging
<1>1. pc[v] = "define" /\ v \notin running /\ At(v) /\ TypeOK
  BY Alone DEF Define, PoolInv
<1>2. /\ UNCHANGED <<managed, running, opted, trouble, ahead, unbacked, pool, sysctl>>
      /\ UNCHANGED <<want, target, before, sysctlBefore>>
  BY DEF Define, Undo, Go, hostVars, partVars, localVars
<1>3. OptedIn' = OptedIn /\ Wanted(v)' = Wanted(v) /\ Covered' = Covered
  BY <1>2 DEF OptedIn, Wanted, Covered
<1>4. \A u \in Vms : u \notin managed => ~opted'[u]
  BY <1>2 DEF PoolInv
<1>5. /\ pc'[v] = "save" \/ (trouble = "define" /\ pc'[v] = IF before[v] # target[v] THEN "undoPool" ELSE "undoSysctl")
      /\ \A u \in Vms \ {v} : pc[u] = "idle" /\ pc'[u] = "idle"
  <2>1. CASE Go(v, "save")
    BY <1>1, <2>1, OthersStay DEF Go
  <2>2. CASE trouble = "define" /\ Undo(v)
    BY <1>1, <2>2, UndoLabels
  <2> QED  BY <2>1, <2>2 DEF Define
<1>6. before[v] \in Nat
  BY <1>1 DEF TypeOK
<1>7. At(v)'
  BY <1>1, <1>2, <1>3, <1>5, <1>6 DEF At
<1> QED  BY <1>1, <1>2, <1>4, <1>5, <1>7, OneCommand

\* The profile gets what the pool was made ready for, or stays and the reservation is to
\* be undone.
LEMMA SaveStep ==
  ASSUME Serial, PoolInv, TypeOK', SettingInv', NEW v \in Vms, Save(v)
  PROVE  PoolInv'
<1> USE DEF Planned, Found, FileAsFound, Purging
<1>1. pc[v] = "save" /\ v \notin running /\ At(v) /\ TypeOK
  BY Alone DEF Save, PoolInv
<1>2. /\ UNCHANGED <<managed, running, trouble, unbacked, pool, sysctl>>
      /\ UNCHANGED <<want, target, before, sysctlBefore>>
  BY DEF Save, Undo, Go, hostVars, localVars
<1>3. /\ Pages(Covered) \in Nat /\ Pages(Covered \ {v}) \in Nat
      /\ Pages(Covered \ {v}) <= Pages(Covered)
  BY <1>1, Sums
<1>4. CASE opted' = [opted EXCEPT ![v] = want[v]] /\ Go(v, "copy")
  <2>1. pc'[v] = "copy" /\ \A u \in Vms \ {v} : pc[u] = "idle" /\ pc'[u] = "idle"
    BY <1>1, <1>4, OthersStay DEF Go
  <2>2. \A u \in Vms : opted'[u] = IF u = v THEN want[v] ELSE opted[u]
    BY <1>1, <1>4 DEF TypeOK
  <2>3. Covered' \ {v} = Covered \ {v} /\ Wanted(v)' = Wanted(v)
    BY <1>1, <1>2, <2>2 DEF Covered, OptedIn, Wanted, TypeOK
  <2>4. \A u \in Vms : u \notin managed => ~opted'[u]
    BY <1>1, <2>2 DEF PoolInv, At
  <2>5. /\ v \in managed /\ target[v] = Pages(Wanted(v)) /\ pool = target[v] /\ sysctl = target[v]
        /\ before[v] >= Pages(Covered \ {v}) /\ sysctlBefore[v] >= Pages(Covered \ {v})
    BY <1>1 DEF At
  <2>6. At(v)'
    BY <1>1, <1>2, <2>1, <2>2, <2>3, <2>5 DEF At
  <2> QED  BY <1>1, <1>2, <2>1, <2>4, <2>6, OneCommand
<1>5. CASE trouble = "save" /\ Undo(v) /\ ahead' = ahead \cup {v} /\ UNCHANGED opted
  <2>1. /\ pc'[v] = IF before[v] # target[v] THEN "undoPool" ELSE "undoSysctl"
        /\ \A u \in Vms \ {v} : pc[u] = "idle" /\ pc'[u] = "idle"
    BY <1>1, <1>5, UndoLabels
  <2>2. OptedIn' = OptedIn /\ Wanted(v)' = Wanted(v) /\ Covered' = Covered
    BY <1>2, <1>5 DEF OptedIn, Wanted, Covered
  <2>3. \A u \in Vms : u \notin managed => ~opted'[u]
    BY <1>5 DEF PoolInv
  <2>4. before[v] \in Nat /\ pool = target[v]
    BY <1>1 DEF TypeOK, At
  <2>5. At(v)'
    BY <1>1, <1>2, <1>5, <2>1, <2>2, <2>4 DEF At
  <2> QED  BY <1>1, <1>2, <2>1, <2>3, <2>5, OneCommand
<1> QED  BY <1>4, <1>5 DEF Save

\* The command succeeds with everybody's pages reserved, or leaves its VM without its own.
LEMMA CopyStep ==
  ASSUME Serial, PoolInv, TypeOK', SettingInv', NEW v \in Vms, Copy(v)
  PROVE  PoolInv'
<1> USE DEF Planned, Found, FileAsFound, Purging
<1>1. pc[v] = "copy" /\ v \notin running /\ At(v) /\ TypeOK
  BY Alone DEF Copy, PoolInv
<1>2. UNCHANGED <<managed, running, opted, trouble, ahead, pool, sysctl>>
  BY DEF Copy, hostVars, vmVars
<1>3. \A u \in Vms : u \notin managed => ~opted'[u]
  BY <1>2 DEF PoolInv
<1>4. OptedIn' = OptedIn /\ OptedIn \subseteq Vms
  BY <1>1, <1>2 DEF OptedIn, TypeOK
<1>5. CASE Return(v) /\ unbacked' = {}
  <2>1. pc'[v] = "idle" /\ \A u \in Vms \ {v} : pc[u] = "idle" /\ pc'[u] = "idle"
    BY <1>1, <1>5, OthersStay DEF Return
  <2>2. Covered' = Wanted(v)
    BY <1>1, <1>4, <1>5 DEF Covered, OptedIn, Wanted, At
  <2>3. Pages(Covered)' = Pages(Wanted(v)) /\ Pages(Wanted(v)) \in Nat
    BY <1>1, <2>2, Sums DEF Pages
  <2>4. pool = Pages(Wanted(v)) /\ sysctl = Pages(Wanted(v))
    BY <1>1 DEF At
  <2>5. pool' >= Pages(Covered)' /\ sysctl' >= Pages(Covered)'
    BY <1>2, <2>3, <2>4
  <2> QED  BY <1>1, <1>2, <1>3, <2>1, <2>5, OneCommand
<1>6. CASE trouble = "copy" /\ Undo(v) /\ unbacked' = IF want[v] THEN unbacked \cup {v} ELSE unbacked
  <2>1. /\ pc'[v] = IF before[v] # target[v] THEN "undoPool" ELSE "undoSysctl"
        /\ \A u \in Vms \ {v} : pc[u] = "idle" /\ pc'[u] = "idle"
        /\ UNCHANGED <<want, target, before, sysctlBefore>>
    BY <1>1, <1>6, UndoLabels
  <2>2. Covered' = Covered \ {v} /\ Covered' \ {v} = Covered \ {v} /\ Wanted(v)' = Wanted(v)
    BY <1>1, <1>2, <1>4, <1>6, <2>1 DEF Covered, OptedIn, Wanted, At
  <2>3. before[v] \in Nat /\ pool = target[v]
    BY <1>1 DEF TypeOK, At
  <2>4. At(v)'
    BY <1>1, <1>2, <1>4, <1>6, <2>1, <2>2, <2>3 DEF At
  <2> QED  BY <1>1, <1>2, <1>3, <2>1, <2>4, OneCommand
<1> QED  BY <1>5, <1>6 DEF Copy

\* The except-clause never leaves less than the command found.
LEMMA UndoStep ==
  ASSUME Serial, PoolInv, TypeOK', SettingInv', NEW v \in Vms,
         GiveBack(v) \/ UndoPool(v) \/ UndoSysctl(v)
  PROVE  PoolInv'
<1> DEFINE others == \A u \in Vms \ {v} : pc[u] = "idle" /\ pc'[u] = "idle"
<1> USE DEF hostVars, vmVars, localVars, partVars, Go, Planned, Found, FileAsFound, Purging
<1>1. pc[v] # "idle"
  BY DEF GiveBack, UndoPool, UndoSysctl
<1>2. v \notin running /\ At(v) /\ TypeOK
  BY <1>1, Alone DEF PoolInv
<1>3. InUse \in Nat /\ Pages(Covered) \in Nat
  BY <1>2, Sums
<1>4. UNCHANGED <<managed, running, opted, trouble, ahead, unbacked>>
  BY DEF GiveBack, UndoPool, UndoSysctl
<1>5. OptedIn' = OptedIn /\ Covered' = Covered /\ Pages(Covered)' = Pages(Covered)
  BY <1>4 DEF OptedIn, Covered, Pages
<1>6. \A u \in Vms : u \notin managed => ~opted'[u]
  BY <1>4 DEF PoolInv
<1>7. /\ before[v] >= Pages(Covered) /\ sysctlBefore[v] >= Pages(Covered)
      /\ before[v] \in Nat /\ pool \in Nat /\ sysctlBefore[v] \in Nat
  BY <1>1, <1>2 DEF At, GiveBack, UndoPool, UndoSysctl, TypeOK
<1>8. CASE GiveBack(v)
  <2>1. pc'[v] = "idle" /\ others
    BY <1>1, <1>8, OthersStay DEF GiveBack, Return
  <2>2. pool' \in Kernel(before[v]) /\ (trouble # "alloc" \/ before[v] <= pool)
    BY <1>2, <1>8 DEF GiveBack, At
  <2>3. pool' >= before[v] /\ pool' \in Nat
    BY <1>2, <1>3, <1>7, <2>2, KernelGives
  <2>4. sysctl' = sysctlBefore[v]
    BY <1>2, <1>8 DEF GiveBack, At
  <2>5. pool' >= Pages(Covered)' /\ sysctl' >= Pages(Covered)'
    BY <1>3, <1>5, <1>7, <2>3, <2>4
  <2> QED  BY <1>2, <1>4, <1>6, <2>1, <2>5, OneCommand
<1>9. CASE UndoPool(v)
  <2>1. pc'[v] = "undoSysctl" /\ others /\ UNCHANGED <<sysctl, want, target, before, sysctlBefore>>
    BY <1>1, <1>9, OthersStay DEF UndoPool
  <2>2. pool' \in Kernel(before[v]) /\ trouble # "alloc"
    BY <1>2, <1>9 DEF UndoPool, At
  <2>3. (ahead \cup unbacked) \ {v} = {} => InUse <= before[v]
    BY <1>2, <1>3, <1>7, InUseCovered
  <2>4. pool' >= before[v] /\ ((ahead \cup unbacked) \ {v} = {} => pool' = before[v])
    BY <1>2, <1>3, <1>7, <2>2, <2>3, KernelGives
  <2>5. Wanted(v)' = Wanted(v)
    BY <1>5, <2>1 DEF Wanted
  <2>6. At(v)'
    BY <1>2, <1>4, <1>5, <1>9, <2>1, <2>4, <2>5 DEF At, UndoPool
  <2> QED  BY <1>2, <1>4, <1>6, <2>1, <2>6, OneCommand
<1>10. CASE UndoSysctl(v)
  <2>1. pc'[v] = "idle" /\ others
    BY <1>1, <1>10, OthersStay DEF UndoSysctl, Return
  <2>2. pool' = pool /\ pool >= before[v] /\ sysctl' = sysctlBefore[v]
    BY <1>2, <1>10 DEF At, UndoSysctl
  <2>3. pool' >= Pages(Covered)' /\ sysctl' >= Pages(Covered)'
    BY <1>3, <1>5, <1>7, <2>2
  <2> QED  BY <1>2, <1>4, <1>6, <2>1, <2>3, OneCommand
<1> QED  BY <1>8, <1>9, <1>10

\* purge_vm: the profile is gone before the pool is looked at; the sum is the smaller for it.
LEMMA PurgeStep ==
  ASSUME Serial, PoolInv, TypeOK', SettingInv', NEW v \in Vms, Purge(v)
  PROVE  PoolInv'
<1> USE DEF hostVars, vmVars, localVars
<1>1. pc[v] = "idle" /\ Idle /\ v \in managed /\ v \notin running /\ TypeOK
  BY DEF Purge, PoolInv
<1>2. /\ UNCHANGED <<pool, sysctl, running>> /\ managed' = managed \ {v}
      /\ opted' = [opted EXCEPT ![v] = FALSE] /\ unbacked' = unbacked \ {v}
  BY DEF Purge
<1>3. pc'[v] \in {"idle", "purgeTotal"} /\ \A u \in Vms \ {v} : pc'[u] = "idle"
  <2>1. \E l \in {"idle", "purgeTotal"} : pc' = [pc EXCEPT ![v] = l]
    BY DEF Purge, Go, Return
  <2> QED  BY <1>1, <2>1 DEF Idle, TypeOK
<1>4. \A u \in Vms : opted'[u] = IF u = v THEN FALSE ELSE opted[u]
  BY <1>1, <1>2 DEF TypeOK
<1>5. Covered' \subseteq Covered /\ Covered \subseteq Vms
  BY <1>1, <1>2, <1>4 DEF OptedIn, Covered, TypeOK
<1>6. Pages(Covered') <= Pages(Covered) /\ Pages(Covered') \in Nat /\ Pages(Covered) \in Nat
  BY <1>5, PagesMonotone, PagesNat
<1>7. pool' >= Pages(Covered') /\ sysctl' >= Pages(Covered')
  BY <1>1, <1>2, <1>6 DEF PoolInv, TypeOK
<1>8. Pages(Covered)' = Pages(Covered')
  BY DEF Pages
<1>9. pc'[v] # "idle" => At(v)'
  BY <1>3, <1>7, <1>8 DEF At, Planned, Found, FileAsFound, Purging
<1>10. \A u \in Vms : u \notin managed' => ~opted'[u]
  BY <1>2, <1>4 DEF PoolInv
<1>11. \A u \in running' : pc'[u] = "idle"
  BY <1>1, <1>2, <1>3 DEF TypeOK
<1> QED
  BY <1>3, <1>7, <1>8, <1>9, <1>10, <1>11 DEF PoolInv

LEMMA PurgeTailStep ==
  ASSUME Serial, PoolInv, TypeOK', SettingInv', NEW v \in Vms,
         PurgeTotal(v) \/ PurgeSet(v) \/ PurgeVerify(v) \/ PurgePersist(v)
  PROVE  PoolInv'
<1> DEFINE others == \A u \in Vms \ {v} : pc[u] = "idle" /\ pc'[u] = "idle"
<1> USE DEF hostVars, vmVars, localVars, partVars, Go, Planned, Found, FileAsFound, Purging
<1>1. pc[v] # "idle"
  BY DEF PurgeTotal, PurgeSet, PurgeVerify, PurgePersist
<1>2. v \notin running /\ At(v) /\ TypeOK
  BY <1>1, Alone DEF PoolInv
<1>3. /\ InUse \in Nat /\ Pages(OptedIn) \in Nat /\ Pages(Covered) \in Nat
      /\ Pages(Covered) <= Pages(OptedIn)
  BY <1>2, Sums
<1>4. UNCHANGED <<managed, running, opted, trouble, ahead>>
  BY DEF PurgeTotal, PurgeSet, PurgeVerify, PurgePersist
<1>5. OptedIn' = OptedIn
  BY <1>4 DEF OptedIn
<1>6. \A u \in Vms : u \notin managed => ~opted'[u]
  BY <1>4 DEF PoolInv
<1>7. /\ pool >= Pages(Covered) /\ sysctl >= Pages(Covered) /\ pool \in Nat /\ sysctl \in Nat
  BY <1>2 DEF At, PurgeTotal, PurgeSet, PurgeVerify, PurgePersist, TypeOK
<1>8. UNCHANGED unbacked => Covered' = Covered /\ Pages(Covered)' = Pages(Covered)
  BY <1>5 DEF Covered, Pages
<1>9. CASE PurgeTotal(v)
  <2>1. pc'[v] = "purgeSet" /\ others /\ UNCHANGED <<pool, sysctl, unbacked>>
    BY <1>1, <1>9, OthersStay DEF PurgeTotal
  <2>2. target'[v] = Pages(OptedIn)
    BY <1>2, <1>9 DEF PurgeTotal, TypeOK
  <2>3. At(v)'
    BY <1>5, <1>7, <1>8, <2>1, <2>2 DEF At
  <2> QED  BY <1>2, <1>4, <1>6, <2>1, <2>3, OneCommand
<1>10. CASE PurgeSet(v)
  <2>1. pc'[v] = "purgeVerify" /\ others /\ UNCHANGED <<sysctl, target, unbacked>>
    BY <1>1, <1>10, OthersStay DEF PurgeSet
  <2>2. target[v] = Pages(OptedIn) /\ (pool' = target[v] \/ pool' \in Kernel(target[v]))
    BY <1>2, <1>10 DEF At, PurgeSet
  <2>3. pool' >= Pages(Covered)
    BY <1>2, <1>3, <1>7, <2>2, KernelGives
  <2>4. At(v)'
    BY <1>5, <1>7, <1>8, <2>1, <2>2, <2>3 DEF At
  <2> QED  BY <1>2, <1>4, <1>6, <2>1, <2>4, OneCommand
<1>11. CASE PurgeVerify(v)
  <2>1. /\ pc'[v] = IF pool = target[v] THEN "purgePersist" ELSE "idle"
        /\ others
    <3>1. pc' = [pc EXCEPT ![v] = IF pool = target[v] THEN "purgePersist" ELSE "idle"]
      BY <1>11 DEF PurgeVerify, Return
    <3> QED  BY <1>1, <3>1, OthersStay
  <2>2. UNCHANGED <<pool, sysctl, unbacked>> /\ (pool = target[v] => UNCHANGED target)
    BY <1>11 DEF PurgeVerify
  <2>3. target[v] = Pages(OptedIn)
    BY <1>2, <1>11 DEF At, PurgeVerify
  <2>4. pc'[v] # "idle" => At(v)'
    BY <1>5, <1>7, <1>8, <2>1, <2>2, <2>3 DEF At
  <2>5. pool' >= Pages(Covered)' /\ sysctl' >= Pages(Covered)'
    BY <1>7, <1>8, <2>2
  <2> QED  BY <1>2, <1>4, <1>6, <2>1, <2>4, <2>5, OneCommand
<1>12. CASE PurgePersist(v)
  <2>1. pc'[v] = "idle" /\ others
    BY <1>1, <1>12, OthersStay DEF PurgePersist, Return
  <2>2. Covered' = OptedIn
    BY <1>5, <1>12 DEF PurgePersist, Covered
  <2>3. Pages(Covered)' = Pages(OptedIn)
    BY <2>2 DEF Pages
  <2>4. pool' = Pages(OptedIn) /\ sysctl' = Pages(OptedIn)
    BY <1>2, <1>12 DEF At, PurgePersist
  <2>5. pool' >= Pages(Covered)' /\ sysctl' >= Pages(Covered)'
    BY <1>3, <2>3, <2>4
  <2> QED  BY <1>2, <1>4, <1>6, <2>1, <2>5, OneCommand
<1> QED  BY <1>9, <1>10, <1>11, <1>12

\* A command begins on an idle machine.
LEMMA BeginStep ==
  ASSUME Serial, PoolInv, TypeOK', SettingInv', NEW v \in Vms, Begin(v)
  PROVE  PoolInv'
<1> USE DEF hostVars, vmVars, localVars, partVars
<1>1. pc[v] = "idle" /\ Idle /\ v \in managed /\ v \notin running /\ TypeOK
  BY DEF Begin, PoolInv
<1>2. UNCHANGED <<pool, sysctl, managed, running, opted, unbacked>>
  BY DEF Begin
<1>3. pc'[v] = "total" /\ \A u \in Vms \ {v} : pc[u] = "idle" /\ pc'[u] = "idle"
  BY <1>1 DEF Begin, Idle, TypeOK
<1>4. Covered' = Covered
  BY <1>2 DEF OptedIn, Covered
<1>5. At(v)'
  BY <1>1, <1>2, <1>3, <1>4 DEF At, PoolInv, Planned, Found, FileAsFound, Purging
<1>6. \A u \in Vms : u \notin managed => ~opted'[u]
  BY <1>2 DEF PoolInv
<1> QED  BY <1>1, <1>2, <1>3, <1>5, <1>6, OneCommand

\* VMs that come, start and stop beside a command, and a reboot between commands.
LEMMA BesideStep ==
  ASSUME Serial, PoolInv, TypeOK', SettingInv', NEW v \in Vms, Create(v) \/ Start(v) \/ Stop(v)
  PROVE  PoolInv'
<1> USE DEF hostVars, vmVars, localVars, partVars
<1>1. TypeOK
  BY DEF PoolInv
<1>2. /\ UNCHANGED <<pool, sysctl, opted, trouble, pc, want, target, before, sysctlBefore, ahead, unbacked>>
      /\ managed \subseteq managed' /\ managed' \ managed \subseteq {v}
      /\ managed' # managed => v \notin managed
      /\ \A u \in running' : u \in running \/ pc[u] = "idle"
  BY <1>1 DEF Create, Start, Stop
<1>3. OptedIn' = OptedIn /\ Covered' = Covered
  BY <1>1, <1>2 DEF OptedIn, Covered, PoolInv
<1>4. \A u \in Vms : Wanted(u)' = Wanted(u)
  BY <1>2, <1>3 DEF Wanted
<1>5. \A u \in running' : pc'[u] = "idle"
  BY <1>2 DEF PoolInv
<1>6. \A u \in Vms : u \notin managed' => ~opted'[u]
  BY <1>2 DEF PoolInv
<1>7. \A u \in Vms : pc'[u] # "idle" => At(u)'
  BY <1>2, <1>3, <1>4 DEF At, PoolInv
<1>8. \A u, w \in Vms : pc'[u] # "idle" /\ pc'[w] # "idle" => u = w
  BY <1>2 DEF PoolInv
<1>9. Idle' => pool' >= Pages(Covered)' /\ sysctl' >= Pages(Covered)'
  BY <1>2, <1>3 DEF PoolInv, Idle
<1> QED  BY <1>5, <1>6, <1>7, <1>8, <1>9 DEF PoolInv

LEMMA RebootStep == PoolInv /\ TypeOK' /\ SettingInv' /\ Reboot => PoolInv'
<1> SUFFICES ASSUME PoolInv, TypeOK', SettingInv', Reboot PROVE PoolInv'
  OBVIOUS
<1> USE DEF hostVars, vmVars, localVars, partVars
<1>1. Covered' = Covered
  BY DEF Reboot, OptedIn, Covered
<1>2. \A u \in Vms : pc'[u] = "idle"
  BY DEF Reboot, Idle
<1>3. pool' >= Pages(Covered) /\ sysctl' >= Pages(Covered)
  BY DEF Reboot, PoolInv
<1> QED  BY <1>1, <1>2, <1>3 DEF Reboot, PoolInv

LEMMA PoolStep == Serial /\ PoolInv /\ [Next]_vars => PoolInv'
<1> SUFFICES ASSUME Serial, PoolInv, [Next]_vars PROVE PoolInv'
  OBVIOUS
<1>1. TypeOK' /\ SettingInv'
  <2>1. AtWork
    BY DEF PoolInv, AtWork, At, Planned
  <2> QED  BY <2>1, TypeStep, SettingStep DEF PoolInv
<1>2. ASSUME NEW v \in Vms, Begin(v) PROVE PoolInv'
  BY <1>1, <1>2, BeginStep
<1>3. ASSUME NEW v \in Vms, Total(v) \/ Read(v) \/ Set(v) \/ Verify(v) \/ Persist(v) PROVE PoolInv'
  BY <1>1, <1>3, PlanStep
<1>4. ASSUME NEW v \in Vms, Define(v) \/ Save(v) \/ Copy(v) PROVE PoolInv'
  BY <1>1, <1>4, DefineStep, SaveStep, CopyStep
<1>5. ASSUME NEW v \in Vms, GiveBack(v) \/ UndoPool(v) \/ UndoSysctl(v) PROVE PoolInv'
  BY <1>1, <1>5, UndoStep
<1>6. ASSUME NEW v \in Vms, Purge(v) PROVE PoolInv'
  BY <1>1, <1>6, PurgeStep
<1>7. ASSUME NEW v \in Vms, PurgeTotal(v) \/ PurgeSet(v) \/ PurgeVerify(v) \/ PurgePersist(v)
      PROVE  PoolInv'
  BY <1>1, <1>7, PurgeTailStep
<1>8. ASSUME NEW v \in Vms, Create(v) \/ Start(v) \/ Stop(v) PROVE PoolInv'
  BY <1>1, <1>8, BesideStep
<1>9. CASE Reboot
  BY <1>1, <1>9, RebootStep
<1>10. CASE UNCHANGED vars
  <2>1. /\ UNCHANGED <<pool, sysctl, managed, running, opted, trouble, pc, want, target, before, sysctlBefore>>
        /\ UNCHANGED <<ahead, unbacked>>
    BY <1>10 DEF vars, hostVars, vmVars, localVars, partVars
  <2>2. OptedIn' = OptedIn /\ Covered' = Covered /\ \A u \in Vms : Wanted(u)' = Wanted(u)
    BY <2>1 DEF OptedIn, Wanted, Covered
  <2> QED  BY <1>1, <2>1, <2>2 DEF PoolInv, At, Idle
<1> QED
  BY <1>2, <1>3, <1>4, <1>5, <1>6, <1>7, <1>8, <1>9, <1>10 DEF Next

LEMMA PoolInvariant == ASSUME Serial PROVE Spec => []PoolInv
<1>1. Init => PoolInv
  BY PoolInit
<1>2. PoolInv /\ [Next]_vars => PoolInv'
  BY PoolStep
<1> QED  BY <1>1, <1>2, PTL DEF Spec

\* As long as the users run one command at a time, the pool and the file cover every VM
\* that has opted in, whatever VMs start, stop, come and go, and whatever fails; but for
\* a VM whose own command failed after its profile was saved (vm.py:1020), until the
\* next command succeeds.  No failure takes a page from another VM.
THEOREM ReservationIsEnough == ASSUME Serial PROVE Spec => []ReservationCovers
<1>1. PoolInv => ReservationCovers
  BY DEF PoolInv, ReservationCovers, Covered
<1> QED  BY <1>1, PoolInvariant, PTL

\* And a command that fails gives back the pool and the file as it found them: what it
\* took is not needed by the VMs that run, and what it gave back can be had again.  Only
\* a guest that runs on what an earlier failure left can keep the pool larger.
THEOREM FailureGivesBack == ASSUME Serial PROVE Spec => FailureRestores
<1> DEFINE Restored(v) == /\ sysctl' = sysctlBefore[v]
                          /\ pool' >= before[v]
                          /\ (ahead \cup unbacked) \ {v} = {} => pool' = before[v]
<1>1. ASSUME PoolInv, [Next]_vars, NEW v \in Vms, pc[v] \in {"giveBack", "undoSysctl"}, pc'[v] = "idle"
      PROVE  Restored(v)
  <2> USE DEF hostVars, vmVars, localVars, partVars
  <2>1. v \notin running /\ At(v) /\ TypeOK
    BY <1>1, Alone DEF PoolInv
  <2>2. pc' # pc /\ ~Idle
    BY <1>1 DEF Idle
  <2>3. \A u \in Vms : pc[u] # "idle" => u = v
    BY <1>1 DEF PoolInv
  <2>4. PICK u \in Vms : \/ Begin(u) \/ Total(u) \/ Read(u) \/ Set(u) \/ Verify(u) \/ Persist(u)
                         \/ Define(u) \/ Save(u) \/ Copy(u) \/ GiveBack(u) \/ UndoPool(u) \/ UndoSysctl(u)
                         \/ Purge(u) \/ PurgeTotal(u) \/ PurgeSet(u) \/ PurgeVerify(u) \/ PurgePersist(u)
    BY <1>1, <2>2 DEF Next, vars, Reboot, Create, Start, Stop
  <2>5. u = v
    BY <2>2, <2>3, <2>4
    DEF Begin, Total, Read, Set, Verify, Persist, Define, Save, Copy, UndoPool, GiveBack, UndoSysctl, Purge,
        PurgeTotal, PurgeSet, PurgeVerify, PurgePersist
  <2>6. GiveBack(v) \/ UndoSysctl(v)
    BY <1>1, <2>4, <2>5
    DEF Begin, Total, Read, Set, Verify, Persist, Define, Save, Copy, UndoPool, Purge,
        PurgeTotal, PurgeSet, PurgeVerify, PurgePersist
  <2>7. CASE GiveBack(v)
    <3>1. pool' \in Kernel(before[v]) /\ UNCHANGED sysctl /\ pc[v] = "giveBack"
      BY <2>7 DEF GiveBack
    <3>2. /\ InUse \in Nat /\ Pages(Covered) \in Nat /\ before[v] \in Nat
          /\ before[v] >= Pages(Covered) /\ sysctl = sysctlBefore[v]
          /\ trouble # "alloc" \/ before[v] <= pool
      BY <2>1, <3>1, Sums DEF At, Found, Planned, FileAsFound, TypeOK
    <3>3. (ahead \cup unbacked) \ {v} = {} => InUse <= before[v]
      BY <1>1, <2>1, <3>2, InUseCovered
    <3> QED
      BY <2>1, <3>1, <3>2, <3>3, KernelGives
  <2>8. CASE UndoSysctl(v)
    BY <2>1, <2>8 DEF UndoSysctl, At
  <2> QED  BY <2>6, <2>7, <2>8
<1>2. PoolInv /\ [Next]_vars =>
        [\A v \in Vms : pc[v] \in {"giveBack", "undoSysctl"} /\ pc'[v] = "idle" => Restored(v)]_vars
  BY <1>1
<1> QED  BY <1>2, PoolInvariant, PTL DEF Spec, FailureRestores
=============================================================================
