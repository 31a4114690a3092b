---------------------------- MODULE Guest_proofs ----------------------------
(***************************************************************************)
(* Proofs about the components that keep what a guest is made from: its    *)
(* definition and variables (GuestSecurity), its QEMU and firmware         *)
(* (Artifacts).                                                            *)
(***************************************************************************)
EXTENDS GuestSecurity, Artifacts, TLAPS

-----------------------------------------------------------------------------
(***************************************************************************)
(* Proofs about GuestSecurity, for any answers the menus may give and any  *)
(* sequence of commands, refusals, failures and kills.                     *)
(*                                                                         *)
(* The heart is EditIsBuild: editing the definition that was built from a  *)
(* profile gives the definition built from the changed profile, provided   *)
(* that the settings are in the normal form both commands put them in.     *)
(* The invariant then says of the running command what its profile and its *)
(* XML have in common (PlanInv), so that each step has little to show.     *)
(***************************************************************************)

Normal(s) ==
  /\ s.dma => s.vtd
  /\ s.intremap => s.vtd
  /\ s.isolation => s.secureBoot
  /\ s.hyperv => s.isolation

GoodProfile(p) ==
  p \in Profiles /\ Normal(p.security) /\ (p.security.secureBoot => p.board = "host")

\* The GPU maintenance stage has a GPU.
Coherent(p) == p.stage = "gpu-setup" => p.gpu

\* The definition shows the profile's board and, once patched, the profile.
Agree(x, p) ==
  x.arguments.board = p.board /\ (x.machine.patched => x = Build(p))

-----------------------------------------------------------------------------
(* Lemmas about the definitions *)

LEMMA BuildType == ASSUME NEW p \in Profiles PROVE Build(p) \in Definitions
  BY DEF Profiles, Settings, Stages, Build, Metadata, Machine, Devices, Arguments, Definitions,
         Patched, GpuActive

LEMMA BuildAgrees == ASSUME NEW p PROVE Agree(Build(p), p)
  BY DEF Agree, Build, Arguments

LEMMA BuildGpu == ASSUME NEW p PROVE Build(p).devices.gpu = GpuActive(p)
  BY DEF Build, Devices

LEMMA BuildValid == ASSUME NEW p, GoodProfile(p), Coherent(p) PROVE Valid(Build(p))
  BY DEF GoodProfile, Coherent, Normal, Profiles, Settings, Stages, Build, Metadata, Machine,
         Devices, Arguments, Patched, GpuActive, Valid, ValidStage, ValidIommu, ValidNested

LEMMA ValidIsCoherent ==
  ASSUME NEW p, GoodProfile(p), Valid(Build(p)) PROVE Coherent(p)
  BY DEF GoodProfile, Coherent, Profiles, Stages, Build, Metadata, Machine, Devices, Arguments,
         Patched, GpuActive, Valid, ValidStage

LEMMA EditType ==
  ASSUME NEW x \in Definitions, NEW p \in Profiles PROVE EditSecurity(x, p) \in Definitions
  BY DEF Profiles, Settings, EditSecurity, EditMetadata, EditArguments, EditedArguments,
         Accelerated, Definitions

LEMMA EditIsBuild ==
  ASSUME NEW p, NEW q, GoodProfile(p), GoodProfile(q),
         q.stage = p.stage, q.gpu = p.gpu, Patched(p),
         q.security.vtd = (p.security.vtd \/ q.security.dma),
         q.security.intremap = p.security.intremap
  PROVE  EditSecurity(Build(p), q) = Build(q)
<1> USE DEF GoodProfile, Normal, Profiles, Settings, Stages, Patched, GpuActive
<1>1. EditMetadata(Metadata(p), q) = Metadata(q)
  BY DEF EditMetadata, Metadata
<1>2. EditArguments(Arguments(p), q) = Arguments(q)
  BY DEF EditArguments, EditedArguments, Accelerated, Arguments, Metadata
<1>3. [Machine(p) EXCEPT !.nested = q.security.isolation] = Machine(q)
  BY DEF Machine, Metadata
<1>4. [Devices(p) EXCEPT !.iommu = IF ~q.security.dma THEN @
                                   ELSE IF q.security.intremap THEN "remapping" ELSE "plain"]
        = Devices(q)
  BY DEF Devices, Metadata
<1> QED
  BY <1>1, <1>2, <1>3, <1>4 DEF EditSecurity, Build

\* An unpatched definition stays valid as well.
LEMMA EditValid ==
  ASSUME NEW x \in Definitions, NEW p, GoodProfile(p), Valid(x), ~x.machine.patched
  PROVE  Valid(EditSecurity(x, p)) /\ ~EditSecurity(x, p).machine.patched
  BY DEF GoodProfile, Normal, Profiles, Settings, Definitions, EditSecurity, EditMetadata,
         EditArguments, EditedArguments, Accelerated, Valid, ValidStage, ValidIommu, ValidNested

LEMMA IdentityEdit ==
  ASSUME NEW x \in Definitions, NEW p \in Profiles
  PROVE  /\ UpdateIdentity(x, p) \in Definitions
         /\ UpdateIdentity(x, p).arguments.board = p.board
         /\ UpdateIdentity(x, p).machine.patched = x.machine.patched
         /\ UpdateIdentity(x, p).devices.gpu = x.devices.gpu
         /\ Valid(x) => Valid(UpdateIdentity(x, p))
  BY DEF UpdateIdentity, Definitions, Profiles, Valid, ValidStage, ValidIommu, ValidNested

LEMMA IdentityIsBuild ==
  ASSUME NEW p \in Profiles, NEW board \in {"random", "host"}
  PROVE  UpdateIdentity(Build(p), [p EXCEPT !.board = board]) = Build([p EXCEPT !.board = board])
  BY DEF UpdateIdentity, Profiles, Build, Metadata, Machine, Devices, Arguments, Patched, GpuActive

-----------------------------------------------------------------------------
(* The invariant *)

Leaving == {"devirtualize", "resume"}                       \* without hooks from the start
Keeping == {"security", "rebuild", "cpu-layout", "randomize", "align"}
Finishing == {"gpu-setup", "finalize", "finalize-vm"}       \* the hooks come last

Works == [step : {"vars", "define", "save", "hooks"}, op : Ops, kind : {"edit", "build"},
          profile : Profiles, xml : Definitions, setsVars : BOOLEAN, backup : Varstore]

\* What the profile and the XML of a command have to do with each other and with the
\* stores, when it starts and until it is done.
PlanInv(op, kind, p, x, setsVars, hook) ==
  /\ GoodProfile(p) /\ x \in Definitions
  /\ kind = "build" => x = Build(p)
  /\ op = "passthrough" => kind = "build"
  /\ setsVars => op \in {"devirtualize", "security"}
  /\ op # "passthrough" => Coherent(p)
  /\ "domain" \notin torn => Agree(x, p) /\ (op # "passthrough" => Valid(x))
  /\ ~setsVars /\ "vars" \notin torn => (vars = "on") = p.security.secureBoot
  /\ op \in Leaving => ~hook /\ ~GpuActive(p) /\ ~x.devices.gpu
  /\ op \in Keeping /\ "hook" \notin torn => x.devices.gpu = hook /\ GpuActive(p) = hook
  /\ op \in Finishing => x.devices.gpu = p.gpu /\ GpuActive(p) = p.gpu
  /\ op = "gpu-setup" => p.gpu
  /\ op = "finalize-vm" /\ "hook" \notin torn /\ ~p.gpu => ~hook
  /\ op = "disable" => ~x.devices.gpu /\ ~GpuActive(p) /\ ~p.gpu

Plan == PlanInv(work.op, work.kind, work.profile, work.xml, work.setsVars, hooked)

TypeInv ==
  /\ profile \in Profiles /\ domain \in Definitions
  /\ vars \in Varstore /\ hooked \in BOOLEAN /\ accel \in BOOLEAN
  /\ work \in {AtRest, Wizard} \/ work \in Works
  /\ torn \subseteq {"domain", "vars", "hook"}

WorkInv ==
  work.step \notin {"idle", "wizard"} =>
    /\ Plan
    /\ work.step \in {"save", "hooks"} => domain = work.xml /\ Valid(work.xml)
                                          /\ Coherent(work.profile)
    /\ work.step = "vars" => work.setsVars
    /\ work.step = "hooks" => /\ profile = work.profile
                              /\ work.op \in Finishing \cup {"disable"} /\ ~work.setsVars

VarsInv ==
  /\ "vars" \notin torn /\ (work.step \in {"define", "save"} => ~work.setsVars) =>
       (vars = "on") = profile.security.secureBoot
  /\ work.step \in {"vars", "define", "save"} /\ work.setsVars /\ "vars" \notin torn =>
       (work.backup = "on") = profile.security.secureBoot
  /\ work.step \in {"define", "save"} /\ work.setsVars =>
       (vars = "on") = work.profile.security.secureBoot

StoresInv ==
  /\ GoodProfile(profile) /\ Coherent(profile) /\ Valid(domain)
  /\ work.step # "save" /\ "domain" \notin torn => Agree(domain, profile)
  /\ work.step = "idle" /\ "hook" \notin torn =>
       domain.devices.gpu = hooked /\ GpuActive(profile) = hooked

SecurityInv == TypeInv /\ WorkInv /\ VarsInv /\ StoresInv

LEMMA SecurityInvInit == SecurityInit => SecurityInv
<1> SUFFICES ASSUME SecurityInit PROVE SecurityInv
  OBVIOUS
<1>1. GoodProfile(NewProfile) /\ Coherent(NewProfile)
  BY DEF SecurityInit, NewProfile, Off, GoodProfile, Normal, Coherent, Profiles, Settings, Stages
<1>2. GpuActive(NewProfile) = FALSE /\ NewProfile.security.secureBoot = FALSE
  BY DEF GpuActive, NewProfile, Off
<1>3. Build(NewProfile) \in Definitions /\ Valid(Build(NewProfile))
      /\ Agree(Build(NewProfile), NewProfile) /\ Build(NewProfile).devices.gpu = FALSE
  BY <1>1, <1>2, BuildType, BuildValid, BuildAgrees, BuildGpu DEF GoodProfile
<1>4. TypeInv
  BY <1>1, <1>3 DEF SecurityInit, TypeInv, Varstore, GoodProfile
<1>5. work.step = "idle"
  BY DEF SecurityInit, AtRest
<1>6. WorkInv /\ VarsInv
  BY <1>2, <1>5 DEF WorkInv, VarsInv, SecurityInit
<1>7. StoresInv
  BY <1>1, <1>2, <1>3, <1>5 DEF StoresInv, SecurityInit
<1> QED
  BY <1>4, <1>6, <1>7 DEF SecurityInv

\* A command that starts with a sound plan keeps the invariant.
LEMMA TransactionInv ==
  ASSUME NEW op \in Ops, NEW kind \in {"edit", "build"}, NEW p, NEW x,
         NEW setsVars \in BOOLEAN,
         SecurityInv, work.step \in {"idle", "wizard"}, hooked' \in BOOLEAN,
         PlanInv(op, kind, p, x, setsVars, hooked'),
         Transaction(op, kind, p, x, setsVars)
  PROVE  SecurityInv'
<1> USE DEF SecurityInv, Transaction
<1>1. GoodProfile(p) /\ x \in Definitions
  BY DEF PlanInv
<1>2. TypeInv'
  BY <1>1 DEF TypeInv, Works, GoodProfile
<1>3. work'.op = op /\ work'.kind = kind /\ work'.profile = p /\ work'.xml = x
      /\ work'.setsVars = setsVars /\ work'.backup = vars
      /\ work'.step = (IF setsVars THEN "vars" ELSE "define")
  OBVIOUS
<1>4. WorkInv'
  <2>1. Plan'
    BY <1>3 DEF Plan, PlanInv
  <2> QED
    BY <1>3, <2>1 DEF WorkInv
<1>5. VarsInv'
  BY <1>3 DEF VarsInv
<1>6. StoresInv'
  BY <1>3 DEF StoresInv
<1> QED
  BY <1>2, <1>4, <1>5, <1>6

\* What a definition built from a profile has to show for PlanInv.
LEMMA BuildPlan ==
  ASSUME NEW p, GoodProfile(p)
  PROVE  /\ Build(p) \in Definitions /\ Agree(Build(p), p)
         /\ Coherent(p) => Valid(Build(p))
         /\ Build(p).devices.gpu = GpuActive(p) /\ GpuActive(p) \in BOOLEAN
  BY BuildType, BuildAgrees, BuildGpu, BuildValid DEF GoodProfile, GpuActive, Profiles, Stages

LEMMA PinnedIsGood ==
  ASSUME NEW p \in Profiles, Normal(p.security)
  PROVE  /\ GoodProfile(Pinned(p)) /\ Pinned(p).stage = p.stage /\ Pinned(p).gpu = p.gpu
         /\ Pinned(p).security = p.security
  BY DEF Pinned, GoodProfile, Profiles, Settings, Normal

LEMMA DevirtualizeInv ==
  ASSUME SecurityInv, NEW s \in Offered, Devirtualize(s) PROVE SecurityInv'
<1> DEFINE chosen == [s EXCEPT !.hyperv = s.isolation /\ s.hyperv,
                               !.vtd = s.vtd \/ s.dma, !.intremap = s.vtd /\ s.intremap]
           q == [profile EXCEPT !.stage = "devirtualized", !.accel = accel, !.security = chosen]
           p == Pinned(q)
<1>1. s \in Settings /\ (s.isolation => s.secureBoot)
  BY OfferedAssumption DEF Devirtualize
<1>2. chosen \in Settings /\ Normal(chosen)
  BY <1>1 DEF Settings, Normal
<1>3. q \in Profiles /\ q.security = chosen /\ q.stage = "devirtualized"
  BY <1>2 DEF SecurityInv, TypeInv, Profiles, Stages
<1>4. GoodProfile(p) /\ p.stage = "devirtualized"
  BY <1>2, <1>3, PinnedIsGood
<1>5. Coherent(p) /\ GpuActive(p) = FALSE
  BY <1>4 DEF Coherent, GpuActive
<1>6. Transaction("devirtualize", "build", p, Build(p), TRUE) /\ hooked' = FALSE
      /\ work.step = "idle"
  BY DEF Devirtualize, LeaveSingleGpuStage
<1> HIDE DEF p
<1>7. PlanInv("devirtualize", "build", p, Build(p), TRUE, hooked')
  BY <1>4, <1>5, <1>6, BuildPlan DEF PlanInv, Leaving, Keeping, Finishing
<1> QED
  BY <1>6, <1>7, TransactionInv DEF Ops

LEMMA ConfigureSecurityInv ==
  ASSUME SecurityInv, NEW s \in Offered, ConfigureSecurity(s) PROVE SecurityInv'
<1> DEFINE chosen == [s EXCEPT !.hyperv = s.isolation /\ s.hyperv,
                               !.vtd = profile.security.vtd \/ s.dma,
                               !.intremap = profile.security.intremap]
           q == [profile EXCEPT !.accel = accel, !.security = chosen]
           p == Pinned(q)
           x == EditSecurity(domain, p)
<1>1. s \in Settings /\ (s.isolation => s.secureBoot)
  BY OfferedAssumption DEF ConfigureSecurity
<1>2. GoodProfile(profile) /\ Coherent(profile) /\ Valid(domain) /\ domain \in Definitions
  BY DEF SecurityInv, StoresInv, TypeInv
<1>3. chosen \in Settings /\ Normal(chosen)
  BY <1>1, <1>2 DEF Settings, Normal, GoodProfile, Profiles
<1>4. chosen.dma = s.dma /\ chosen.intremap = profile.security.intremap
      /\ chosen.vtd = (profile.security.vtd \/ s.dma)
  BY <1>1 DEF Settings
<1> HIDE DEF chosen
<1>5. q \in Profiles /\ q.security = chosen /\ q.stage = profile.stage /\ q.gpu = profile.gpu
  BY <1>3 DEF SecurityInv, TypeInv, Profiles
<1> HIDE DEF q
<1>6. /\ GoodProfile(p) /\ p.stage = profile.stage /\ p.gpu = profile.gpu
      /\ p.security.vtd = (profile.security.vtd \/ p.security.dma)
      /\ p.security.intremap = profile.security.intremap
  BY <1>3, <1>5, <1>4, PinnedIsGood
<1>7. Transaction("security", "edit", p, x, TRUE) /\ hooked' = hooked /\ work.step = "idle"
  BY DEF ConfigureSecurity, StartWork, chosen, q
<1> HIDE DEF p
<1>8. x \in Definitions /\ x.arguments.board = p.board
      /\ x.machine.patched = domain.machine.patched /\ x.devices.gpu = domain.devices.gpu
  BY <1>2, <1>6, EditType DEF GoodProfile, EditSecurity, EditArguments, EditedArguments, Definitions
<1>9. Coherent(p) /\ GpuActive(p) = GpuActive(profile)
  BY <1>2, <1>6 DEF Coherent, GpuActive
<1>10. ASSUME "domain" \notin torn PROVE Agree(x, p) /\ Valid(x)
  <2>1. CASE domain.machine.patched
    <3>1. domain = Build(profile)
      BY <1>7, <1>10, <2>1 DEF SecurityInv, StoresInv, Agree
    <3>2. Patched(profile)
      BY <2>1, <3>1 DEF Build, Machine
    <3>3. x = Build(p)
      BY <1>2, <1>6, <3>1, <3>2, EditIsBuild
    <3> QED
      BY <1>6, <1>9, <3>3, BuildPlan
  <2>2. CASE ~domain.machine.patched
    BY <1>2, <1>6, <1>8, <2>2, EditValid DEF Agree
  <2> QED
    BY <2>1, <2>2
<1>11. "hook" \notin torn => x.devices.gpu = hooked /\ GpuActive(p) = hooked
  BY <1>7, <1>8, <1>9 DEF SecurityInv, StoresInv
<1> HIDE DEF x
<1>12. PlanInv("security", "edit", p, x, TRUE, hooked')
  BY <1>6, <1>7, <1>8, <1>9, <1>10, <1>11 DEF PlanInv, Leaving, Keeping, Finishing
<1> QED
  BY <1>7, <1>12, TransactionInv DEF Ops, SecurityInv, TypeInv

\* Commands that build the definition from the profile with another stage or GPU.
LEMMA RestageInv ==
  ASSUME SecurityInv, NEW p, NEW op \in Ops \ {"devirtualize", "security", "randomize", "align"},
         work.step \in {"idle", "wizard"}, Transaction(op, "build", p, Build(p), FALSE),
         GoodProfile(p), op # "passthrough" => Coherent(p),
         p.security = profile.security, hooked' \in BOOLEAN,
         op = "resume" => ~hooked' /\ p.stage = "install",
         op \in Keeping => work.step = "idle" /\ hooked' = hooked
                           /\ p.stage = profile.stage /\ p.gpu = profile.gpu,
         op \in Finishing => p.stage \in {"gpu-setup", "final"},
         op = "gpu-setup" => p.gpu,
         op = "finalize-vm" => work.step = "idle" /\ hooked' = hooked
                               /\ p.gpu = profile.gpu /\ (p.gpu => profile.stage # "install"),
         op = "disable" => ~p.gpu
  PROVE  SecurityInv'
<1>1. "vars" \notin torn => (vars = "on") = p.security.secureBoot
  BY DEF SecurityInv, VarsInv
<1>2. "hook" \notin torn /\ work.step = "idle" => GpuActive(profile) = hooked
  BY DEF SecurityInv, StoresInv
<1>3. PlanInv(op, "build", p, Build(p), FALSE, hooked')
  BY <1>1, <1>2, BuildPlan
  DEF PlanInv, Leaving, Keeping, Finishing, GpuActive, GoodProfile, Profiles
<1> QED
  BY <1>3, TransactionInv

LEMMA StartInv ==
  ASSUME SecurityInv,
         \/ \E s \in Offered : Devirtualize(s) \/ ConfigureSecurity(s)
         \/ EnableGpuSetup \/ FinalizeVm \/ FinalizeCreation \/ ResumeVm
         \/ RebuildFromProfile \/ RebuildForCpus
         \/ \E gpu \in BOOLEAN : ConfigurePassthrough(gpu)
         \/ DisablePassthrough
  PROVE  SecurityInv'
<1>1. GoodProfile(profile) /\ Coherent(profile) /\ hooked \in BOOLEAN /\ accel \in BOOLEAN
  BY DEF SecurityInv, StoresInv, TypeInv
<1> USE DEF Coherent, Ops, Keeping, Finishing, Rebuild, StartWork, Finish
<1>2. ASSUME NEW s \in Offered, Devirtualize(s) \/ ConfigureSecurity(s) PROVE SecurityInv'
  BY <1>2, DevirtualizeInv, ConfigureSecurityInv
<1>3. CASE EnableGpuSetup
  <2> DEFINE p == [profile EXCEPT !.stage = "gpu-setup"]
  <2>1. GoodProfile(p) /\ p.stage = "gpu-setup" /\ p.gpu = profile.gpu
        /\ p.security = profile.security
    BY <1>1 DEF GoodProfile, Profiles, Stages
  <2>2. Transaction("gpu-setup", "build", p, Build(p), FALSE)
    BY <1>3 DEF EnableGpuSetup
  <2> HIDE DEF p
  <2> QED
    BY <1>1, <1>3, <2>1, <2>2, RestageInv DEF EnableGpuSetup
<1>4. CASE FinalizeVm
  <2> DEFINE p == [profile EXCEPT !.stage = "final"]
  <2>1. GoodProfile(p) /\ p.stage = "final" /\ p.gpu = profile.gpu
        /\ p.security = profile.security
    BY <1>1 DEF GoodProfile, Profiles, Stages
  <2>2. Transaction("finalize", "build", p, Build(p), FALSE)
    BY <1>4 DEF FinalizeVm
  <2> HIDE DEF p
  <2> QED
    BY <1>1, <1>4, <2>1, <2>2, RestageInv DEF FinalizeVm
<1>5. CASE FinalizeCreation
  <2> DEFINE p == [profile EXCEPT !.stage = "final"]
  <2>1. GoodProfile(p) /\ p.stage = "final" /\ p.gpu = profile.gpu
        /\ p.security = profile.security
    BY <1>1 DEF GoodProfile, Profiles, Stages
  <2>2. Transaction("finalize-vm", "build", p, Build(p), FALSE)
    BY <1>5 DEF FinalizeCreation
  <2> HIDE DEF p
  <2> QED
    BY <1>1, <1>5, <2>1, <2>2, RestageInv DEF FinalizeCreation
<1>6. CASE ResumeVm
  <2> DEFINE p == [profile EXCEPT !.stage = "install"]
  <2>1. GoodProfile(p) /\ p.stage = "install" /\ p.gpu = profile.gpu
        /\ p.security = profile.security
    BY <1>1 DEF GoodProfile, Profiles, Stages
  <2>2. Transaction("resume", "build", p, Build(p), FALSE)
    BY <1>6 DEF ResumeVm, LeaveSingleGpuStage
  <2> HIDE DEF p
  <2> QED
    BY <1>1, <1>6, <2>1, <2>2, RestageInv DEF ResumeVm, LeaveSingleGpuStage
<1>7. CASE RebuildFromProfile
  BY <1>1, <1>7, RestageInv DEF RebuildFromProfile
<1>8. CASE RebuildForCpus
  <2> DEFINE p == [profile EXCEPT !.accel = accel]
  <2>1. GoodProfile(p) /\ p.stage = profile.stage /\ p.gpu = profile.gpu
        /\ p.security = profile.security
    BY <1>1 DEF GoodProfile, Profiles, Stages
  <2>2. Transaction("cpu-layout", "build", p, Build(p), FALSE)
    BY <1>8 DEF RebuildForCpus
  <2> HIDE DEF p
  <2> QED
    BY <1>1, <1>8, <2>1, <2>2, RestageInv DEF RebuildForCpus
<1>9. ASSUME NEW gpu \in BOOLEAN, ConfigurePassthrough(gpu) PROVE SecurityInv'
  <2> DEFINE p == [profile EXCEPT !.gpu = gpu]
  <2>1. GoodProfile(p) /\ p.stage = profile.stage /\ p.gpu = gpu
        /\ p.security = profile.security
    BY <1>1 DEF GoodProfile, Profiles, Stages
  <2>2. Transaction("passthrough", "build", p, Build(p), FALSE)
    BY <1>9 DEF ConfigurePassthrough
  <2> HIDE DEF p
  <2> QED
    BY <1>1, <1>9, <2>1, <2>2, RestageInv DEF ConfigurePassthrough
<1>10. CASE DisablePassthrough
  <2> DEFINE p == [profile EXCEPT !.gpu = FALSE, !.stage = "devirtualized"]
  <2>1. GoodProfile(p) /\ p.stage = "devirtualized" /\ p.gpu = FALSE
        /\ p.security = profile.security
    BY <1>1 DEF GoodProfile, Profiles, Stages
  <2>2. Transaction("disable", "build", p, Build(p), FALSE)
    BY <1>10 DEF DisablePassthrough
  <2> HIDE DEF p
  <2> QED
    BY <1>1, <1>10, <2>1, <2>2, RestageInv DEF DisablePassthrough
<1> QED
  BY <1>2, <1>3, <1>4, <1>5, <1>6, <1>7, <1>8, <1>9, <1>10

LEMMA IdentityInv ==
  ASSUME SecurityInv, RandomizeXml \/ AlignHostBoard PROVE SecurityInv'
<1> DEFINE board == IF RandomizeXml THEN profile.board ELSE "host"
           op == IF RandomizeXml THEN "randomize" ELSE "align"
           p == [profile EXCEPT !.board = board]
           x == UpdateIdentity(domain, p)
<1>1. GoodProfile(profile) /\ domain \in Definitions /\ hooked \in BOOLEAN
      /\ profile \in Profiles /\ Valid(domain)
  BY DEF SecurityInv, StoresInv, TypeInv
<1>2. board \in {"random", "host"} /\ (profile.security.secureBoot => board = "host")
  BY <1>1 DEF GoodProfile, Profiles
<1>3. work.step = "idle" /\ hooked' = hooked /\ Transaction(op, "edit", p, x, FALSE)
  <2>1. CASE RandomizeXml
    <3>1. p = profile
      BY <1>1, <2>1 DEF Profiles
    <3> QED
      BY <2>1, <3>1 DEF RandomizeXml, StartWork
  <2>2. CASE ~RandomizeXml
    BY <2>2 DEF AlignHostBoard, StartWork
  <2> QED
    BY <2>1, <2>2
<1> HIDE DEF board
<1>4. GoodProfile(p) /\ p.board = board /\ p.security = profile.security
      /\ p.stage = profile.stage /\ p.gpu = profile.gpu
  BY <1>1, <1>2 DEF GoodProfile, Profiles
<1>5. x \in Definitions /\ x.arguments.board = p.board /\ Valid(x)
      /\ x.machine.patched = domain.machine.patched /\ x.devices.gpu = domain.devices.gpu
  BY <1>1, <1>4, IdentityEdit DEF GoodProfile
<1>6. "domain" \notin torn => Agree(x, p)
  BY <1>1, <1>2, <1>3, <1>5, IdentityIsBuild DEF SecurityInv, StoresInv, Agree
<1>7. GpuActive(p) = GpuActive(profile) /\ Coherent(p)
  BY <1>4 DEF GpuActive, Coherent, SecurityInv, StoresInv
<1> HIDE DEF p, x
<1>8. PlanInv(op, "edit", p, x, FALSE, hooked')
  BY <1>3, <1>4, <1>5, <1>6, <1>7
  DEF PlanInv, Leaving, Keeping, Finishing, SecurityInv, VarsInv, StoresInv
<1> QED
  BY <1>1, <1>3, <1>8, TransactionInv DEF Ops

-----------------------------------------------------------------------------
(* The steps of a running command *)

LEMMA WriteVarsInv == ASSUME SecurityInv, WriteVars PROVE SecurityInv'
<1>1. work \in Works /\ work.step = "vars" /\ work.setsVars /\ Plan
  BY DEF SecurityInv, TypeInv, WorkInv, WriteVars, AtRest, Wizard
<1>2. /\ work' \in Works /\ work'.step = "define" /\ work'.op = work.op
      /\ work'.kind = work.kind /\ work'.profile = work.profile /\ work'.xml = work.xml
      /\ work'.setsVars = work.setsVars /\ work'.backup = work.backup
  BY <1>1 DEF WriteVars, Works
<1>3. TypeInv'
  BY <1>2 DEF WriteVars, SecurityInv, TypeInv, Varstore
<1>4. Plan'
  BY <1>1, <1>2 DEF WriteVars, Plan, PlanInv
<1>5. WorkInv' /\ StoresInv'
  BY <1>1, <1>2, <1>4 DEF WriteVars, SecurityInv, WorkInv, StoresInv
<1>6. VarsInv'
  <2>1. work.profile.security.secureBoot \in BOOLEAN
    BY <1>1 DEF Works, Profiles, Settings
  <2> QED
    BY <1>1, <1>2, <2>1 DEF WriteVars, SecurityInv, VarsInv
<1> QED
  BY <1>3, <1>5, <1>6 DEF SecurityInv

LEMMA DefineInv == ASSUME SecurityInv, Define PROVE SecurityInv'
<1>1. work \in Works /\ work.step = "define" /\ Plan /\ Valid(work.xml)
  BY DEF SecurityInv, TypeInv, WorkInv, Define, AtRest, Wizard
<1>2. /\ work' \in Works /\ work'.step = "save" /\ work'.op = work.op
      /\ work'.kind = work.kind /\ work'.profile = work.profile /\ work'.xml = work.xml
      /\ work'.setsVars = work.setsVars /\ work'.backup = work.backup
  BY <1>1 DEF Define, Works
<1>3. TypeInv'
  BY <1>1, <1>2 DEF Define, SecurityInv, TypeInv, Plan, PlanInv
<1>4. Plan'
  BY <1>1, <1>2 DEF Define, Plan, PlanInv
<1>5. Coherent(work.profile)   \* libvirt and the validation took it
  BY <1>1, ValidIsCoherent DEF Plan, PlanInv
<1>6. WorkInv' /\ VarsInv' /\ StoresInv'
  BY <1>1, <1>2, <1>4, <1>5 DEF Define, SecurityInv, WorkInv, VarsInv, StoresInv
<1> QED
  BY <1>3, <1>6 DEF SecurityInv

\* Wherever a command ends, the hooks agree with the profile and the definition, or
\* the disagreement is on record.
LEMMA UnhookedInv ==
  ASSUME NEW p, NEW d, NEW t, "hook" \notin t \cup Unhooked(p, d)
  PROVE  d.devices.gpu = hooked /\ GpuActive(p) = hooked
  BY DEF Unhooked

LEMMA DefineFailsInv == ASSUME SecurityInv, DefineFails PROVE SecurityInv'
<1>1. work \in Works /\ work.step = "define" /\ work' = AtRest
  BY DEF SecurityInv, TypeInv, DefineFails, AtRest, Wizard
<1>2. Unhooked(profile, domain) \subseteq {"hook"}
  BY DEF Unhooked
<1>3. TypeInv'
  BY <1>1, <1>2 DEF DefineFails, SecurityInv, TypeInv, RestoredVars, Works
<1>4. WorkInv'
  BY <1>1 DEF WorkInv, AtRest
<1>5. VarsInv'
  BY <1>1, <1>2 DEF DefineFails, SecurityInv, VarsInv, RestoredVars, AtRest
<1>6. StoresInv'
  <2>1. "hook" \notin torn' => domain.devices.gpu = hooked /\ GpuActive(profile) = hooked
    BY UnhookedInv DEF DefineFails
  <2> QED
    BY <1>1, <1>2, <2>1 DEF DefineFails, SecurityInv, StoresInv
<1> QED
  BY <1>3, <1>4, <1>5, <1>6 DEF SecurityInv

LEMMA SaveInv == ASSUME SecurityInv, Save PROVE SecurityInv'
<1>1. /\ work \in Works /\ work.step = "save" /\ Plan /\ domain = work.xml
      /\ Valid(domain) /\ Coherent(work.profile)
  BY DEF SecurityInv, TypeInv, WorkInv, Save, AtRest, Wizard
<1>2. /\ profile' = work.profile /\ domain' = domain /\ vars' = vars /\ hooked' = hooked
      /\ accel' = accel /\ torn' = torn \ Repaired
  BY DEF Save
<1>3. GoodProfile(work.profile) /\ work.profile \in Profiles
  BY <1>1 DEF Plan, PlanInv, GoodProfile
<1>4. "domain" \notin torn' => Agree(domain, work.profile)
  <2>1. CASE work.kind = "build"
    BY <1>1, <2>1, <1>3, BuildPlan DEF Plan, PlanInv
  <2>2. CASE work.kind # "build"
    BY <1>1, <1>2, <2>2 DEF Plan, PlanInv, Repaired
  <2> QED
    BY <2>1, <2>2
<1>5. "vars" \notin torn' => (vars = "on") = work.profile.security.secureBoot
  <2>1. CASE work.setsVars
    BY <1>1, <2>1 DEF SecurityInv, VarsInv
  <2>2. CASE ~work.setsVars
    BY <1>1, <1>2, <2>2 DEF Plan, PlanInv, Repaired
  <2> QED
    BY <2>1, <2>2
<1>6. CASE work.op = "passthrough"
  <2>1. work' = Wizard
    BY <1>6 DEF Save
  <2> QED
    BY <1>1, <1>2, <1>3, <1>4, <1>5, <2>1
    DEF SecurityInv, TypeInv, WorkInv, VarsInv, StoresInv, Wizard
<1>7. CASE work.op \in Finishing \cup {"disable"}
  <2>1. work' = [work EXCEPT !.step = "hooks"]
    BY <1>7 DEF Save, Finishing
  <2>2. /\ work' \in Works /\ work'.step = "hooks" /\ work'.op = work.op
        /\ work'.kind = work.kind /\ work'.profile = work.profile /\ work'.xml = work.xml
        /\ work'.setsVars = work.setsVars
    BY <1>1, <2>1 DEF Works
  <2>3. Plan' /\ ~work.setsVars
    <3>1. "hook" \in torn' <=> "hook" \in torn
      BY <1>2, <1>7 DEF Repaired, Finishing
    <3>2. ~work.setsVars
      BY <1>1, <1>7 DEF Plan, PlanInv, Finishing
    <3> QED
      BY <1>1, <1>2, <1>4, <1>5, <2>2, <3>1, <3>2, <1>7 DEF Plan, PlanInv, Finishing
  <2> QED
    BY <1>1, <1>2, <1>3, <1>4, <1>5, <1>7, <2>2, <2>3
    DEF SecurityInv, TypeInv, WorkInv, VarsInv, StoresInv
<1>8. CASE work.op \in Leaving \cup Keeping
  <2>1. work' = AtRest
    BY <1>8 DEF Save, Leaving, Keeping
  <2>2. "hook" \notin torn' =>
          domain.devices.gpu = hooked /\ GpuActive(work.profile) = hooked
    <3>1. CASE work.op \in Leaving
      BY <1>1, <3>1, <1>3, BuildPlan DEF Plan, PlanInv, SecurityInv, TypeInv, Definitions
    <3>2. CASE work.op \in Keeping
      BY <1>1, <1>2, <3>2 DEF Plan, PlanInv, Keeping, Repaired
    <3> QED
      BY <1>8, <3>1, <3>2
  <2> QED
    BY <1>1, <1>2, <1>3, <1>4, <1>5, <2>1, <2>2
    DEF SecurityInv, TypeInv, WorkInv, VarsInv, StoresInv, AtRest
<1> QED
  BY <1>1, <1>6, <1>7, <1>8 DEF Works, Ops, Leaving, Keeping, Finishing

LEMMA HooksInv == ASSUME SecurityInv, Hooks PROVE SecurityInv'
<1>1. /\ work \in Works /\ work.step = "hooks" /\ Plan /\ domain = work.xml
      /\ profile = work.profile /\ work.op \in Finishing \cup {"disable"}
      /\ GoodProfile(profile)
  BY DEF SecurityInv, TypeInv, WorkInv, Hooks, AtRest, Wizard, Plan, PlanInv
<1>2. profile.gpu \in BOOLEAN /\ domain.devices.gpu \in BOOLEAN /\ GpuActive(profile) \in BOOLEAN
  BY <1>1, BuildPlan DEF GoodProfile, Profiles, SecurityInv, TypeInv, Definitions
<1>3. hooked' \in BOOLEAN
  BY DEF Hooks, SecurityInv, TypeInv
<1>4. "hook" \notin torn' => domain.devices.gpu = hooked' /\ GpuActive(profile) = hooked'
  <2>1. CASE work.op = "disable"
    BY <1>1, <1>2, <2>1 DEF Hooks, Plan, PlanInv
  <2>2. CASE work.op \in Finishing /\ profile.gpu
    <3>1. profile.gpu = TRUE /\ hooked' = TRUE
      BY <1>2, <2>2 DEF Hooks, Finishing
    <3>2. domain.devices.gpu = profile.gpu /\ GpuActive(profile) = profile.gpu
      BY <1>1, <2>2 DEF Plan, PlanInv
    <3> QED
      BY <3>1, <3>2
  <2>3. CASE work.op \in Finishing /\ ~profile.gpu
    BY <1>1, <1>2, <2>3 DEF Hooks, Plan, PlanInv, Finishing, SecurityInv, TypeInv
  <2> QED
    BY <1>1, <2>1, <2>2, <2>3
<1>5. torn' \in {torn, torn \ {"hook"}} /\ work' = AtRest
  BY DEF Hooks
<1>6. profile' = profile /\ domain' = domain /\ vars' = vars /\ accel' = accel
  BY DEF Hooks
<1>7. TypeInv' /\ WorkInv'
  BY <1>3, <1>5, <1>6 DEF SecurityInv, TypeInv, WorkInv, AtRest
<1>8. VarsInv'
  BY <1>1, <1>5, <1>6 DEF SecurityInv, VarsInv, AtRest
<1>9. StoresInv'
  BY <1>1, <1>4, <1>5, <1>6 DEF SecurityInv, StoresInv, AtRest
<1> QED
  BY <1>7, <1>8, <1>9 DEF SecurityInv

LEMMA SaveFailsInv == ASSUME SecurityInv, SaveFails PROVE SecurityInv'
<1>1. /\ work \in Works /\ work.step = "save" /\ Plan /\ domain = work.xml
      /\ Valid(domain) /\ Coherent(work.profile) /\ work' = AtRest
  BY DEF SecurityInv, TypeInv, WorkInv, SaveFails, AtRest, Wizard
<1>2. PICK saved \in BOOLEAN :
        /\ profile' = IF saved THEN work.profile ELSE profile
        /\ torn' = torn \cup (IF saved THEN {} ELSE {"domain"})
                        \cup (IF work.setsVars THEN {"vars"} ELSE {})
                        \cup Unhooked(profile', domain)
  BY DEF SaveFails
<1>3. Unhooked(profile', domain) \subseteq {"hook"}
  BY DEF Unhooked
<1>4. GoodProfile(profile') /\ Coherent(profile') /\ profile' \in Profiles
  BY <1>1, <1>2 DEF Plan, PlanInv, SecurityInv, StoresInv, GoodProfile
<1>5. TypeInv'
  BY <1>1, <1>2, <1>3, <1>4 DEF SaveFails, SecurityInv, TypeInv, RestoredVars, Works
<1>6. WorkInv'
  BY <1>1 DEF WorkInv, AtRest
<1>7. VarsInv'
  BY <1>1, <1>2, <1>3 DEF SaveFails, SecurityInv, VarsInv, RestoredVars, AtRest, Plan, PlanInv
<1>8. "hook" \notin torn' => domain.devices.gpu = hooked /\ GpuActive(profile') = hooked
  BY <1>2, UnhookedInv
<1>9. "domain" \notin torn' => Agree(domain, profile')
  BY <1>1, <1>2 DEF Plan, PlanInv, SecurityInv, StoresInv
<1>10. StoresInv'
  BY <1>1, <1>4, <1>8, <1>9 DEF SaveFails, StoresInv
<1> QED
  BY <1>5, <1>6, <1>7, <1>10 DEF SecurityInv

LEMMA KilledInv == ASSUME SecurityInv, Killed PROVE SecurityInv'
<1>1. work' = AtRest /\ work \in Works \cup {Wizard}
  BY DEF Killed, SecurityInv, TypeInv, AtRest
<1>2. Unhooked(profile, domain) \subseteq {"hook"}
  BY DEF Unhooked
<1>3. "hook" \notin torn' => domain.devices.gpu = hooked /\ GpuActive(profile) = hooked
  BY UnhookedInv DEF Killed
<1>4. TypeInv' /\ WorkInv'
  <2>1. torn' \subseteq {"domain", "vars", "hook"}
    BY <1>2 DEF Killed, SecurityInv, TypeInv
  <2> QED
    BY <1>1, <2>1 DEF Killed, SecurityInv, TypeInv, WorkInv, AtRest
<1>5. VarsInv'
  BY <1>1, <1>2 DEF Killed, SecurityInv, VarsInv, AtRest, Wizard, Works
<1>6. StoresInv'
  BY <1>1, <1>2, <1>3 DEF Killed, SecurityInv, WorkInv, StoresInv, Wizard, Works
<1> QED
  BY <1>4, <1>5, <1>6 DEF SecurityInv

LEMMA SecurityInvStep == SecurityInv /\ [SecurityNext]_securityVars => SecurityInv'
<1> SUFFICES ASSUME SecurityInv, [SecurityNext]_securityVars PROVE SecurityInv'
  OBVIOUS
<1>1. CASE RebootHost
  BY <1>1 DEF RebootHost, SecurityInv, TypeInv, WorkInv, VarsInv, StoresInv, Plan, PlanInv
<1>2. CASE UNCHANGED securityVars
  BY <1>2 DEF securityVars, SecurityInv, TypeInv, WorkInv, VarsInv, StoresInv, Plan, PlanInv
<1> QED
  BY <1>1, <1>2, StartInv, IdentityInv, WriteVarsInv, DefineInv, DefineFailsInv, SaveInv,
     HooksInv, SaveFailsInv, KilledInv DEF SecurityNext

LEMMA SecurityInvariant == SecuritySpec => []SecurityInv
  BY SecurityInvInit, SecurityInvStep, PTL DEF SecuritySpec

-----------------------------------------------------------------------------
\* Every store keeps its type.
THEOREM SecurityTypes == SecuritySpec => []SecurityTypeOK
<1>1. SecurityInv => SecurityTypeOK
  BY DEF SecurityInv, TypeInv, SecurityTypeOK, Works, Ops
<1> QED
  BY <1>1, SecurityInvariant, PTL

\* The definition edited in place and the one built from the profile never drift apart,
\* for every sequence of commands and every answer of the menus.
THEOREM EditingIsBuilding == SecuritySpec => []NoDrift
<1>1. SecurityInv => NoDrift
  BY DEF SecurityInv, StoresInv, Agree, NoDrift
<1> QED
  BY <1>1, SecurityInvariant, PTL

\* The guest's Secure Boot variables are the profile's, unless a command was cut off
\* after it had exchanged them.
THEOREM VarsAreTheProfiles == SecuritySpec => []VarsMatchProfile
<1>1. SecurityInv => VarsMatchProfile
  BY DEF SecurityInv, VarsInv, VarsMatchProfile
<1> QED
  BY <1>1, SecurityInvariant, PTL

\* The tool never generates a definition that its own validation refuses.
THEOREM OwnXmlIsValid == SecuritySpec => []NeverRefusesItself
<1>1. SecurityInv => NeverRefusesItself
  BY DEF SecurityInv, WorkInv, Plan, PlanInv, NeverRefusesItself
<1> QED
  BY <1>1, SecurityInvariant, PTL

\* A guest with keys of the host's board shows that board.
THEOREM BoardGoesWithKeys == SecuritySpec => []BoardFitsKeys
<1>1. SecurityInv => BoardFitsKeys
  BY DEF SecurityInv, StoresInv, GoodProfile, Agree, BoardFitsKeys
<1> QED
  BY <1>1, SecurityInvariant, PTL

\* The definition takes the GPU exactly when the hooks that hand it over are installed.
THEOREM HooksGoWithGpu == SecuritySpec => []GpuComesWithHooks
<1>1. SecurityInv => GpuComesWithHooks
  BY DEF SecurityInv, StoresInv, GpuComesWithHooks
<1> QED
  BY <1>1, SecurityInvariant, PTL

-----------------------------------------------------------------------------
(***************************************************************************)
(* Proofs about Artifacts, for any bound on the generations and any        *)
(* sequence of commands, refused builds, kills and clean-ups.              *)
(*                                                                         *)
(* ActiveIntact is not inductive: a definition may point to a generation   *)
(* that the profile does not know of, and back.  What is kept throughout   *)
(* is that the PROFILE's generation is sound (IntactInv): a build goes to  *)
(* another one, or to one that is on record as emptied.                    *)
(***************************************************************************)

Building == {"stage", "qemu", "checkQemu", "ovmf", "checkOvmf", "publish"}
Builds == {"create", "all", "rebuild"}

SoundOrEmptied(g) == g # 0 /\ g \notin emptied => Sound(g)

\* Where the running command builds, and what it has already accepted.
TargetInv ==
  /\ cmd.step \in Building => cmd.op \in Builds /\ cmd.target \in Generations
  /\ cmd.step = "stage" => /\ cmd.op \in {"create", "rebuild"} => settings.artifacts # cmd.target
                           /\ cmd.settings.artifacts = settings.artifacts
  /\ cmd.step \in Building \ {"stage"} =>
       (settings.artifacts = cmd.target => cmd.target \in emptied)
  /\ cmd.step \in {"ovmf", "publish"} => output[cmd.target].flaw = "none"
  /\ cmd.step = "publish" => output[cmd.target].firmware # "generic"

IntactInv ==
  /\ settings.identity # 0
  /\ SoundOrEmptied(settings.artifacts)
  /\ cmd.step \in {"define", "save"} => SoundOrEmptied(cmd.settings.artifacts)
  /\ cmd.step # "idle" => cmd.settings.identity # 0

\* The generation g shows the board's BIOS only if the profile asks for it.
Asked(g, s) == g # 0 /\ output[g].firmware = "host" => s.pinned

\* The profile's firmware has the board's BIOS only where the profile asks for it; a
\* command never forgets that it does, and only a rebuild may be the first to ask.
PinInv ==
  /\ Asked(settings.artifacts, settings)
  /\ cmd.step \in Building \ {"stage"} => Asked(cmd.target, cmd.settings)
  /\ cmd.step \in {"define", "save"} => Asked(cmd.settings.artifacts, cmd.settings)
  /\ cmd.step # "idle" /\ settings.pinned => cmd.settings.pinned
  /\ cmd.step # "idle" /\ cmd.op # "rebuild" => cmd.settings.pinned = settings.pinned
  /\ cmd.step \in Building /\ cmd.op = "rebuild" => settings.artifacts # cmd.target
  /\ cmd.step \in {"publish", "define"} /\ cmd.op \in Builds /\ cmd.settings.pinned =>
       output[cmd.target].firmware = "host"
  /\ cmd.step = "define" /\ cmd.op \in Builds => cmd.target \in Generations
  /\ cmd.step = "define" =>
       \/ cmd.op \in Builds
       \/ cmd.op = "xml" /\ cmd.target = defined
       \/ cmd.op = "resume" /\ cmd.target = settings.artifacts

ArtifactsInv == ArtifactsTypeOK /\ TargetInv /\ IntactInv /\ PinInv

-----------------------------------------------------------------------------
LEMMA ArtifactsInvInit == ArtifactsInit => ArtifactsInv
<1> SUFFICES ASSUME ArtifactsInit PROVE ArtifactsInv
  OBVIOUS
<1> USE MaxGenerationAssumption DEF ArtifactsInit, NewVm, NoCmd
<1>1. ArtifactsTypeOK
  BY DEF ArtifactsTypeOK, Profiled, Outputs, Commands, Generations, Nothing, Flaws
<1>2. TargetInv /\ IntactInv
  BY DEF TargetInv, IntactInv, SoundOrEmptied, Building
<1>3. PinInv
  BY DEF PinInv, Nothing, Asked, Building
<1> QED
  BY <1>1, <1>2, <1>3 DEF ArtifactsInv

LEMMA ArtifactsInvStep == ArtifactsInv /\ [ArtifactsNext]_artifactVars => ArtifactsInv'
<1> SUFFICES ASSUME ArtifactsInv, [ArtifactsNext]_artifactVars PROVE ArtifactsInv'
  OBVIOUS
<1> USE MaxGenerationAssumption
<1> USE DEF ArtifactsInv, ArtifactsTypeOK, TargetInv, IntactInv, PinInv, SoundOrEmptied, Sound,
        Complete, Building, Builds, Generations, Profiled, NewVm, NoCmd, Nothing, Emptied,
        Outputs, Commands, Flaws, QemuFlaws, OvmfFlaws, Goes, Run, Asked, Deployed
<1>1. CASE CreateVm
  BY <1>1 DEF CreateVm
<1>2. CASE ResumeDomain
  BY <1>2 DEF ResumeDomain
<1>3. CASE RotateIdentity
  <2>1. ArtifactsTypeOK'
    BY <1>3 DEF RotateIdentity, Rerandomized
  <2>2. TargetInv'
    BY <1>3 DEF RotateIdentity, Rerandomized
  <2>3. IntactInv'
    BY <1>3 DEF RotateIdentity, Rerandomized
  <2>4. PinInv'
    BY <1>3 DEF RotateIdentity, Rerandomized
  <2> QED
    BY <2>1, <2>2, <2>3, <2>4
<1>4. CASE RandomizeAll
  BY <1>4 DEF RandomizeAll, Rerandomized
<1>5. CASE RebuildArtifacts
  <2>1. ArtifactsTypeOK'
    <3>1. PICK s \in {settings, [settings EXCEPT !.pinned = TRUE]} :
            cmd' = [step |-> "stage", op |-> "rebuild", settings |-> s, target |-> NextGeneration(settings)]
      BY <1>5 DEF RebuildArtifacts
    <3>2. s \in Profiled
      OBVIOUS
    <3>3. NextGeneration(settings) \in 0 .. MaxGeneration
      BY <1>5 DEF RebuildArtifacts, NextGeneration
    <3>4. cmd' \in Commands
      BY <3>1, <3>2, <3>3
    <3> QED
      BY <1>5, <3>4 DEF RebuildArtifacts
  <2>2. TargetInv'
    BY <1>5 DEF RebuildArtifacts, NextGeneration
  <2>3. IntactInv'
    BY <1>5 DEF RebuildArtifacts, NextGeneration
  <2>4. PinInv'
    BY <1>5 DEF RebuildArtifacts, NextGeneration
  <2> QED
    BY <2>1, <2>2, <2>3, <2>4
<1>6. CASE PinBoard
  BY <1>6 DEF PinBoard
<1>7. CASE Cleanup
  BY <1>7 DEF Cleanup
<1>8. CASE PurgeVm
  <2>1. ArtifactsTypeOK'
    <3>1. PICK gone \in SUBSET Generations :
            /\ output' = [g \in Generations |-> IF g \in gone THEN Nothing ELSE output[g]]
            /\ settings' \in {NewVm, settings} /\ emptied' \subseteq emptied \cup gone
      BY <1>8 DEF PurgeVm
    <3>2. output' \in [Generations -> Outputs]
      BY <3>1
    <3>3. settings' \in Profiled
      <4>1. NewVm \in Profiled
        OBVIOUS
      <4> QED
        BY <3>1, <4>1
    <3>4. emptied' \subseteq Generations
      BY <3>1
    <3>5. defined' \in 0 .. MaxGeneration
      BY <1>8 DEF PurgeVm
    <3> QED
      BY <1>8, <3>2, <3>3, <3>4, <3>5 DEF PurgeVm
  <2>2. TargetInv'
    BY <1>8 DEF PurgeVm
  <2>3. IntactInv'
    BY <1>8 DEF PurgeVm
  <2>4. PinInv'
    BY <1>8 DEF PurgeVm
  <2> QED
    BY <2>1, <2>2, <2>3, <2>4
<1>9. CASE Stage
  BY <1>9 DEF Stage
<1>10. CASE QemuPatch
  <2>1. ArtifactsTypeOK'
    <3>1. PICK flaw \in QemuFlaws \cup {"none"} : output' = [output EXCEPT ![cmd.target].flaw = flaw]
      BY <1>10 DEF QemuPatch
    <3>2. [output[cmd.target] EXCEPT !.flaw = flaw] \in Outputs
      <4>1. output[cmd.target] \in Outputs
        BY <1>10 DEF QemuPatch
      <4>2. flaw \in Flaws
        OBVIOUS
      <4> QED
        BY <4>1, <4>2
    <3>3. output' \in [Generations -> Outputs]
      BY <3>1, <3>2
    <3>4. cmd' \in Commands
      BY <1>10 DEF QemuPatch
    <3> QED
      BY <1>10, <3>3, <3>4 DEF QemuPatch
  <2>2. TargetInv'
    BY <1>10 DEF QemuPatch
  <2>3. IntactInv'
    BY <1>10 DEF QemuPatch
  <2>4. PinInv'
    BY <1>10 DEF QemuPatch
  <2> QED
    BY <2>1, <2>2, <2>3, <2>4
<1>11. CASE QemuAccepted
  BY <1>11 DEF QemuAccepted
<1>12. CASE OvmfPatch
  <2>1. ArtifactsTypeOK'
    <3>1. PICK flaw \in OvmfFlaws \cup {"none"},
               firmware \in {"generic", IF cmd.settings.pinned THEN "host" ELSE "random"} :
            output' = [output EXCEPT ![cmd.target].flaw = flaw, ![cmd.target].firmware = firmware]
      BY <1>12 DEF OvmfPatch
    <3>2. [output[cmd.target] EXCEPT !.flaw = flaw, !.firmware = firmware] \in Outputs
      <4>1. output[cmd.target] \in Outputs
        BY <1>12 DEF OvmfPatch
      <4>2. flaw \in Flaws /\ firmware \in {"none", "generic", "random", "host"}
        OBVIOUS
      <4> QED
        BY <4>1, <4>2
    <3>3. output' = [output EXCEPT ![cmd.target] =
                       [output[cmd.target] EXCEPT !.flaw = flaw, !.firmware = firmware]]
      BY <1>12, <3>1 DEF OvmfPatch
    <3>4. output' \in [Generations -> Outputs]
      BY <3>2, <3>3
    <3>5. cmd' \in Commands
      BY <1>12 DEF OvmfPatch
    <3> QED
      BY <1>12, <3>4, <3>5 DEF OvmfPatch
  <2>2. TargetInv'
    BY <1>12 DEF OvmfPatch
  <2>3. IntactInv'
    BY <1>12 DEF OvmfPatch
  <2>4. PinInv'
    BY <1>12 DEF OvmfPatch
  <2> QED
    BY <2>1, <2>2, <2>3, <2>4
<1>13. CASE OvmfAccepted
  BY <1>13 DEF OvmfAccepted
<1>14. CASE Publish
  <2>1. ArtifactsTypeOK'
    <3>1. output' \in [Generations -> Outputs]
      BY <1>14 DEF Publish
    <3>2. [cmd.settings EXCEPT !.artifacts = cmd.target] \in Profiled
      BY <1>14 DEF Publish
    <3>3. cmd' = [cmd EXCEPT !.step = "define",
                             !.settings = [cmd.settings EXCEPT !.artifacts = cmd.target]]
      BY <1>14 DEF Publish
    <3>4. cmd' \in Commands
      BY <3>2, <3>3
    <3> QED
      BY <1>14, <3>1, <3>4 DEF Publish
  <2>2. TargetInv'
    BY <1>14 DEF Publish
  <2>3. IntactInv'
    BY <1>14 DEF Publish
  <2>4. PinInv'
    BY <1>14 DEF Publish
  <2> QED
    BY <2>1, <2>2, <2>3, <2>4
<1>15. CASE DefineArtifacts
  <2>1. ArtifactsTypeOK'
    <3>1. settings' \in Profiled /\ defined' \in 0 .. MaxGeneration
      BY <1>15 DEF DefineArtifacts
    <3>2. cmd' \in Commands
      <4>1. NoCmd \in Commands
        OBVIOUS
      <4>2. [cmd EXCEPT !.step = "save"] \in Commands
        OBVIOUS
      <4>3. cmd' \in {NoCmd, [cmd EXCEPT !.step = "save"]}
        BY <1>15 DEF DefineArtifacts
      <4> QED
        BY <4>1, <4>2, <4>3
    <3> QED
      BY <1>15, <3>1, <3>2 DEF DefineArtifacts
  <2>2. TargetInv'
    BY <1>15 DEF DefineArtifacts
  <2>3. IntactInv'
    BY <1>15 DEF DefineArtifacts
  <2>4. PinInv'
    BY <1>15 DEF DefineArtifacts
  <2> QED
    BY <2>1, <2>2, <2>3, <2>4
<1>16. CASE SaveSettings
  BY <1>16 DEF SaveSettings
<1>17. CASE Fails
  BY <1>17 DEF Fails
<1>18. CASE UNCHANGED artifactVars
  BY <1>18 DEF artifactVars
<1> QED
  BY <1>1, <1>2, <1>3, <1>4, <1>5, <1>6, <1>7, <1>8, <1>9, <1>10, <1>11, <1>12, <1>13, <1>14,
     <1>15, <1>16, <1>17, <1>18 DEF ArtifactsNext

LEMMA ArtifactsInvariant == ArtifactsSpec => []ArtifactsInv
  BY ArtifactsInvInit, ArtifactsInvStep, PTL DEF ArtifactsSpec

-----------------------------------------------------------------------------
\* The generation the VM starts from is complete and passed every validator, however
\* many builds failed and clean-ups ran, unless randomize-all emptied it.
THEOREM ActiveStaysIntact == ArtifactsSpec => []ActiveIntact
<1>1. ArtifactsInv => ActiveIntact
  BY DEF ArtifactsInv, IntactInv, SoundOrEmptied, ActiveIntact
<1> QED
  BY <1>1, ArtifactsInvariant, PTL

\* Firmware with the pinned BIOS is only ever replaced by firmware with the same.
THEOREM PinnedFirmware == ArtifactsSpec => FirmwareStaysPinned
<1>1. ArtifactsInv /\ [ArtifactsNext]_artifactVars
        => [defined = settings.artifacts /\ Complete(defined) /\ output[defined].firmware = "host"
              /\ defined' \notin {0, defined}
            => output'[defined'].firmware = "host"]_artifactVars
  <2> SUFFICES ASSUME ArtifactsInv, ArtifactsNext, defined = settings.artifacts,
                      Complete(defined), output[defined].firmware = "host",
                      defined' \notin {0, defined}
               PROVE  output'[defined'].firmware = "host"
    BY DEF artifactVars
  <2>1. DefineArtifacts
    BY DEF ArtifactsNext, Run, Goes, CreateVm, ResumeDomain, RotateIdentity, RandomizeAll,
           RebuildArtifacts, PinBoard, Cleanup, PurgeVm, Stage, QemuPatch, QemuAccepted,
           OvmfPatch, OvmfAccepted, Publish, SaveSettings, Fails
  <2>2. settings.pinned /\ cmd.settings.pinned
    BY <2>1 DEF DefineArtifacts, ArtifactsInv, PinInv, Asked, Complete, Generations
  <2> QED
    BY <2>1, <2>2 DEF DefineArtifacts, ArtifactsInv, PinInv
<1> QED
  BY <1>1, ArtifactsInvariant, PTL DEF ArtifactsSpec, FirmwareStaysPinned
=============================================================================
