------------------------------- MODULE CpuLayout -------------------------------
(***************************************************************************)
(* The guest's CPU topology and the host CPUs it is pinned to: computed by *)
(* vm_cpu_layout (hardware.py) from the host's cores as they are, kept in  *)
(* the profile, written to the definition by every later rebuild.          *)
(***************************************************************************)
EXTENDS Selection

\* A host: its vendor, its online cores as sorted sequences of logical CPUs, in the
\* order of package and core, and the CPUs' native APIC IDs.
CONSTANTS Topologies,   \* what the host may look like, boot after boot
          MaxVcpus      \* bound on the number the operator asks for

Online(host) == UNION {Range(g) : g \in Range(host.groups)}

\* _cpu_topology: every logical CPU is in the list of one core, once.
ASSUME TopologiesAssumption ==
  \A h \in Topologies :
    /\ h.vendor \in {"amd", "intel"} /\ h.groups \in Seq(Seq(Nat)) /\ h.groups # <<>>
    /\ \A g \in Range(h.groups) : g # <<>> /\ IsInjective(g)
    /\ \A i, j \in DOMAIN h.groups : i # j => Range(h.groups[i]) \cap Range(h.groups[j]) = {}
    /\ h.apic \in [Online(h) -> Nat] /\ IsInjective(h.apic)

\* AMD's hardware: a core has two threads at most, and the APIC IDs of two are those of
\* a pair 2k, 2k + 1; without SMT, of two cores.
ASSUME SmtAssumption ==
  \A h \in Topologies : h.vendor = "amd" =>
    /\ \A g \in Range(h.groups) : Len(g) <= 2
    /\ (\E g \in Range(h.groups) : Len(g) >= 2) =>
         \A c, d \in Online(h) : h.apic[c] \div 2 = h.apic[d] \div 2 =>
           \E g \in Range(h.groups) : {c, d} \subseteq Range(g)
ASSUME MaxVcpusAssumption == MaxVcpus \in Nat \ {0}

VARIABLES topology,    \* the host in this boot
          resources,   \* vcpus, threads_per_core and cpu_pinning in the profile
          cpus,        \* the topology and the pins in libvirt's definition
          measured     \* history: the host the profile's pins were computed for

cpuVars == <<topology, resources, cpus, measured>>

Cores(host) == {Range(g) : g \in Range(host.groups)}
HostThreads(host) == Max({Cardinality(c) : c \in Cores(host)})

-----------------------------------------------------------------------------
(* vm_cpu_layout *)

\* Mutant of Threads: the parity of the request is not looked at.
ThreadsAlways(host, vcpus) == IF HostThreads(host) >= 2 THEN 2 ELSE 1

Threads(host, vcpus) == IF HostThreads(host) >= 2 /\ vcpus % 2 = 0 THEN 2 ELSE 1

Eligible(host, threads) ==
  Only(host.groups, {g \in Range(host.groups) : Len(g) >= threads})

\* AMD: vCPU n on the CPU whose APIC ID is n, if these make up whole cores.
ApicPins(host, vcpus) ==
  [n \in 1 .. vcpus |-> CHOOSE c \in Online(host) : host.apic[c] = n - 1]

ApicAligned(host, vcpus, threads) ==
  /\ host.vendor = "amd" /\ \A n \in 1 .. vcpus : \E c \in Online(host) : host.apic[c] = n - 1
  /\ LET pinned == Range(ApicPins(host, vcpus))
         whole == {g \in Range(Eligible(host, threads)) :
                     Range(SubSeq(g, 1, threads)) \subseteq pinned}
     IN /\ Cardinality(whole) = vcpus \div threads
        /\ Online(host) \ pinned # {}

\* Otherwise the last cores; the first ones stay with the host and the emulator.
LastCores(host, vcpus, threads) ==
  LET eligible == Eligible(host, threads)
      cores == vcpus \div threads
  IN SubSeq(eligible, Len(eligible) - cores + 1, Len(eligible))

CorePins(selected, threads) ==
  [n \in 1 .. (threads * Len(selected)) |->
     selected[((n - 1) \div threads) + 1][((n - 1) % threads) + 1]]

VmCpuLayout(host, vcpus) ==
  LET threads == Threads(host, vcpus)
      selected == LastCores(host, vcpus, threads)
      pins == CorePins(selected, threads)
      aligned == ApicPins(host, vcpus)
      Pinned(p, emulator) == [vcpus |-> vcpus, threads |-> threads, pins |-> p, emulator |-> emulator]
  IN CASE Len(Eligible(host, threads)) <= vcpus \div threads -> Pinned(<<>>, {})
       [] Len(Eligible(host, threads)) > vcpus \div threads /\ ApicAligned(host, vcpus, threads) ->
            Pinned(aligned, Online(host) \ Range(aligned))
       [] OTHER ->
            Pinned(IF Len(pins) = vcpus THEN pins ELSE <<>>,
                   UNION (Cores(host) \ {Range(g) : g \in Range(selected)}))

\* build_domain_xml: <topology>, and <cputune> when the pins are complete.
BuildCpus(r) ==
  LET threads == IF r.vcpus % r.threads = 0 THEN r.threads ELSE 1
      pinned == Len(r.pins) = r.vcpus /\ r.emulator # {}
  IN [cores |-> r.vcpus \div threads, threads |-> threads,
      pins |-> IF pinned THEN r.pins ELSE <<>>, emulator |-> IF pinned THEN r.emulator ELSE {}]

-----------------------------------------------------------------------------
AllCpus == UNION {Online(h) : h \in Topologies}

CpusTypeOK ==
  /\ {topology, measured} \subseteq Topologies
  /\ resources.vcpus \in 1 .. MaxVcpus /\ resources.threads \in 1 .. 2
  /\ resources.pins \in Seq(AllCpus) /\ resources.emulator \subseteq AllCpus
  /\ cpus.cores \in 1 .. MaxVcpus /\ cpus.threads \in 1 .. 2
  /\ cpus.pins \in Seq(AllCpus) /\ cpus.emulator \subseteq AllCpus

\* create_wizard: from two to all but one core's CPUs, even on an SMT host.
Creatable(host) ==
  {n \in 2 .. MaxVcpus : /\ n <= Max({2, Cardinality(Online(host)) - HostThreads(host)})
                         /\ HostThreads(host) >= 2 => n % 2 = 0}

CpusInit ==
  /\ topology \in Topologies /\ measured = topology
  /\ \E n \in Creatable(topology) : resources = VmCpuLayout(topology, n)
  /\ cpus = BuildCpus(resources)

ConfigureCpuLayout(vcpus) ==   \* refused when no whole core is left
  LET layout == VmCpuLayout(topology, vcpus) IN
  /\ layout.pins # <<>> /\ layout.emulator # {}
  /\ resources' = layout /\ cpus' = BuildCpus(layout)
  /\ measured' = topology
  /\ UNCHANGED topology

RebuildCpus ==   \* any command that builds the definition from the profile
  /\ cpus' = BuildCpus(resources)
  /\ UNCHANGED <<topology, resources, measured>>

RebootCpus ==   \* SMT or cores switched off, another CPU
  /\ topology' \in Topologies
  /\ UNCHANGED <<resources, cpus, measured>>

CpusNext ==
  \/ \E vcpus \in 1 .. MaxVcpus : ConfigureCpuLayout(vcpus)
  \/ RebuildCpus \/ RebootCpus

CpusSpec == CpusInit /\ [][CpusNext]_cpuVars

-----------------------------------------------------------------------------
\* Pins are complete or absent, and as the guest believes: each vCPU on a CPU of its
\* own, the vCPUs of one guest core on one host core, each guest core on another, and
\* every CPU of the emulator on a core that no vCPU uses, at least one of them.  On the
\* host they were computed for.  (The exception: a single vCPU on an SMT host of AMD
\* shares its core with the emulator.)
PinsAreWholeCores ==
  /\ cpus.cores * cpus.threads = resources.vcpus
  /\ cpus.pins # <<>> =>
       LET core == [n \in DOMAIN cpus.pins |->
                      CHOOSE c \in Cores(measured) : cpus.pins[n] \in c] IN
       /\ Len(cpus.pins) = resources.vcpus
       /\ \A m, n \in DOMAIN cpus.pins :
            /\ m # n => cpus.pins[m] # cpus.pins[n]
            /\ ((m - 1) \div cpus.threads = (n - 1) \div cpus.threads) = (core[m] = core[n])
       /\ cpus.emulator # {}
       /\ Len(cpus.pins) > 1 => \A n \in DOMAIN cpus.pins : core[n] \cap cpus.emulator = {}
=============================================================================
