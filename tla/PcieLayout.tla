------------------------------ MODULE PcieLayout ------------------------------
(***************************************************************************)
(* Which host PCI functions the guest gets and where they appear: the      *)
(* selection of cli.py checks them against the host as it is now,          *)
(* build_domain_xml (xmlgen.py) lays them out by the inventory that the    *)
(* profile took when the VM was created.                                   *)
(*                                                                         *)
(* Intel's vIOMMU gives every guest PCIe function an address space of its  *)
(* own, VFIO opens a host IOMMU group in one only: a group must stay on    *)
(* one bus, several of its functions on a conventional one.                *)
(***************************************************************************)
EXTENDS Selection

\* An inventory lists the functions as lspci does.  class and sub: the two bytes of the
\* class code, group: the IOMMU group, 0 for none.
CONSTANT Hosts   \* the inventories this host may show, boot after boot

Device == [slot : Nat, fn : 0 .. 7, class : Nat, sub : Nat, group : Nat]

\* lspci lists a function once.
ASSUME HostsAssumption ==
  \A h \in Hosts :
    /\ h \in Seq(Device)
    /\ \A i, j \in DOMAIN h : <<h[i].slot, h[i].fn>> = <<h[j].slot, h[j].fn>> => i = j

VARIABLES live,        \* what lspci shows in this boot
          inventory,   \* host.pci in the profile
          passthrough, \* gpu_pci, gpu_guest_pci and pci in the profile
          shown,       \* the stage shows: "nothing" or passthrough devices in "setup", "final"
          layout,      \* guest addresses in libvirt's definition
          seen         \* history: the inventory the selection was made from

pcieVars == <<live, inventory, passthrough, shown, layout, seen>>

FunctionsOf(host) == Range(host)
Address(d) == <<d.slot, d.fn>>
Slot(a) == a[1]
Function(a) == a[2]
Addresses(host, devices) ==   \* in the order of the inventory
  LET chosen == Only(host, devices)
  IN [i \in DOMAIN chosen |-> Address(chosen[i])]

-----------------------------------------------------------------------------
(* The selection *)

\* _validate_iommu_isolation
Isolated(devices, host) ==
  \A d \in devices : d.group # 0 /\ \A e \in FunctionsOf(host) : e.group = d.group => e \in devices

\* gpu_groups: VGA and 3D controllers; other displays make no GPU.
GpuSlots(host) == {d.slot : d \in {e \in FunctionsOf(host) : e.class = 3 /\ e.sub \in {0, 2}}}
Gpu(host, slot) == {d \in FunctionsOf(host) : d.slot = slot}   \* _select_gpu: the whole slot

\* _select_gpu_guest_functions: the display, and the audio when asked for.
GuestFunctions(gpu, audio) == {d \in gpu : d.class = 3 \/ (audio /\ d.class = 4)}

Selectable(gpu, host) == {d \in FunctionsOf(host) \ gpu : d.class \notin {3, 5, 6, 8}}

None == [gpu |-> <<>>, guest |-> <<>>, pci |-> <<>>]

-----------------------------------------------------------------------------
(* _passthrough_pcie_layout *)

\* Mutant of Key: devices are kept together by slot.
KeyBySlot(a, host) == <<"slot", Slot(a)>>

\* _passthrough_group_key
Key(a, host) ==
  IF \E d \in FunctionsOf(host) : Address(d) = a /\ d.group # 0
    THEN <<"iommu", (CHOOSE d \in FunctionsOf(host) : Address(d) = a).group>>
    ELSE <<"slot", Slot(a)>>

\* The position of x among the distinct elements of seq, counted as they first appear.
Ordinal(x, seq) ==
  LET first == Min({i \in DOMAIN seq : seq[i] = x})
  IN Cardinality({seq[i] : i \in 1 .. first})

Members(key, pci, host) == Only(pci, {a \in Range(pci) : Key(a, host) = key})

\* A GPU on its own slot keeps its root port; other groups of several share a bridge.
Conventional(members, isGpu) ==
  Len(members) > 1 /\ ~(isGpu /\ Cardinality({Slot(a) : a \in Range(members)}) = 1)

\* Root ports fill the root bus from slot 3, slot 2 is the integrated graphics'.
RootAddress(n) == <<3 + ((n - 1) \div 8), (n - 1) % 8>>
RootPorts == Cardinality((3 .. 30) \X (0 .. 7))

\* Mutant of GuestFunction: the host's function number is kept.
GuestFunctionKept(a, together) == Function(a)

\* A function that comes alone is function 0 in its own guest slot.
GuestFunction(a, together) == IF Cardinality(together) > 1 THEN Function(a) ELSE 0

Layout(pci, host, nativeKeys) ==
  LET keys == [i \in DOMAIN pci |-> Key(pci[i], host)]
      shared == {k \in Range(keys) : Conventional(Members(k, pci, host), k \in nativeKeys)}
      ports == Cardinality(Range(keys))
      Bus(k) == IF k \in shared
                  THEN ports + Cardinality({j \in shared : Ordinal(j, keys) <= Ordinal(k, keys)})
                  ELSE Ordinal(k, keys)
      Guest(a) ==
        LET k == Key(a, host)
            members == Members(k, pci, host)
            slots == [i \in DOMAIN members |-> Slot(members[i])]
            together == {b \in Range(members) : Slot(b) = Slot(a)}
        IN [bus |-> Bus(k), fn |-> GuestFunction(a, together),
            slot |-> Ordinal(Slot(a), slots) - (IF k \in shared THEN 0 ELSE 1),
            multi |-> Cardinality(together) > 1 /\ Function(a) = 0]
  IN [ports |-> [n \in 1 .. ports |-> RootAddress(n)],
      bridges |-> {Bus(k) : k \in shared},
      guest |-> [a \in Range(pci) |-> Guest(a)]]

\* _single_gpu_guest_functions: what was selected, and the displays by the inventory.
Exposed(p, host) ==
  LET displays == {a \in Range(p.gpu) :
                     \E d \in FunctionsOf(host) : Address(d) = a /\ d.class = 3}
  IN Range(p.guest) \cup (IF displays = {} THEN {Head(p.gpu)} ELSE displays)

\* build_domain_xml: what the stage shows, and the GPU's own multifunction bit, kept
\* also when its other functions are not exposed.
DomainLayout(p, host, stage) ==
  LET gpu == Range(p.gpu)
      exposed == IF gpu = {} THEN {} ELSE Exposed(p, host)
      active == IF stage = "nothing" \/ (stage = "setup" /\ gpu = {}) THEN <<>>
                ELSE Only(p.pci, {a \in Range(p.pci) : a \in gpu => a \in exposed})
      plain == Layout(active, host, {Key(a, host) : a \in exposed})
      leads == {a \in Range(active) \cap gpu :
                  Function(a) = 0 /\ \E b \in gpu : Slot(b) = Slot(a) /\ Function(b) # 0}
      Announced(a) == [plain.guest[a] EXCEPT !.multi = plain.guest[a].multi \/ a \in leads]
  IN [plain EXCEPT !.guest = [a \in Range(active) |-> Announced(a)]]

-----------------------------------------------------------------------------
Passthroughs ==
  LET All(h) == {Address(d) : d \in FunctionsOf(h)}
  IN [gpu : UNION {Seq(All(h)) : h \in Hosts}, guest : UNION {Seq(All(h)) : h \in Hosts},
      pci : UNION {Seq(All(h)) : h \in Hosts}]

PcieTypeOK ==
  /\ {live, inventory, seen} \subseteq Hosts
  /\ passthrough \in Passthroughs
  /\ shown \in {"nothing", "setup", "final"}
  /\ layout.guest \in [DOMAIN layout.guest -> [bus : Nat, slot : 0 .. 31, fn : 0 .. 7, multi : BOOLEAN]]
  /\ DOMAIN layout.guest \subseteq Range(passthrough.pci)

PcieInit ==   \* new_profile and the installed guest
  /\ live \in Hosts /\ inventory = live /\ seen = live
  /\ passthrough = None /\ shown = "nothing"
  /\ layout = DomainLayout(None, live, "nothing")

\* Refused when the root bus has no address left, or a group has more slots than a bus.
Fits(new) ==
  /\ Len(new.ports) <= RootPorts
  /\ \A a \in DOMAIN new.guest : new.guest[a].slot <= 31

Show(p, stage) ==
  /\ Fits(DomainLayout(p, inventory, stage))
  /\ passthrough' = p /\ shown' = stage
  /\ layout' = DomainLayout(p, inventory, stage)
  /\ UNCHANGED <<live, inventory>>

\* one_click_passthrough; without a GPU there is no maintenance stage.
SelectPassthrough(gpu, audio, extra, stage) ==
  /\ gpu # {} => Isolated(gpu, live)
  /\ extra # {} => Isolated(extra, live)
  /\ gpu = {} => stage = "final"
  /\ Show([gpu |-> Addresses(live, gpu), guest |-> Addresses(live, GuestFunctions(gpu, audio)),
           pci |-> Addresses(live, gpu) \o Addresses(live, extra)], stage)
  /\ seen' = live

LeaveStage == Show(passthrough, "nothing") /\ UNCHANGED seen   \* install or devirtualized

ShowAll == Show(passthrough, "final") /\ UNCHANGED seen

\* Mutant of DropDevices: the definition keeps the devices that the profile gave up.
DropDevicesFromProfile ==
  /\ passthrough' = None /\ shown' = "nothing"
  /\ UNCHANGED <<live, inventory, layout, seen>>

DropDevices == Show(None, "nothing") /\ UNCHANGED seen

ChangeHost ==   \* the IOMMU switched on or off, a card moved or added
  /\ live' \in Hosts
  /\ UNCHANGED <<inventory, passthrough, shown, layout, seen>>

PcieNext ==
  \/ \E gpu \in {{}} \cup {Gpu(live, s) : s \in GpuSlots(live)}, audio \in BOOLEAN :
       \E extra \in SUBSET Selectable(gpu, live), stage \in {"setup", "final"} :
         SelectPassthrough(gpu, audio, extra, stage)
  \/ LeaveStage \/ ShowAll \/ DropDevices \/ ChangeHost

PcieSpec == PcieInit /\ [][PcieNext]_pcieVars

-----------------------------------------------------------------------------
\* The layout was made from the host as it is.  An inventory older than the last change
\* of the host is never refreshed: the layout may then split a group.
UpToDate == inventory = live /\ seen = live

GroupOf(a) == {d \in FunctionsOf(live) : d.group = (CHOOSE e \in FunctionsOf(live) : Address(e) = a).group}

\* VFIO can open what the guest gets: two functions share a guest bus exactly when they
\* share a host group, one of several slots is behind a bridge, no two functions have
\* one guest address, and no member of such a group stays with the host, except those of
\* the GPU that the hooks unbind.
GroupsKeptWhole ==
  UpToDate =>
    \A a \in DOMAIN layout.guest :
      LET g == layout.guest[a]
          group == {Address(d) : d \in GroupOf(a)} IN
      /\ group \subseteq Range(passthrough.pci)
      /\ \A b \in DOMAIN layout.guest \ {a} :
           LET h == layout.guest[b] IN
           /\ (b \in group) = (g.bus = h.bus)
           /\ <<g.bus, g.slot, g.fn>> # <<h.bus, h.slot, h.fn>>
           /\ b \in group /\ Slot(a) # Slot(b) => g.bus \in layout.bridges

\* A guest slot is found by probing its function 0 (xmlgen.py 434-438): whatever is
\* exposed, each slot has one, and it announces the others.  (The exception: two or
\* more functions of a slot whose function 0 is in another group keep their numbers.)
FunctionZeroLeads ==
  \A a \in DOMAIN layout.guest :
    LET g == layout.guest[a]
        sharing == {b \in DOMAIN layout.guest :
                      layout.guest[b].bus = g.bus /\ layout.guest[b].slot = g.slot}
        leaders == {b \in sharing : layout.guest[b].fn = 0} IN
    sharing = {a} \/ (\E b \in sharing : Function(b) = 0) =>
      /\ leaders # {}
      /\ Cardinality(sharing) > 1 => \A b \in leaders : layout.guest[b].multi
=============================================================================
