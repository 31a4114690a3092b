---------------------------- MODULE MCMaintenance ----------------------------
(***************************************************************************)
(* Small hosts, menus and packages for Maintenance.                        *)
(***************************************************************************)
EXTENDS Maintenance

MCPackages == {"kernel", "qemu", "driver"}
MCPreinstalled == {"kernel", "qemu"}

MCKeys == {"k1", "k2"}
MCKernels == {"v1", "v2"}

\* The menus' answers: nothing, DMA protection under Secure Boot, and nested Hyper-V
\* beside a vIOMMU with interrupt remapping.
Answer(boot, protection, vbs, nested, iommu, remapping) ==
  [secureBoot |-> boot, dma |-> protection, isolation |-> vbs,
   hyperv |-> nested, vtd |-> iommu, intremap |-> remapping]
MCOffered == {Answer(FALSE, FALSE, FALSE, FALSE, FALSE, FALSE),
              Answer(TRUE, TRUE, FALSE, FALSE, FALSE, FALSE),
              Answer(TRUE, FALSE, TRUE, TRUE, TRUE, TRUE)}

\* A desktop: a graphics card with audio, one group of two slots, one slot of two
\* groups; the same with the IOMMU off; a card that shares its group; and a 3D
\* controller with a display of its own (0380) beside another one that is no GPU.
Display(slot, fn, sub, group) ==
  [slot |-> slot, fn |-> fn, class |-> 3, sub |-> sub, group |-> group]
Entry(slot, fn, class, group) == [Display(slot, fn, 0, group) EXCEPT !.class = class]
Desktop == <<Entry(1, 0, 3, 1), Entry(1, 1, 4, 1), Entry(2, 0, 2, 4), Entry(3, 0, 1, 4),
             Entry(4, 3, 12, 2), Entry(4, 4, 12, 3)>>
NoIommu == [i \in DOMAIN Desktop |-> [Desktop[i] EXCEPT !.group = 0]]
Grouped == <<Entry(1, 0, 3, 1), Entry(1, 1, 4, 1), Entry(2, 0, 2, 1), Entry(4, 0, 11, 2),
             Entry(4, 3, 12, 3), Entry(4, 4, 12, 3), Entry(5, 0, 1, 4), Entry(5, 1, 4, 4),
             Entry(6, 0, 2, 4)>>
Laptop == <<Display(0, 2, 128, 1), Display(1, 0, 2, 2), Display(1, 1, 128, 2), Entry(1, 2, 4, 2),
            Entry(2, 0, 2, 3)>>
MCHosts == {Desktop, NoIommu, Grouped, Laptop}

\* Four SMT cores of either vendor, a hybrid, a CPU without SMT, and one with cores
\* switched off.
Cpu(vendor, groups, apic) ==
  [vendor |-> vendor, groups |-> groups,
   apic |-> Restrict(apic, UNION {Range(g) : g \in Range(groups)})]
Smt == <<<<0, 4>>, <<1, 5>>, <<2, 6>>, <<3, 7>>>>
Hybrid == <<<<0, 1>>, <<2, 3>>, <<4>>, <<5>>>>
Plain == <<<<0>>, <<1>>, <<2>>, <<3>>>>
Partial == <<<<0, 4>>, <<2>>, <<3, 7>>>>
Straight == [c \in 0 .. 7 |-> c]
Interleaved == [c \in 0 .. 7 |-> IF c < 4 THEN 2 * c ELSE 2 * c - 7]
MCTopologies == {Cpu("intel", Smt, Straight), Cpu("amd", Smt, Interleaved),
                 Cpu("intel", Hybrid, Straight), Cpu("amd", Plain, Straight),
                 Cpu("amd", Partial, Interleaved)}

MCOwnArgs == {"quiet", "other vendor's iommu", "other lsm"}
=============================================================================
