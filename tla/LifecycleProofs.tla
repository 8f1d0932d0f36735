-------------------------- MODULE LifecycleProofs ---------------------------
(***************************************************************************)
(* Proofs about Lifecycle, for any number of devices, threads, engines and *)
(* refused requests: probe, remove and error recovery of several devices   *)
(* in any interleaving keep the books of what is held right.               *)
(***************************************************************************)
EXTENDS Lifecycle, TLAPS, FiniteSetTheorems, SequenceTheorems,
        FunctionTheorems

-----------------------------------------------------------------------------
(* The inductive invariant: what a device holds at each label.             *)

\* The device is set up and has not been torn down: handlers may be registered.
UpAt == {"nodes", "fail", "bound", "frozen", "prepared", "free", "c_irq"}
\* Its character devices may exist.
CdevAt == UpAt \ {"c_irq"}
\* pci_enable_msi() has been called and not undone.
VectorsAt == UpAt \cup {"irq", "err_msix", "c_msi"}
\* Engines may be there; they are counted as held from EnginesDone on.
EnginesAt == VectorsAt \cup {"msi", "err_engines", "c_engines"}
BarsAt == EnginesAt \cup {"mask", "engines", "err_mask", "c_bars"}
RegionsAt == BarsAt \cup {"bars", "err_map", "c_regions"}
ClosingAt == {"free", "c_irq", "c_msi", "c_engines", "c_bars", "c_regions", "c_disable"}
EnabledAt == (RegionsAt \cup {"regions", "err_regions"}) \ (ClosingAt \cup {"frozen"})
UnlistedAt == {"absent", "list"}

HeldInv(d) ==
  /\ "regions" \in held[d] <=> pc[d] \in RegionsAt
  /\ "bars" \in held[d] <=> pc[d] \in BarsAt
  /\ "engines" \in held[d] <=> pc[d] \in EnginesAt
  /\ "vectors" \in held[d] <=> pc[d] \in VectorsAt /\ kind[d] # "legacy"
  /\ pc[d] \in EnabledAt => "enable" \in held[d]
  /\ pc[d] \in ClosingAt => "enable" \in held[d] \/ "reset" \in blame[d]
  /\ pc[d] \in {"absent", "err_enable"} => ("enable" \in held[d] <=> inUse[d])
  /\ pc[d] \in {"list", "enable", "frozen", "c_list"} => "enable" \notin held[d]
  /\ inUse[d] => pc[d] \in {"absent", "err_regions", "err_enable"}

\* The handlers are those irq_setup() registers, none while the device is
\* offline, and possibly fewer after a reset that did not set them up again.
IrqInv(d) ==
  /\ pc[d] \in UpAt => irqLine[d]
  /\ pc[d] \in {"nodes", "fail"} => handlers[d] = IrqAll(d)
  /\ pc[d] \in {"bound", "free", "c_irq"} =>
       \/ handlers[d] = IrqAll(d) /\ "enable" \in held[d]
       \/ "reset" \in blame[d] /\ handlers[d] = {}
       \/ "reset" \in blame[d] /\ kind[d] = "msix" /\ "enable" \in held[d]
  /\ pc[d] \in {"frozen", "prepared"} => handlers[d] = {}
  /\ pc[d] \notin UpAt => handlers[d] = {} \/ "irq" \in blame[d]

\* The character devices are those of the flags, and the region is there when
\* major is set; a creation that failed and is forgiven created nothing.
CdevInv(d) ==
  /\ pc[d] \notin UpAt \cup CloseLabels => flags[d] = {} /\ ~major[d]
  /\ "cdev" \notin blame[d] =>
       /\ pc[d] \in CdevAt => /\ nodes[d] = flags[d] /\ (region[d] <=> major[d])
                              /\ ~major[d] => flags[d] = {}
       /\ pc[d] \notin CdevAt => nodes[d] = {} /\ ~region[d]
       /\ pc[d] = "fail" => ~major[d]

TwiceInv(d) == blame[d] = {} => twice[d] = {}

EngsInv(d) ==
  /\ pc[d] \notin EnginesAt \cup {"engines"} => engs[d] = <<>>
  /\ Len(engs[d]) <= MaxChannels
  /\ scanAt[d] # 0 => /\ pc[d] = "engines" /\ pollMode /\ Len(engs[d]) < MaxChannels
                      /\ pick[d] \in 1..MaxThreads

ModInv(d) == pc[d] # "absent" => mod \in {"loaded", "unload"}

DevInv(d) ==
  HeldInv(d) /\ IrqInv(d) /\ CdevInv(d) /\ TwiceInv(d) /\ EngsInv(d) /\ ModInv(d)

\* The devices in the list are those past xdev_list_add(), in the order of their
\* indices.
ListInv ==
  /\ \A d \in Dev : pc[d] \notin UnlistedAt <=> \E k \in 1..Len(list) : list[k] = d
  /\ \A j, k \in 1..Len(list) : j < k => idx[list[j]] < idx[list[k]]

\* The threads, and without polling none.
On(t, d) == {i \in 1..Len(engs[d]) : engs[d][i] = t}
Work(t) == {w \in Dev \X (1..MaxChannels) : w[2] \in On(t, w[1])}
PoolInv ==
  /\ pool = IF pollMode /\ list # <<>> THEN MaxThreads ELSE 0
  /\ \A d \in Dev : \A i \in 1..Len(engs[d]) :
       IF pollMode THEN engs[d][i] \in 1..MaxThreads ELSE engs[d][i] = 0
  /\ \A t \in 1..MaxThreads : load[t] = Cardinality(Work(t))

LifeInv ==
  /\ mod # "absent" => class /\ cache
  /\ \A d \in Dev : DevInv(d)
  /\ ListInv
  /\ PoolInv

-----------------------------------------------------------------------------
(* The steps of a device: what they change is of the right type, and of no *)
(* other device.                                                           *)

Resources == {"enable", "regions", "bars", "engines", "vectors"}
ExtraBars == {"user", "bypass"}
KindSet == {"none", "msix", "msi", "legacy"}
HandlerSet == {"chan", "user", "dev"}
BlameSet == {"irq", "cdev", "reset"}
TwiceSet == {"enable", "handlers", "nodes", "region"}

\* g is f but for what it says of device d, which is in T.
Put(f, g, d, T) == g \in [Dev -> T] /\ \A e \in Dev : e # d => g[e] = f[e]

DevStep(d) ==
  /\ Put(pc, pc', d, Labels)
  /\ Put(held, held', d, SUBSET Resources)
  /\ Put(inUse, inUse', d, BOOLEAN)
  /\ Put(extra, extra', d, SUBSET ExtraBars)
  /\ Put(kind, kind', d, KindSet)
  /\ Put(irqLine, irqLine', d, BOOLEAN)
  /\ Put(handlers, handlers', d, SUBSET HandlerSet)
  /\ Put(blame, blame', d, SUBSET BlameSet)
  /\ Put(major, major', d, BOOLEAN)
  /\ Put(region, region', d, BOOLEAN)
  /\ Put(flags, flags', d, SUBSET GroupSet)
  /\ Put(nodes, nodes', d, SUBSET GroupSet)
  /\ Put(twice, twice', d, SUBSET TwiceSet)

LEMMA PutSame ==
  ASSUME NEW T, NEW f \in [Dev -> T], NEW d
  PROVE  Put(f, f, d, T)
BY DEF Put

LEMMA PutExcept ==
  ASSUME NEW T, NEW f \in [Dev -> T], NEW d \in Dev, NEW x \in T
  PROVE  Put(f, [f EXCEPT ![d] = x], d, T)
BY DEF Put

LEMMA Types ==
  ASSUME TypeOK
  PROVE
    /\ pc \in [Dev -> Labels]
    /\ held \in [Dev -> SUBSET Resources]
    /\ inUse \in [Dev -> BOOLEAN]
    /\ extra \in [Dev -> SUBSET ExtraBars]
    /\ kind \in [Dev -> KindSet]
    /\ irqLine \in [Dev -> BOOLEAN]
    /\ handlers \in [Dev -> SUBSET HandlerSet]
    /\ blame \in [Dev -> SUBSET BlameSet]
    /\ major \in [Dev -> BOOLEAN]
    /\ region \in [Dev -> BOOLEAN]
    /\ flags \in [Dev -> SUBSET GroupSet]
    /\ nodes \in [Dev -> SUBSET GroupSet]
    /\ twice \in [Dev -> SUBSET TwiceSet]
BY DEF TypeOK, Resources, ExtraBars, KindSet, HandlerSet, BlameSet, TwiceSet

LEMMA GroupType == \A i \in 1..6 : Groups[i] \in GroupSet
BY DEF GroupSet

LEMMA PcPut ==
  ASSUME TypeOK, NEW d \in Dev,
         UNCHANGED pc \/ \E l \in Labels : Goto(d, l)
  PROVE  Put(pc, pc', d, Labels)
<1>1. pc \in [Dev -> Labels]
  BY Types
<1> QED
  BY <1>1 DEF Put, Goto

LEMMA HeldPut ==
  ASSUME TypeOK, NEW d \in Dev,
         UNCHANGED held \/ \E r \in Resources : Hold(d, r) \/ Drop(d, r)
  PROVE  Put(held, held', d, SUBSET Resources)
<1>1. held \in [Dev -> SUBSET Resources]
  BY Types
<1> QED
  BY <1>1 DEF Put, Hold, Drop

LEMMA InUsePut ==
  ASSUME TypeOK, NEW d \in Dev,
         UNCHANGED inUse \/ \E x \in BOOLEAN : inUse' = [inUse EXCEPT ![d] = x]
  PROVE  Put(inUse, inUse', d, BOOLEAN)
<1>1. inUse \in [Dev -> BOOLEAN]
  BY Types
<1> QED
  BY <1>1 DEF Put

LEMMA ExtraPut ==
  ASSUME TypeOK, NEW d \in Dev,
         UNCHANGED extra \/ \E x \in SUBSET ExtraBars : extra' = [extra EXCEPT
         ![d] = x]
  PROVE  Put(extra, extra', d, SUBSET ExtraBars)
<1>1. extra \in [Dev -> SUBSET ExtraBars]
  BY Types
<1> QED
  BY <1>1 DEF Put

LEMMA KindPut ==
  ASSUME TypeOK, NEW d \in Dev,
         UNCHANGED kind \/ \E x \in KindSet : kind' = [kind EXCEPT ![d] = x]
  PROVE  Put(kind, kind', d, KindSet)
<1>1. kind \in [Dev -> KindSet]
  BY Types
<1> QED
  BY <1>1 DEF Put

LEMMA IrqLinePut ==
  ASSUME TypeOK, NEW d \in Dev,
         UNCHANGED irqLine \/ \E x \in BOOLEAN : irqLine' = [irqLine EXCEPT ![d]
         = x]
  PROVE  Put(irqLine, irqLine', d, BOOLEAN)
<1>1. irqLine \in [Dev -> BOOLEAN]
  BY Types
<1> QED
  BY <1>1 DEF Put

LEMMA HandlersPut ==
  ASSUME TypeOK, NEW d \in Dev,
         UNCHANGED handlers \/ irq_teardown(d) \/ \E x \in SUBSET HandlerSet :
         handlers' = [handlers EXCEPT ![d] = x]
  PROVE  Put(handlers, handlers', d, SUBSET HandlerSet)
<1>1. handlers \in [Dev -> SUBSET HandlerSet]
  BY Types
<1> QED
  BY <1>1 DEF Put, irq_teardown

LEMMA BlamePut ==
  ASSUME TypeOK, NEW d \in Dev,
         UNCHANGED blame \/ \E w \in BlameSet : Blame(d, w)
  PROVE  Put(blame, blame', d, SUBSET BlameSet)
<1>1. blame \in [Dev -> SUBSET BlameSet]
  BY Types
<1> QED
  BY <1>1 DEF Put, Blame

LEMMA MajorPut ==
  ASSUME TypeOK, NEW d \in Dev,
         UNCHANGED major \/ \E x \in BOOLEAN : major' = [major EXCEPT ![d] = x]
  PROVE  Put(major, major', d, BOOLEAN)
<1>1. major \in [Dev -> BOOLEAN]
  BY Types
<1> QED
  BY <1>1 DEF Put

LEMMA RegionPut ==
  ASSUME TypeOK, NEW d \in Dev,
         UNCHANGED region \/ \E x \in BOOLEAN : region' = [region EXCEPT ![d] =
         x]
  PROVE  Put(region, region', d, BOOLEAN)
<1>1. region \in [Dev -> BOOLEAN]
  BY Types
<1> QED
  BY <1>1 DEF Put

LEMMA FlagsPut ==
  ASSUME TypeOK, NEW d \in Dev,
         UNCHANGED flags \/ flags' = [flags EXCEPT ![d] = {}] \/ \E i \in 1..6 :
         flags' = [flags EXCEPT ![d] = @ \cup {Groups[i]}]
  PROVE  Put(flags, flags', d, SUBSET GroupSet)
<1>1. flags \in [Dev -> SUBSET GroupSet]
  BY Types
<1> QED
  BY <1>1, GroupType DEF Put

LEMMA NodesPut ==
  ASSUME TypeOK, NEW d \in Dev,
         UNCHANGED nodes \/ nodes' = [nodes EXCEPT ![d] = @ \ flags[d]] \/ \E i
         \in 1..6 : nodes' = [nodes EXCEPT ![d] = @ \cup {Groups[i]}]
  PROVE  Put(nodes, nodes', d, SUBSET GroupSet)
<1>1. nodes \in [Dev -> SUBSET GroupSet]
  BY Types
<1>2. flags \in [Dev -> SUBSET GroupSet]
  BY Types
<1> QED
  BY <1>1, <1>2, GroupType DEF Put

LEMMA TwicePut ==
  ASSUME TypeOK, NEW d \in Dev,
         UNCHANGED twice \/ \E S \in SUBSET TwiceSet : Note(d, S)
  PROVE  Put(twice, twice', d, SUBSET TwiceSet)
<1>1. twice \in [Dev -> SUBSET TwiceSet]
  BY Types
<1> QED
  BY <1>1 DEF Put, Note

\* Probe, up to the character devices.
LEMMA OpenStep ==
  ASSUME TypeOK, NEW d \in Dev,
         probe_one(d) \/ ThreadsFail(d) \/ EnableDevice(d) \/ request_regions(d)
         \/ map_bars(d) \/ set_dma_mask(d) \/ EnginesDone(d) \/
         enable_msi_msix(d) \/ OpenIrq(d)
  PROVE  DevStep(d)
<1>1. Put(pc, pc', d, Labels)
  <2>1. UNCHANGED pc \/ \E l \in Labels : Goto(d, l)
    BY DEF probe_one, ThreadsFail, EnableDevice, request_regions, map_bars,
           set_dma_mask, EnginesDone, enable_msi_msix, OpenIrq, Labels,
           OpenLabels, ErrLabels, CloseLabels
  <2> QED
    BY <2>1, PcPut
<1>2. Put(held, held', d, SUBSET Resources)
  <2>1. UNCHANGED held \/ \E r \in Resources : Hold(d, r) \/ Drop(d, r)
    BY DEF probe_one, ThreadsFail, EnableDevice, request_regions, map_bars,
           set_dma_mask, EnginesDone, enable_msi_msix, OpenIrq, Resources,
           DisableDevice, pciVars
  <2> QED
    BY <2>1, HeldPut
<1>3. Put(inUse, inUse', d, BOOLEAN)
  <2>1. UNCHANGED inUse \/ \E x \in BOOLEAN : inUse' = [inUse EXCEPT ![d] = x]
    BY DEF probe_one, ThreadsFail, EnableDevice, request_regions, map_bars,
           set_dma_mask, EnginesDone, enable_msi_msix, OpenIrq, pciVars
  <2> QED
    BY <2>1, InUsePut
<1>4. Put(extra, extra', d, SUBSET ExtraBars)
  <2>1. UNCHANGED extra \/ \E x \in SUBSET ExtraBars : extra' = [extra EXCEPT
        ![d] = x]
    BY LifecycleAssumption DEF LifecycleAssumption, probe_one, ThreadsFail, EnableDevice,
           request_regions, map_bars, set_dma_mask, EnginesDone,
           enable_msi_msix, OpenIrq, ExtraBars, cdevVars
  <2> QED
    BY <2>1, ExtraPut
<1>5. Put(kind, kind', d, KindSet)
  <2>1. UNCHANGED kind \/ \E x \in KindSet : kind' = [kind EXCEPT ![d] = x]
    BY LifecycleAssumption DEF LifecycleAssumption, probe_one, ThreadsFail, EnableDevice,
           request_regions, map_bars, set_dma_mask, EnginesDone,
           enable_msi_msix, OpenIrq, KindSet, pciVars
  <2> QED
    BY <2>1, KindPut
<1>6. Put(irqLine, irqLine', d, BOOLEAN)
  <2>1. UNCHANGED irqLine \/ \E x \in BOOLEAN : irqLine' = [irqLine EXCEPT ![d]
        = x]
    BY DEF probe_one, ThreadsFail, EnableDevice, request_regions, map_bars,
           set_dma_mask, EnginesDone, enable_msi_msix, OpenIrq, irqVars,
           irq_setup, IrqSetupFails, xdma_device_online
  <2> QED
    BY <2>1, IrqLinePut
<1>7. Put(handlers, handlers', d, SUBSET HandlerSet)
  <2>1. UNCHANGED handlers \/ irq_teardown(d) \/ \E x \in SUBSET HandlerSet :
        handlers' = [handlers EXCEPT ![d] = x]
    BY DEF probe_one, ThreadsFail, EnableDevice, request_regions, map_bars,
           set_dma_mask, EnginesDone, enable_msi_msix, OpenIrq, irqVars,
           HandlerSet, irq_setup, IrqAll, IrqSetupFails, xdma_device_online
  <2> QED
    BY <2>1, HandlersPut
<1>8. Put(blame, blame', d, SUBSET BlameSet)
  <2>1. UNCHANGED blame \/ \E w \in BlameSet : Blame(d, w)
    BY DEF probe_one, ThreadsFail, EnableDevice, request_regions, map_bars,
           set_dma_mask, EnginesDone, enable_msi_msix, OpenIrq, BlameSet,
           IrqSetupFails, xdma_device_online, histVars
  <2> QED
    BY <2>1, BlamePut
<1>9. UNCHANGED <<major, region, flags, nodes, twice>>
  BY DEF probe_one, ThreadsFail, EnableDevice, request_regions, map_bars,
         set_dma_mask, EnginesDone, enable_msi_msix, OpenIrq, cdevVars, histVars
<1>10. /\ Put(major, major', d, BOOLEAN)
       /\ Put(region, region', d, BOOLEAN)
       /\ Put(flags, flags', d, SUBSET GroupSet)
       /\ Put(nodes, nodes', d, SUBSET GroupSet)
       /\ Put(twice, twice', d, SUBSET TwiceSet)
  BY <1>9, Types, PutSame
<1> QED
  BY <1>1, <1>2, <1>3, <1>4, <1>5, <1>6, <1>7, <1>8, <1>9, <1>10 DEF DevStep

\* The character devices.
LEMMA InterfacesStep ==
  ASSUME TypeOK, NEW d \in Dev,
         CreateGroup(d) \/ create_xcdev_fails(d) \/ ProbeDone(d) \/
         xpdev_destroy_interfaces(d)
  PROVE  DevStep(d)
<1>1. Put(pc, pc', d, Labels)
  <2>1. UNCHANGED pc \/ \E l \in Labels : Goto(d, l)
    BY DEF CreateGroup, create_xcdev_fails, ProbeDone, xpdev_destroy_interfaces,
           Labels, OpenLabels, ErrLabels, CloseLabels
  <2> QED
    BY <2>1, PcPut
<1>2. Put(blame, blame', d, SUBSET BlameSet)
  <2>1. UNCHANGED blame \/ \E w \in BlameSet : Blame(d, w)
    BY DEF CreateGroup, create_xcdev_fails, ProbeDone, xpdev_destroy_interfaces,
           BlameSet, IrqSetupFails, xdma_device_online, histVars
  <2> QED
    BY <2>1, BlamePut
<1>3. Put(major, major', d, BOOLEAN)
  <2>1. UNCHANGED major \/ \E x \in BOOLEAN : major' = [major EXCEPT ![d] = x]
    BY DEF CreateGroup, create_xcdev_fails, ProbeDone, xpdev_destroy_interfaces,
           cdevVars
  <2> QED
    BY <2>1, MajorPut
<1>4. Put(region, region', d, BOOLEAN)
  <2>1. UNCHANGED region \/ \E x \in BOOLEAN : region' = [region EXCEPT ![d] =
        x]
    BY DEF CreateGroup, create_xcdev_fails, ProbeDone, xpdev_destroy_interfaces,
           DestroyInterfaces, cdevVars
  <2> QED
    BY <2>1, RegionPut
<1>5. Put(flags, flags', d, SUBSET GroupSet)
  <2>1. UNCHANGED flags \/ flags' = [flags EXCEPT ![d] = {}] \/ \E i \in 1..6 :
        flags' = [flags EXCEPT ![d] = @ \cup {Groups[i]}]
    BY DEF CreateGroup, create_xcdev_fails, ProbeDone, xpdev_destroy_interfaces,
           Missing, cdevVars
  <2> QED
    BY <2>1, FlagsPut
<1>6. Put(nodes, nodes', d, SUBSET GroupSet)
  <2>1. UNCHANGED nodes \/ nodes' = [nodes EXCEPT ![d] = @ \ flags[d]] \/ \E i
        \in 1..6 : nodes' = [nodes EXCEPT ![d] = @ \cup {Groups[i]}]
    BY DEF CreateGroup, create_xcdev_fails, ProbeDone, xpdev_destroy_interfaces,
           Missing, DestroyInterfaces, cdevVars
  <2> QED
    BY <2>1, NodesPut
<1>7. Put(twice, twice', d, SUBSET TwiceSet)
  <2>1. UNCHANGED twice \/ \E S \in SUBSET TwiceSet : Note(d, S)
    BY DEF CreateGroup, create_xcdev_fails, ProbeDone, xpdev_destroy_interfaces,
           TwiceSet, DestroyInterfaces, DisableDevice, NotHeld, histVars
  <2> QED
    BY <2>1, TwicePut
<1>8. UNCHANGED <<held, inUse, extra, kind, irqLine, handlers>>
  BY DEF CreateGroup, create_xcdev_fails, ProbeDone, xpdev_destroy_interfaces,
         pciVars, irqVars, cdevVars
<1>9. /\ Put(held, held', d, SUBSET Resources)
      /\ Put(inUse, inUse', d, BOOLEAN)
      /\ Put(extra, extra', d, SUBSET ExtraBars)
      /\ Put(kind, kind', d, KindSet)
      /\ Put(irqLine, irqLine', d, BOOLEAN)
      /\ Put(handlers, handlers', d, SUBSET HandlerSet)
  BY <1>8, Types, PutSame
<1> QED
  BY <1>1, <1>2, <1>3, <1>4, <1>5, <1>6, <1>7, <1>8, <1>9 DEF DevStep

\* Removal and unwinding.
LEMMA CloseStep ==
  ASSUME TypeOK, NEW d \in Dev,
         remove_one(d) \/ CloseIrq(d) \/ disable_msi_msix(d) \/ unmap_bars(d) \/
         ReleaseRegions(d) \/ Disable(d)
  PROVE  DevStep(d)
<1>1. Put(pc, pc', d, Labels)
  <2>1. UNCHANGED pc \/ \E l \in Labels : Goto(d, l)
    BY DEF remove_one, CloseIrq, disable_msi_msix, unmap_bars, ReleaseRegions,
           Disable, Labels, OpenLabels, ErrLabels, CloseLabels
  <2> QED
    BY <2>1, PcPut
<1>2. Put(held, held', d, SUBSET Resources)
  <2>1. UNCHANGED held \/ \E r \in Resources : Hold(d, r) \/ Drop(d, r)
    BY DEF remove_one, CloseIrq, disable_msi_msix, unmap_bars, ReleaseRegions,
           Disable, Resources, DisableDevice, pciVars
  <2> QED
    BY <2>1, HeldPut
<1>3. Put(kind, kind', d, KindSet)
  <2>1. UNCHANGED kind \/ \E x \in KindSet : kind' = [kind EXCEPT ![d] = x]
    BY LifecycleAssumption DEF LifecycleAssumption, remove_one, CloseIrq, disable_msi_msix,
           unmap_bars, ReleaseRegions, Disable, KindSet, pciVars
  <2> QED
    BY <2>1, KindPut
<1>4. Put(handlers, handlers', d, SUBSET HandlerSet)
  <2>1. UNCHANGED handlers \/ irq_teardown(d) \/ \E x \in SUBSET HandlerSet :
        handlers' = [handlers EXCEPT ![d] = x]
    BY DEF remove_one, CloseIrq, disable_msi_msix, unmap_bars, ReleaseRegions,
           Disable, irqVars, HandlerSet, irq_setup, IrqAll, IrqSetupFails,
           xdma_device_online
  <2> QED
    BY <2>1, HandlersPut
<1>5. Put(blame, blame', d, SUBSET BlameSet)
  <2>1. UNCHANGED blame \/ \E w \in BlameSet : Blame(d, w)
    BY DEF remove_one, CloseIrq, disable_msi_msix, unmap_bars, ReleaseRegions,
           Disable, BlameSet, IrqSetupFails, xdma_device_online, histVars
  <2> QED
    BY <2>1, BlamePut
<1>6. Put(twice, twice', d, SUBSET TwiceSet)
  <2>1. UNCHANGED twice \/ \E S \in SUBSET TwiceSet : Note(d, S)
    BY DEF remove_one, CloseIrq, disable_msi_msix, unmap_bars, ReleaseRegions,
           Disable, TwiceSet, DestroyInterfaces, DisableDevice, NotHeld,
           histVars
  <2> QED
    BY <2>1, TwicePut
<1>7. UNCHANGED <<inUse, extra, irqLine, major, region, flags, nodes>>
  BY DEF remove_one, CloseIrq, disable_msi_msix, unmap_bars, ReleaseRegions,
         Disable, pciVars, irqVars, cdevVars
<1>8. /\ Put(inUse, inUse', d, BOOLEAN)
      /\ Put(extra, extra', d, SUBSET ExtraBars)
      /\ Put(irqLine, irqLine', d, BOOLEAN)
      /\ Put(major, major', d, BOOLEAN)
      /\ Put(region, region', d, BOOLEAN)
      /\ Put(flags, flags', d, SUBSET GroupSet)
      /\ Put(nodes, nodes', d, SUBSET GroupSet)
  BY <1>7, Types, PutSame
<1> QED
  BY <1>1, <1>2, <1>3, <1>4, <1>5, <1>6, <1>7, <1>8 DEF DevStep

\* Error recovery and reset.
LEMMA RecoveryStep ==
  ASSUME TypeOK, NEW d \in Dev,
         xdma_error_detected(d) \/ xdma_slot_reset(d) \/ xdma_reset_prepare(d)
         \/ xdma_reset_done(d)
  PROVE  DevStep(d)
<1>1. Put(pc, pc', d, Labels)
  <2>1. UNCHANGED pc \/ \E l \in Labels : Goto(d, l)
    BY DEF xdma_error_detected, xdma_slot_reset, xdma_reset_prepare,
           xdma_reset_done, Labels, OpenLabels, ErrLabels, CloseLabels
  <2> QED
    BY <2>1, PcPut
<1>2. Put(held, held', d, SUBSET Resources)
  <2>1. UNCHANGED held \/ \E r \in Resources : Hold(d, r) \/ Drop(d, r)
    BY DEF xdma_error_detected, xdma_slot_reset, xdma_reset_prepare,
           xdma_reset_done, Resources, DisableDevice, pciVars
  <2> QED
    BY <2>1, HeldPut
<1>3. Put(irqLine, irqLine', d, BOOLEAN)
  <2>1. UNCHANGED irqLine \/ \E x \in BOOLEAN : irqLine' = [irqLine EXCEPT ![d]
        = x]
    BY DEF xdma_error_detected, xdma_slot_reset, xdma_reset_prepare,
           xdma_reset_done, irqVars, irq_setup, IrqSetupFails,
           xdma_device_online
  <2> QED
    BY <2>1, IrqLinePut
<1>4. Put(handlers, handlers', d, SUBSET HandlerSet)
  <2>1. UNCHANGED handlers \/ irq_teardown(d) \/ \E x \in SUBSET HandlerSet :
        handlers' = [handlers EXCEPT ![d] = x]
    BY DEF xdma_error_detected, xdma_slot_reset, xdma_reset_prepare,
           xdma_reset_done, irqVars, HandlerSet, irq_setup, IrqAll,
           IrqSetupFails, xdma_device_online
  <2> QED
    BY <2>1, HandlersPut
<1>5. Put(blame, blame', d, SUBSET BlameSet)
  <2>1. UNCHANGED blame \/ \E w \in BlameSet : Blame(d, w)
    BY DEF xdma_error_detected, xdma_slot_reset, xdma_reset_prepare,
           xdma_reset_done, BlameSet, IrqSetupFails, xdma_device_online,
           histVars
  <2> QED
    BY <2>1, BlamePut
<1>6. Put(twice, twice', d, SUBSET TwiceSet)
  <2>1. UNCHANGED twice \/ \E S \in SUBSET TwiceSet : Note(d, S)
    BY DEF xdma_error_detected, xdma_slot_reset, xdma_reset_prepare,
           xdma_reset_done, TwiceSet, DestroyInterfaces, DisableDevice, NotHeld,
           histVars
  <2> QED
    BY <2>1, TwicePut
<1>7. UNCHANGED <<inUse, extra, kind, major, region, flags, nodes>>
  BY DEF xdma_error_detected, xdma_slot_reset, xdma_reset_prepare,
         xdma_reset_done, pciVars, cdevVars
<1>8. /\ Put(inUse, inUse', d, BOOLEAN)
      /\ Put(extra, extra', d, SUBSET ExtraBars)
      /\ Put(kind, kind', d, KindSet)
      /\ Put(major, major', d, BOOLEAN)
      /\ Put(region, region', d, BOOLEAN)
      /\ Put(flags, flags', d, SUBSET GroupSet)
      /\ Put(nodes, nodes', d, SUBSET GroupSet)
  BY <1>7, Types, PutSame
<1> QED
  BY <1>1, <1>2, <1>3, <1>4, <1>5, <1>6, <1>7, <1>8 DEF DevStep

\* Joining and leaving the list, engines that come and go.
LEMMA ListStep ==
  ASSUME TypeOK, NEW d \in Dev,
         xdev_list_add(d) \/ EngineFound(d) \/ remove_engines(d) \/
         xdev_list_remove(d)
  PROVE  DevStep(d)
<1>1. Put(pc, pc', d, Labels)
  <2>1. UNCHANGED pc \/ \E l \in Labels : Goto(d, l)
    BY DEF xdev_list_add, EngineFound, engine_init, ScanThread, xdma_thread_add_work,
       remove_engines, xdev_list_remove, Labels,
           OpenLabels, ErrLabels, CloseLabels
  <2> QED
    BY <2>1, PcPut
<1>2. Put(held, held', d, SUBSET Resources)
  <2>1. UNCHANGED held \/ \E r \in Resources : Hold(d, r) \/ Drop(d, r)
    BY DEF xdev_list_add, EngineFound, engine_init, ScanThread, xdma_thread_add_work,
       remove_engines, xdev_list_remove,
           Resources, DisableDevice, pciVars
  <2> QED
    BY <2>1, HeldPut
<1>3. Put(kind, kind', d, KindSet)
  <2>1. UNCHANGED kind \/ \E x \in KindSet : kind' = [kind EXCEPT ![d] = x]
    BY LifecycleAssumption DEF LifecycleAssumption, xdev_list_add, EngineFound, engine_init,
       ScanThread, xdma_thread_add_work, remove_engines,
           xdev_list_remove, KindSet, pciVars
  <2> QED
    BY <2>1, KindPut
<1>4. Put(irqLine, irqLine', d, BOOLEAN)
  <2>1. UNCHANGED irqLine \/ \E x \in BOOLEAN : irqLine' = [irqLine EXCEPT ![d]
        = x]
    BY DEF xdev_list_add, EngineFound, engine_init, ScanThread, xdma_thread_add_work,
       remove_engines, xdev_list_remove,
           irqVars, irq_setup, IrqSetupFails, xdma_device_online
  <2> QED
    BY <2>1, IrqLinePut
<1>5. Put(extra, extra', d, SUBSET ExtraBars)
  <2>1. UNCHANGED extra \/ \E x \in SUBSET ExtraBars : extra' = [extra EXCEPT
        ![d] = x]
    BY LifecycleAssumption DEF LifecycleAssumption, xdev_list_add, EngineFound, engine_init,
       ScanThread, xdma_thread_add_work, remove_engines,
           xdev_list_remove, ExtraBars, cdevVars
  <2> QED
    BY <2>1, ExtraPut
<1>6. Put(major, major', d, BOOLEAN)
  <2>1. UNCHANGED major \/ \E x \in BOOLEAN : major' = [major EXCEPT ![d] = x]
    BY DEF xdev_list_add, EngineFound, engine_init, ScanThread, xdma_thread_add_work,
       remove_engines, xdev_list_remove,
           cdevVars
  <2> QED
    BY <2>1, MajorPut
<1>7. Put(flags, flags', d, SUBSET GroupSet)
  <2>1. UNCHANGED flags \/ flags' = [flags EXCEPT ![d] = {}] \/ \E i \in 1..6 :
        flags' = [flags EXCEPT ![d] = @ \cup {Groups[i]}]
    BY DEF xdev_list_add, EngineFound, engine_init, ScanThread, xdma_thread_add_work,
       remove_engines, xdev_list_remove,
           Missing, cdevVars
  <2> QED
    BY <2>1, FlagsPut
<1>8. UNCHANGED <<inUse, handlers, blame, region, nodes, twice>>
  BY DEF xdev_list_add, EngineFound, engine_init, ScanThread, xdma_thread_add_work, remove_engines,
     xdev_list_remove, pciVars,
         irqVars, cdevVars, histVars
<1>9. /\ Put(inUse, inUse', d, BOOLEAN)
      /\ Put(handlers, handlers', d, SUBSET HandlerSet)
      /\ Put(blame, blame', d, SUBSET BlameSet)
      /\ Put(region, region', d, BOOLEAN)
      /\ Put(nodes, nodes', d, SUBSET GroupSet)
      /\ Put(twice, twice', d, SUBSET TwiceSet)
  BY <1>8, Types, PutSame
<1> QED
  BY <1>1, <1>2, <1>3, <1>4, <1>5, <1>6, <1>7, <1>8, <1>9 DEF DevStep

-----------------------------------------------------------------------------
(* Counting the engines of a thread.                                       *)

LEMMA WorkFinite ==
  ASSUME NEW t
  PROVE  /\ IsFiniteSet(Dev \X (1..MaxChannels))
         /\ IsFiniteSet(Work(t)) /\ Cardinality(Work(t)) \in Nat
<1>1. IsFiniteSet(1..MaxChannels)
  BY LifecycleAssumption, FS_Interval DEF LifecycleAssumption
<1>2. IsFiniteSet(Dev \X (1..MaxChannels))
  BY <1>1, LifecycleAssumption, FS_Product DEF LifecycleAssumption
<1>3. Work(t) \in SUBSET (Dev \X (1..MaxChannels))
  BY DEF Work
<1>4. IsFiniteSet(Work(t))
  BY <1>2, <1>3, FS_Subset
<1> QED
  BY <1>2, <1>4, FS_CardinalityType

\* The engines of d on t are as many as the pairs of d in Work(t).
LEMMA CountOn ==
  ASSUME NEW t, NEW d \in Dev, Len(engs[d]) \in Nat, Len(engs[d]) <= MaxChannels
  PROVE  Cardinality({w \in Work(t) : w[1] = d}) = Cardinality(On(t, d))
<1> DEFINE W == {w \in Work(t) : w[1] = d}
           f == [i \in On(t, d) |-> <<d, i>>]
<1>1. On(t, d) \subseteq 1..MaxChannels
  BY LifecycleAssumption DEF LifecycleAssumption, On
<1>2. \A i \in On(t, d) : <<d, i>> \in W
  BY <1>1 DEF Work
<1>3. f \in [On(t, d) -> W]
  BY <1>2
<1>4. \A a, b \in On(t, d) : f[a] = f[b] => a = b
  OBVIOUS
<1>5. \A w \in W : \E i \in On(t, d) : f[i] = w
  <2> SUFFICES ASSUME NEW w \in W
               PROVE  \E i \in On(t, d) : f[i] = w
    OBVIOUS
  <2>1. w \in Dev \X (1..MaxChannels) /\ w[2] \in On(t, w[1]) /\ w[1] = d
    BY DEF Work
  <2>2. w = <<d, w[2]>> /\ w[2] \in On(t, d)
    BY <2>1
  <2> QED
    BY <2>2
<1>6. f \in Bijection(On(t, d), W)
  <2> HIDE DEF f, W
  <2> QED
    BY <1>3, <1>4, <1>5, Fun_IsBij
<1>7. ExistsBijection(On(t, d), W)
  <2> HIDE DEF f, W
  <2> QED
    BY <1>6, Fun_ExistsBij
<1>8. IsFiniteSet(On(t, d))
  <2>1. IsFiniteSet(1..MaxChannels)
    BY LifecycleAssumption, FS_Interval DEF LifecycleAssumption
  <2> QED
    BY <1>1, <2>1, FS_Subset
<1> HIDE DEF f, W
<1>9. Cardinality(W) = Cardinality(On(t, d))
  BY <1>7, <1>8, FS_Bijection
<1> USE DEF W
<1> QED
  BY <1>9

-----------------------------------------------------------------------------
(* The pool of threads.                                                    *)

LEMMA SeqTypes ==
  ASSUME TypeOK
  PROVE  /\ list \in Seq(Dev) /\ Len(list) \in Nat /\ \A k \in 1..Len(list) : list[k] \in Dev
         /\ list = <<>> <=> Len(list) = 0
         /\ engs \in [Dev -> Seq(0..MaxThreads)]
         /\ idx \in [Dev -> 0..MaxIdx] /\ pool \in 0..MaxThreads /\ pollMode \in BOOLEAN
         /\ load \in [1..MaxThreads -> Nat]
<1>1. list \in Seq(Dev)
  BY DEF TypeOK
<1>2. Len(list) \in Nat /\ (list = <<>> <=> Len(list) = 0)
  BY <1>1, LenProperties, EmptySeq
<1>3. \A k \in 1..Len(list) : list[k] \in Dev
  BY <1>1, ElementOfSeq
<1> QED
  BY <1>1, <1>2, <1>3 DEF TypeOK

LEMMA EngsTypes ==
  ASSUME TypeOK, NEW d \in Dev
  PROVE  /\ engs[d] \in Seq(0..MaxThreads) /\ Len(engs[d]) \in Nat
         /\ \A i \in 1..Len(engs[d]) : engs[d][i] \in 0..MaxThreads
<1>1. engs[d] \in Seq(0..MaxThreads)
  BY SeqTypes
<1> QED
  BY <1>1, LenProperties, ElementOfSeq

LEMMA ScanTypes ==
  ASSUME TypeOK
  PROVE  /\ scanAt \in [Dev -> 0..(MaxThreads + 1)] /\ pick \in [Dev -> 0..MaxThreads]
         /\ first \in [Dev -> Nat] /\ raced \in [Dev -> SUBSET (1..MaxThreads)]
BY DEF TypeOK

LEMMA RaceType ==
  ASSUME TypeOK, NEW d \in Dev, NEW T \in SUBSET (1..MaxThreads)
  PROVE  Race(d, T) \in [Dev -> SUBSET (1..MaxThreads)]
BY ScanTypes DEF Race

\* A device past xdev_list_add() keeps the list, and with it the pool, alive.
LEMMA ListedPool ==
  ASSUME TypeOK, LifeInv, NEW d \in Dev, pc[d] \notin UnlistedAt
  PROVE  list # <<>> /\ (pollMode => pool = MaxThreads /\ pool \in Nat /\ pool > 0)
<1>1. PICK k \in 1..Len(list) : list[k] = d
  BY DEF LifeInv, ListInv
<1>2. list # <<>>
  BY <1>1, SeqTypes
<1> QED
  BY <1>2, LifecycleAssumption DEF LifecycleAssumption, LifeInv, PoolInv

LEMMA PoolKept ==
  ASSUME PoolInv, UNCHANGED <<engs, load, pool, pollMode>>, list' = <<>> <=> list = <<>>
  PROVE  PoolInv'
<1>1. \A t : Work(t)' = Work(t)
  BY DEF Work, On
<1> QED
  BY <1>1 DEF PoolInv

\* An engine of d comes to thread t, or to none in interrupt mode.
EngineTo(d, t) ==
  /\ pc[d] = "engines" /\ Len(engs[d]) < MaxChannels
  /\ t \in 0..MaxThreads /\ (IF pollMode THEN t \in 1..MaxThreads ELSE t = 0)
  /\ engs' = [engs EXCEPT ![d] = Append(@, t)]
  /\ load' = IF pollMode THEN [load EXCEPT ![t] = @ + 1] ELSE load
  /\ UNCHANGED <<pollMode, list, pool>>

LEMMA EngineFoundIs ==
  ASSUME TypeOK, LifeInv, NEW d \in Dev, EngineFound(d)
  PROVE  \/ \E t : EngineTo(d, t)
         \/ UNCHANGED <<engs, load, pollMode, list, pool>>
<1>1. MaxThreads \in Nat \ {0}
  BY LifecycleAssumption DEF LifecycleAssumption
<1>2. CASE engine_init(d) /\ pollMode
  BY <1>2 DEF engine_init, listVars, poolVars
<1>3. CASE engine_init(d) /\ ~pollMode
  <2>1. EngineTo(d, 0)
    BY <1>1, <1>3 DEF engine_init, EngineTo, listVars, poolVars
  <2> QED
    BY <2>1
<1>4. CASE ScanThread(d)
  BY <1>4 DEF ScanThread, listVars, poolVars
<1>5. CASE xdma_thread_add_work(d)
  <2>1. pc[d] = "engines" /\ scanAt[d] > pool
    BY <1>5 DEF xdma_thread_add_work
  <2>2. scanAt[d] # 0
    BY <2>1, SeqTypes
  <2>3. pollMode /\ Len(engs[d]) < MaxChannels /\ pick[d] \in 1..MaxThreads
    BY <2>2 DEF LifeInv, DevInv, EngsInv
  <2>4. EngineTo(d, pick[d])
    BY <1>1, <1>5, <2>1, <2>3 DEF xdma_thread_add_work, EngineTo, listVars
  <2> QED
    BY <2>4
<1> QED
  BY <1>2, <1>3, <1>4, <1>5 DEF EngineFound

LEMMA EngineComes ==
  ASSUME TypeOK, LifeInv, NEW d \in Dev, NEW t, EngineTo(d, t)
  PROVE  PoolInv' /\ Put(engs, engs', d, Seq(0..MaxThreads)) /\ Len(engs'[d]) <= MaxChannels
<1>0. /\ engs' = [engs EXCEPT ![d] = Append(@, t)]
      /\ load' = IF pollMode THEN [load EXCEPT ![t] = @ + 1] ELSE load
  BY DEF EngineTo
<1>1. /\ pc[d] = "engines" /\ Len(engs[d]) < MaxChannels /\ UNCHANGED <<pollMode, list, pool>>
  BY DEF EngineTo
<1>2. MaxThreads \in Nat \ {0} /\ MaxChannels \in Nat
  BY LifecycleAssumption DEF LifecycleAssumption
<1>3. t \in 0..MaxThreads /\ (IF pollMode THEN t \in 1..MaxThreads ELSE t = 0)
  BY DEF EngineTo
<1>4. PICK n \in Nat : n = Len(engs[d])
  BY EngsTypes
<1>5. engs'[d] = Append(engs[d], t) /\ \A e \in Dev : e # d => engs'[e] = engs[e]
  BY <1>0, SeqTypes
<1>6. /\ Append(engs[d], t) \in Seq(0..MaxThreads) /\ Len(engs'[d]) = n + 1
      /\ engs'[d][n + 1] = t /\ \A i \in 1..n : engs'[d][i] = engs[d][i]
  BY <1>3, <1>4, <1>5, EngsTypes, AppendProperties
<1>7. engs' \in [Dev -> Seq(0..MaxThreads)]
  BY <1>0, <1>6, SeqTypes
<1>8. n + 1 \in 1..MaxChannels /\ Len(engs'[d]) <= MaxChannels
  BY <1>1, <1>2, <1>4, <1>6
<1>9. ASSUME NEW u
      PROVE  /\ On(u, d)' = (IF u = t THEN On(u, d) \cup {n + 1} ELSE On(u, d))
             /\ \A e \in Dev : e # d => On(u, e)' = On(u, e)
  <2>1. \A i : i \in 1..(n + 1) <=> i \in 1..n \/ i = n + 1
    OBVIOUS
  <2>2. \A i : i \in On(u, d)' <=> (i \in On(u, d) \/ (i = n + 1 /\ u = t))
    BY <1>4, <1>6, <2>1 DEF On
  <2>3. \A e \in Dev : e # d => On(u, e)' = On(u, e)
    BY <1>5 DEF On
  <2> QED
    BY <2>2, <2>3
<1>10. ASSUME NEW u, u # t
       PROVE  Work(u)' = Work(u)
  <2>1. \A e \in Dev : On(u, e)' = On(u, e)
    BY <1>9, <1>10
  <2> QED
    BY <2>1 DEF Work
<1>11. Work(t)' = Work(t) \cup {<<d, n + 1>>}
  <2>1. ASSUME NEW w \in Dev \X (1..MaxChannels)
        PROVE  w[2] \in On(t, w[1])' <=> w[2] \in On(t, w[1]) \/ w = <<d, n + 1>>
    <3>1. CASE w[1] = d
      <4>1. w[2] \in On(t, d)' <=> w[2] \in On(t, d) \/ w[2] = n + 1
        BY <1>9
      <4>2. w = <<d, n + 1>> <=> w[2] = n + 1
        BY <3>1
      <4> QED
        BY <3>1, <4>1, <4>2
    <3>2. CASE w[1] # d
      <4>1. On(t, w[1])' = On(t, w[1])
        BY <1>9, <3>2
      <4>2. w # <<d, n + 1>>
        BY <3>2
      <4> QED
        BY <4>1, <4>2
    <3> QED
      BY <3>1, <3>2
  <2>2. <<d, n + 1>> \in Dev \X (1..MaxChannels)
    BY <1>8
  <2> QED
    BY <2>1, <2>2 DEF Work
<1>12. Cardinality(Work(t)') = Cardinality(Work(t)) + 1
  <2>1. <<d, n + 1>> \notin Work(t)
    BY <1>4 DEF Work, On
  <2> QED
    BY <1>11, <2>1, WorkFinite, FS_AddElement
<1>13. ASSUME NEW u \in 1..MaxThreads
       PROVE  load'[u] = Cardinality(Work(u)')
  <2>1. load[u] = Cardinality(Work(u))
    BY DEF LifeInv, PoolInv
  <2>2. CASE pollMode /\ u = t
    BY <1>0, <1>12, <2>1, <2>2, SeqTypes
  <2>3. CASE ~(pollMode /\ u = t)
    <3>1. u # t
      BY <1>3, <2>3
    <3>2. load'[u] = load[u]
      BY <1>0, <3>1, SeqTypes
    <3> QED
      BY <1>10, <2>1, <3>1, <3>2
  <2> QED
    BY <2>2, <2>3
<1>14. ASSUME NEW e \in Dev, NEW i \in 1..Len(engs'[e])
       PROVE  IF pollMode THEN engs'[e][i] \in 1..MaxThreads ELSE engs'[e][i] = 0
  <2>1. \A c \in Dev : \A j \in 1..Len(engs[c]) :
          IF pollMode THEN engs[c][j] \in 1..MaxThreads ELSE engs[c][j] = 0
    BY DEF LifeInv, PoolInv
  <2>2. CASE e # d
    BY <1>5, <2>1, <2>2
  <2>3. CASE e = d /\ i = n + 1
    BY <1>3, <1>6, <2>3
  <2>4. CASE e = d /\ i \in 1..n
    BY <1>4, <1>6, <2>1, <2>4
  <2> QED
    BY <1>6, <2>2, <2>3, <2>4
<1>15. pool' = IF pollMode' /\ list' # <<>> THEN MaxThreads ELSE 0
  BY <1>1 DEF LifeInv, PoolInv
<1>16. PoolInv'
  BY <1>1, <1>13, <1>14, <1>15 DEF PoolInv
<1> QED
  BY <1>5, <1>7, <1>8, <1>16 DEF Put

LEMMA EnginesGo ==
  ASSUME TypeOK, LifeInv, NEW d \in Dev, remove_engines(d)
  PROVE  PoolInv' /\ Put(engs, engs', d, Seq(0..MaxThreads)) /\ engs'[d] = <<>>
<1>1. /\ engs' = [engs EXCEPT ![d] = <<>>] /\ load' = WithoutEngines(d)
      /\ UNCHANGED <<pollMode, list, pool>>
  BY DEF remove_engines, listVars
<1>2. engs'[d] = <<>> /\ \A e \in Dev : e # d => engs'[e] = engs[e]
  BY <1>1, SeqTypes
<1>3. engs' \in [Dev -> Seq(0..MaxThreads)]
  <2>1. <<>> \in Seq(0..MaxThreads)
    BY EmptySeq
  <2> QED
    BY <1>1, <2>1, SeqTypes
<1>4. Len(engs'[d]) = 0
  BY <1>2, EmptySeq
<1>5. ASSUME NEW u
      PROVE  Work(u)' = Work(u) \ {w \in Work(u) : w[1] = d}
  <2>1. \A e \in Dev : e # d => On(u, e)' = On(u, e)
    BY <1>2 DEF On
  <2>2. On(u, d)' = {}
    BY <1>4 DEF On
  <2>3. ASSUME NEW w \in Dev \X (1..MaxChannels)
        PROVE  w[2] \in On(u, w[1])' <=> w[2] \in On(u, w[1]) /\ w[1] # d
    <3>1. CASE w[1] = d
      BY <2>2, <3>1
    <3>2. CASE w[1] # d
      BY <2>1, <3>2
    <3> QED
      BY <3>1, <3>2
  <2> QED
    BY <2>3 DEF Work
<1>6. ASSUME NEW u \in 1..MaxThreads
      PROVE  load'[u] = Cardinality(Work(u)')
  <2>1. PICK W : W = {w \in Work(u) : w[1] = d}
    OBVIOUS
  <2>2. Work(u) \cap W = W
    BY <2>1
  <2>3. Cardinality(Work(u) \ W) = Cardinality(Work(u)) - Cardinality(W)
    BY <2>2, WorkFinite, FS_Difference
  <2>4. Len(engs[d]) \in Nat /\ Len(engs[d]) <= MaxChannels
    BY EngsTypes DEF LifeInv, DevInv, EngsInv
  <2>5. Cardinality(W) = Cardinality(On(u, d))
    BY <2>1, <2>4, CountOn
  <2>6. load'[u] = load[u] - Cardinality(On(u, d))
    BY <1>1, SeqTypes DEF WithoutEngines, On
  <2>7. load[u] = Cardinality(Work(u))
    BY DEF LifeInv, PoolInv
  <2>8. Work(u)' = Work(u) \ W
    BY <1>5, <2>1
  <2> QED
    BY <2>3, <2>5, <2>6, <2>7, <2>8
<1>7. ASSUME NEW e \in Dev, NEW i \in 1..Len(engs'[e])
      PROVE  IF pollMode THEN engs'[e][i] \in 1..MaxThreads ELSE engs'[e][i] = 0
  <2>1. e # d
    BY <1>4
  <2> QED
    BY <1>2, <2>1 DEF LifeInv, PoolInv
<1>8. pool' = IF pollMode' /\ list' # <<>> THEN MaxThreads ELSE 0
  BY <1>1 DEF LifeInv, PoolInv
<1>9. PoolInv'
  BY <1>1, <1>6, <1>7, <1>8 DEF PoolInv
<1> QED
  BY <1>2, <1>3, <1>9 DEF Put

-----------------------------------------------------------------------------
(* The list of devices.                                                    *)

LEMMA ListKept ==
  ASSUME ListInv, UNCHANGED <<list, idx>>,
         \A d \in Dev : pc'[d] \in UnlistedAt <=> pc[d] \in UnlistedAt
  PROVE  ListInv'
BY DEF ListInv

LEMMA DeviceJoins ==
  ASSUME TypeOK, LifeInv, NEW d \in Dev, xdev_list_add(d)
  PROVE  /\ ListInv' /\ PoolInv' /\ list' \in Seq(Dev) /\ pool' \in 0..MaxThreads
         /\ idx' \in [Dev -> 0..MaxIdx]
<1>1. /\ pc[d] = "list" /\ pc' = [pc EXCEPT ![d] = "enable"] /\ NextIdx <= MaxIdx
      /\ list' = Append(list, d) /\ idx' = [idx EXCEPT ![d] = NextIdx]
      /\ pool' = (IF pollMode /\ list = <<>> THEN MaxThreads ELSE pool)
      /\ UNCHANGED <<pollMode, engs, load>>
  BY DEF xdev_list_add, xdma_threads_create, Goto, engVars
<1>2. PICK n \in Nat : n = Len(list)
  BY SeqTypes
<1>3. /\ list' \in Seq(Dev) /\ Len(list') = n + 1 /\ list'[n + 1] = d
      /\ \A k \in 1..n : list'[k] = list[k]
  BY <1>1, <1>2, SeqTypes, AppendProperties
<1>4. ListInv /\ PoolInv
  BY DEF LifeInv
<1>5. \A k \in 1..n : list[k] # d /\ list[k] \in Dev
  BY <1>1, <1>2, <1>4, SeqTypes DEF ListInv, UnlistedAt
<1>6. NextIdx \in 0..MaxIdx /\ \A k \in 1..n : idx[list[k]] < NextIdx
  <2>1. MaxIdx \in Nat
    BY LifecycleAssumption DEF LifecycleAssumption
  <2>2. CASE n = 0
    BY <1>1, <1>2, <2>1, <2>2, SeqTypes DEF NextIdx
  <2>3. CASE n # 0
    <3>1. NextIdx = idx[list[n]] + 1 /\ list[n] \in Dev
      BY <1>2, <2>3, SeqTypes DEF NextIdx
    <3>2. idx[list[n]] \in Nat
      BY <2>1, <3>1, SeqTypes
    <3>3. ASSUME NEW k \in 1..n
          PROVE  idx[list[k]] < NextIdx
      <4>1. k = n \/ idx[list[k]] < idx[list[n]]
        BY <1>2, <1>4 DEF ListInv
      <4>2. idx[list[k]] \in Nat
        BY <1>5, <2>1, SeqTypes
      <4> QED
        BY <3>1, <3>2, <4>1, <4>2
    <3> QED
      BY <1>1, <2>1, <3>1, <3>2, <3>3
  <2> QED
    BY <2>2, <2>3
<1>7. idx' \in [Dev -> 0..MaxIdx] /\ idx'[d] = NextIdx
      /\ \A e \in Dev : e # d => idx'[e] = idx[e]
  BY <1>1, <1>6, SeqTypes
<1>8. pc'[d] = "enable" /\ \A e \in Dev : e # d => pc'[e] = pc[e]
  BY <1>1, Types
<1>9. ASSUME NEW e \in Dev
      PROVE  pc'[e] \notin UnlistedAt <=> \E k \in 1..Len(list') : list'[k] = e
  <2>1. CASE e = d
    <3>1. n + 1 \in 1..Len(list') /\ list'[n + 1] = d
      BY <1>3
    <3> QED
      BY <1>8, <2>1, <3>1 DEF UnlistedAt
  <2>2. CASE e # d
    <3>1. (\E k \in 1..Len(list') : list'[k] = e) <=> \E k \in 1..n : list[k] = e
      BY <1>3, <2>2
    <3> QED
      BY <1>2, <1>4, <1>8, <2>2, <3>1 DEF ListInv
  <2> QED
    BY <2>1, <2>2
<1>10. ASSUME NEW j \in 1..Len(list'), NEW k \in 1..Len(list'), j < k
       PROVE  idx'[list'[j]] < idx'[list'[k]]
  <2>1. j \in 1..n
    BY <1>3, <1>10
  <2>2. list'[j] = list[j] /\ idx'[list'[j]] = idx[list[j]]
    BY <1>3, <1>5, <1>7, <2>1
  <2>3. CASE k = n + 1
    BY <1>3, <1>6, <1>7, <2>1, <2>2, <2>3
  <2>4. CASE k \in 1..n
    <3>1. list'[k] = list[k] /\ idx'[list'[k]] = idx[list[k]]
      BY <1>3, <1>5, <1>7, <2>4
    <3>2. idx[list[j]] < idx[list[k]]
      BY <1>2, <1>4, <1>10, <2>1, <2>4 DEF ListInv
    <3> QED
      BY <2>2, <3>1, <3>2
  <2> QED
    BY <1>3, <2>3, <2>4
<1>11. ListInv'
  BY <1>9, <1>10 DEF ListInv
<1>12. pool' = (IF pollMode THEN MaxThreads ELSE 0) /\ list' # <<>>
  <2>1. list' # <<>>
    BY <1>3, EmptySeq
  <2> QED
    BY <1>1, <1>4, <2>1 DEF PoolInv
<1>13. PoolInv'
  <2>1. \A t : Work(t)' = Work(t)
    BY <1>1 DEF Work, On
  <2> QED
    BY <1>1, <1>4, <1>12, <2>1 DEF PoolInv
<1>14. pool' \in 0..MaxThreads
  BY <1>12, LifecycleAssumption DEF LifecycleAssumption
<1> QED
  BY <1>3, <1>7, <1>11, <1>13, <1>14

LEMMA DeviceLeaves ==
  ASSUME TypeOK, LifeInv, NEW d \in Dev, xdev_list_remove(d)
  PROVE  /\ ListInv' /\ PoolInv' /\ list' \in Seq(Dev) /\ pool' \in 0..MaxThreads
         /\ idx' \in [Dev -> 0..MaxIdx]
<1>1. PICK p \in 1..Len(list) :
        /\ list[p] = d /\ list' = DelAt(p) /\ idx' = [idx EXCEPT ![d] = 0]
        /\ pool' = IF pollMode /\ list' = <<>> THEN 0 ELSE pool
  BY DEF xdev_list_remove, xdma_threads_destroy
<1>2. pc' = [pc EXCEPT ![d] = "absent"] /\ UNCHANGED <<pollMode, engs, load>>
  BY DEF xdev_list_remove, Goto, engVars
<1>3. PICK n \in Nat : n = Len(list)
  BY SeqTypes
<1>4. /\ list' \in Seq(Dev) /\ Len(list') = n - 1
      /\ \A i \in 1..(n - 1) : list'[i] = IF i < p THEN list[i] ELSE list[i + 1]
  <2>1. n - 1 \in Nat /\ \A i \in 1..(n - 1) : i \in 1..n /\ i + 1 \in 1..n
    BY <1>3
  <2>2. \A i \in 1..(n - 1) : (IF i < p THEN list[i] ELSE list[i + 1]) \in Dev
    BY <1>3, <2>1, SeqTypes
  <2>3. list' = [i \in 1..(n - 1) |-> IF i < p THEN list[i] ELSE list[i + 1]]
    BY <1>1, <1>3 DEF DelAt
  <2>4. list' \in [1..(n - 1) -> Dev]
    BY <2>2, <2>3
  <2>5. list' \in Seq(Dev) /\ Len(list') = n - 1
    BY <2>1, <2>4
  <2> QED
    BY <2>3, <2>5
<1>5. ListInv /\ PoolInv
  BY DEF LifeInv
<1>6. MaxIdx \in Nat /\ \A k \in 1..n : list[k] \in Dev /\ idx[list[k]] \in Nat
  BY <1>3, SeqTypes, LifecycleAssumption DEF LifecycleAssumption
<1>7. \A k \in 1..n : k # p => list[k] # d
  <2> SUFFICES ASSUME NEW k \in 1..n, k # p, list[k] = d
               PROVE  FALSE
    OBVIOUS
  <2>1. p \in 1..n /\ (k < p \/ p < k)
    BY <1>3
  <2>2. idx[list[k]] < idx[list[p]] \/ idx[list[p]] < idx[list[k]]
    BY <1>3, <1>5, <2>1 DEF ListInv
  <2> QED
    BY <1>1, <1>6, <2>1, <2>2
<1>8. idx' \in [Dev -> 0..MaxIdx] /\ \A e \in Dev : e # d => idx'[e] = idx[e]
  BY <1>1, <1>6, SeqTypes
<1>9. pc'[d] = "absent" /\ \A e \in Dev : e # d => pc'[e] = pc[e]
  BY <1>2, Types
<1>10. ASSUME NEW i \in 1..(n - 1)
       PROVE  \E k \in 1..n : /\ k # p /\ list'[i] = list[k]
                              /\ k = IF i < p THEN i ELSE i + 1
  BY <1>4, <1>3
<1>11. ASSUME NEW e \in Dev
       PROVE  pc'[e] \notin UnlistedAt <=> \E k \in 1..Len(list') : list'[k] = e
  <2>1. CASE e = d
    <3>1. \A k \in 1..Len(list') : list'[k] # d
      BY <1>4, <1>7, <1>10
    <3> QED
      BY <1>9, <2>1, <3>1 DEF UnlistedAt
  <2>2. CASE e # d
    <3>1. ASSUME NEW k \in 1..Len(list'), list'[k] = e
          PROVE  \E j \in 1..n : list[j] = e
      BY <1>4, <1>10, <3>1
    <3>2. ASSUME NEW j \in 1..n, list[j] = e
          PROVE  \E k \in 1..Len(list') : list'[k] = e
      <4>1. j # p /\ p \in 1..n
        BY <1>1, <1>3, <2>2, <3>2
      <4>2. CASE j < p
        <5>1. j \in 1..(n - 1) /\ list'[j] = list[j]
          BY <1>4, <4>1, <4>2
        <5> QED
          BY <1>4, <3>2, <5>1
      <4>3. CASE j > p
        <5>1. j - 1 \in 1..(n - 1) /\ ~(j - 1 < p) /\ (j - 1) + 1 = j
          BY <4>1, <4>3
        <5>2. list'[j - 1] = list[j]
          BY <1>4, <5>1
        <5> QED
          BY <1>4, <3>2, <5>1, <5>2
      <4> QED
        BY <4>1, <4>2, <4>3
    <3> QED
      BY <1>3, <1>5, <1>9, <2>2, <3>1, <3>2 DEF ListInv
  <2> QED
    BY <2>1, <2>2
<1>12. ASSUME NEW j \in 1..Len(list'), NEW k \in 1..Len(list'), j < k
       PROVE  idx'[list'[j]] < idx'[list'[k]]
  <2>1. PICK a \in 1..n : a # p /\ list'[j] = list[a] /\ a = IF j < p THEN j ELSE j + 1
    BY <1>4, <1>10
  <2>2. PICK b \in 1..n : b # p /\ list'[k] = list[b] /\ b = IF k < p THEN k ELSE k + 1
    BY <1>4, <1>10
  <2>3. a < b
    BY <1>12, <2>1, <2>2
  <2>4. idx[list[a]] < idx[list[b]]
    BY <1>3, <1>5, <2>3 DEF ListInv
  <2>5. idx'[list[a]] = idx[list[a]] /\ idx'[list[b]] = idx[list[b]]
    BY <1>6, <1>7, <1>8, <2>1, <2>2
  <2> QED
    BY <2>1, <2>2, <2>4, <2>5
<1>13. ListInv'
  BY <1>11, <1>12 DEF ListInv
<1>14. pool' = IF pollMode /\ list' # <<>> THEN MaxThreads ELSE 0
  <2>1. list # <<>>
    BY <1>1, SeqTypes
  <2> QED
    BY <1>1, <1>5, <2>1 DEF PoolInv
<1>15. PoolInv'
  <2>1. \A t : Work(t)' = Work(t)
    BY <1>2 DEF Work, On
  <2> QED
    BY <1>2, <1>5, <1>14, <2>1 DEF PoolInv
<1>16. pool' \in 0..MaxThreads
  BY <1>14, LifecycleAssumption DEF LifecycleAssumption
<1> QED
  BY <1>4, <1>8, <1>13, <1>15, <1>16

-----------------------------------------------------------------------------
(* What the kernel holds for a device.                                     *)

\* Every step of a device from one label to another.
Step(d) == Open(d) \/ Interfaces(d) \/ Close(d) \/ Recovery(d)

LEMMA HeldKept ==
  ASSUME TypeOK, NEW d \in Dev, HeldInv(d), Step(d)
  PROVE  HeldInv(d)'
<1> USE Types DEF Goto
<1>1. CASE probe_one(d)
  <2>1. /\ pc[d] = "absent" /\ pc'[d] = "list"
        /\ held'[d] = held[d] /\ inUse'[d] = inUse[d] /\ kind'[d] = kind[d]
        /\ blame'[d] = blame[d] /\ ~inUse[d]
    BY <1>1 DEF probe_one, pciVars, histVars
  <2> QED
    BY <2>1 DEF HeldInv, EnabledAt, RegionsAt, BarsAt, EnginesAt, VectorsAt, UpAt, ClosingAt
<1>2. CASE ThreadsFail(d)
  <2>1. /\ pc[d] = "list" /\ pc'[d] = "absent"
        /\ held'[d] = held[d] /\ inUse'[d] = inUse[d] /\ kind'[d] = kind[d]
        /\ blame'[d] = blame[d]
    BY <1>2 DEF ThreadsFail, pciVars
  <2> QED
    BY <2>1 DEF HeldInv, EnabledAt, RegionsAt, BarsAt, EnginesAt, VectorsAt, UpAt, ClosingAt
<1>3. CASE xdev_list_add(d)
  <2>1. /\ pc[d] = "list" /\ pc'[d] = "enable"
        /\ held'[d] = held[d] /\ inUse'[d] = inUse[d] /\ kind'[d] = kind[d]
        /\ blame'[d] = blame[d]
    BY <1>3 DEF xdev_list_add, pciVars, histVars
  <2> QED
    BY <2>1 DEF HeldInv, EnabledAt, RegionsAt, BarsAt, EnginesAt, VectorsAt, UpAt, ClosingAt
<1>4. CASE EnableDevice(d)
  <2>1. /\ \/ pc[d] = "enable" /\ pc'[d] = "regions" /\ held'[d] = held[d] \cup {"enable"}
           \/ pc[d] = "enable" /\ pc'[d] = "err_enable" /\ held'[d] = held[d]
        /\ inUse'[d] = inUse[d] /\ kind'[d] = kind[d] /\ blame'[d] = blame[d]
    BY <1>4 DEF EnableDevice, Hold
  <2> QED
    BY <2>1 DEF HeldInv, EnabledAt, RegionsAt, BarsAt, EnginesAt, VectorsAt, UpAt, ClosingAt
<1>5. CASE request_regions(d)
  <2>1. /\ \/ pc[d] = "regions" /\ pc'[d] = "bars" /\ held'[d] = held[d] \cup {"regions"} /\ inUse'[d] = inUse[d]
           \/ pc[d] = "regions" /\ pc'[d] = "err_regions" /\ held'[d] = held[d]
        /\ kind'[d] = kind[d] /\ blame'[d] = blame[d]
    BY <1>5 DEF request_regions, Hold
  <2> QED
    BY <2>1 DEF HeldInv, EnabledAt, RegionsAt, BarsAt, EnginesAt, VectorsAt, UpAt, ClosingAt
<1>6. CASE map_bars(d)
  <2>1. /\ \/ pc[d] = "bars" /\ pc'[d] = "mask" /\ held'[d] = held[d] \cup {"bars"}
           \/ pc[d] = "bars" /\ pc'[d] = "err_map" /\ held'[d] = held[d]
        /\ inUse'[d] = inUse[d] /\ kind'[d] = kind[d] /\ blame'[d] = blame[d]
    BY <1>6 DEF map_bars, Hold
  <2> QED
    BY <2>1 DEF HeldInv, EnabledAt, RegionsAt, BarsAt, EnginesAt, VectorsAt, UpAt, ClosingAt
<1>7. CASE set_dma_mask(d)
  <2>1. /\ \/ pc[d] = "mask" /\ pc'[d] = "engines"
           \/ pc[d] = "mask" /\ pc'[d] = "err_mask"
        /\ held'[d] = held[d] /\ inUse'[d] = inUse[d] /\ kind'[d] = kind[d]
        /\ blame'[d] = blame[d]
    BY <1>7 DEF set_dma_mask, pciVars
  <2> QED
    BY <2>1 DEF HeldInv, EnabledAt, RegionsAt, BarsAt, EnginesAt, VectorsAt, UpAt, ClosingAt
<1>8. CASE EngineFound(d)
  <2>1. /\ pc[d] = "engines"
        /\ pc'[d] = pc[d] /\ held'[d] = held[d] /\ inUse'[d] = inUse[d]
        /\ kind'[d] = kind[d] /\ blame'[d] = blame[d]
    BY <1>8 DEF EngineFound, engine_init, ScanThread, xdma_thread_add_work, pciVars, histVars
  <2> QED
    BY <2>1 DEF HeldInv, EnabledAt, RegionsAt, BarsAt, EnginesAt, VectorsAt, UpAt, ClosingAt
<1>9. CASE EnginesDone(d)
  <2>1. /\ pc[d] = "engines" /\ pc'[d] = "msi" /\ held'[d] = held[d] \cup {"engines"}
        /\ inUse'[d] = inUse[d] /\ kind'[d] = kind[d] /\ blame'[d] = blame[d]
    BY <1>9 DEF EnginesDone, Hold, histVars
  <2> QED
    BY <2>1 DEF HeldInv, EnabledAt, RegionsAt, BarsAt, EnginesAt, VectorsAt, UpAt, ClosingAt
<1>10. CASE enable_msi_msix(d)
  <2>1. /\ \/ pc[d] = "msi" /\ pc'[d] = "irq" /\ held'[d] = held[d] \cup {"vectors"} /\ kind'[d] # "legacy"
           \/ pc[d] = "msi" /\ pc'[d] = "irq" /\ held'[d] = held[d] /\ kind'[d] = "legacy"
           \/ pc[d] = "msi" /\ pc'[d] = "err_engines" /\ held'[d] = held[d]
        /\ inUse'[d] = inUse[d] /\ blame'[d] = blame[d]
    BY <1>10 DEF enable_msi_msix, Hold
  <2> QED
    BY <2>1 DEF HeldInv, EnabledAt, RegionsAt, BarsAt, EnginesAt, VectorsAt, UpAt, ClosingAt
<1>11. CASE OpenIrq(d)
  <2>1. /\ \/ pc[d] = "irq" /\ pc'[d] = "nodes"
           \/ pc[d] = "irq" /\ pc'[d] = "err_msix"
        /\ held'[d] = held[d] /\ inUse'[d] = inUse[d] /\ kind'[d] = kind[d]
    BY <1>11 DEF OpenIrq, pciVars
  <2> QED
    BY <2>1 DEF HeldInv, EnabledAt, RegionsAt, BarsAt, EnginesAt, VectorsAt, UpAt, ClosingAt
<1>12. CASE CreateGroup(d)
  <2>1. /\ pc[d] = "nodes"
        /\ pc'[d] = pc[d] /\ held'[d] = held[d] /\ inUse'[d] = inUse[d]
        /\ kind'[d] = kind[d] /\ blame'[d] = blame[d]
    BY <1>12 DEF CreateGroup, pciVars, histVars
  <2> QED
    BY <2>1 DEF HeldInv, EnabledAt, RegionsAt, BarsAt, EnginesAt, VectorsAt, UpAt, ClosingAt
<1>13. CASE create_xcdev_fails(d)
  <2>1. /\ pc[d] = "nodes" /\ pc'[d] = "fail"
        /\ held'[d] = held[d] /\ inUse'[d] = inUse[d] /\ kind'[d] = kind[d]
    BY <1>13 DEF create_xcdev_fails, pciVars
  <2> QED
    BY <2>1 DEF HeldInv, EnabledAt, RegionsAt, BarsAt, EnginesAt, VectorsAt, UpAt, ClosingAt
<1>14. CASE ProbeDone(d)
  <2>1. /\ pc[d] = "nodes" /\ pc'[d] = "bound"
        /\ held'[d] = held[d] /\ inUse'[d] = inUse[d] /\ kind'[d] = kind[d]
        /\ blame'[d] = blame[d]
    BY <1>14 DEF ProbeDone, pciVars, histVars
  <2> QED
    BY <2>1 DEF HeldInv, EnabledAt, RegionsAt, BarsAt, EnginesAt, VectorsAt, UpAt, ClosingAt
<1>15. CASE xpdev_destroy_interfaces(d)
  <2>1. /\ \/ pc[d] = "fail" /\ pc'[d] = "free"
           \/ pc[d] = "free" /\ pc'[d] = "c_irq"
        /\ held'[d] = held[d] /\ inUse'[d] = inUse[d] /\ kind'[d] = kind[d]
        /\ blame'[d] = blame[d]
    BY <1>15 DEF xpdev_destroy_interfaces, pciVars
  <2> QED
    BY <2>1 DEF HeldInv, EnabledAt, RegionsAt, BarsAt, EnginesAt, VectorsAt, UpAt, ClosingAt
<1>16. CASE remove_one(d)
  <2>1. /\ \/ pc[d] = "bound" /\ pc'[d] = "free" /\ blame'[d] = blame[d]
           \/ pc[d] = "frozen" /\ pc'[d] = "free" /\ "reset" \in blame'[d]
        /\ held'[d] = held[d] /\ inUse'[d] = inUse[d] /\ kind'[d] = kind[d]
    BY <1>16 DEF remove_one, pciVars, Blame
  <2> QED
    BY <2>1 DEF HeldInv, EnabledAt, RegionsAt, BarsAt, EnginesAt, VectorsAt, UpAt, ClosingAt
<1>17. CASE CloseIrq(d)
  <2>1. /\ pc[d] = "c_irq" /\ pc'[d] = "c_msi"
        /\ held'[d] = held[d] /\ inUse'[d] = inUse[d] /\ kind'[d] = kind[d]
        /\ blame'[d] = blame[d]
    BY <1>17 DEF CloseIrq, pciVars
  <2> QED
    BY <2>1 DEF HeldInv, EnabledAt, RegionsAt, BarsAt, EnginesAt, VectorsAt, UpAt, ClosingAt
<1>18. CASE disable_msi_msix(d)
  <2>1. /\ \/ pc[d] = "err_msix" /\ pc'[d] = "err_engines"
           \/ pc[d] = "c_msi" /\ pc'[d] = "c_engines"
        /\ held'[d] = held[d] \ {"vectors"} /\ inUse'[d] = inUse[d] /\ blame'[d]
           = blame[d]
    BY <1>18 DEF disable_msi_msix, Drop, histVars
  <2> QED
    BY <2>1 DEF HeldInv, EnabledAt, RegionsAt, BarsAt, EnginesAt, VectorsAt, UpAt, ClosingAt
<1>19. CASE remove_engines(d)
  <2>1. /\ \/ pc[d] = "err_engines" /\ pc'[d] = "err_mask"
           \/ pc[d] = "c_engines" /\ pc'[d] = "c_bars"
        /\ held'[d] = held[d] \ {"engines"} /\ inUse'[d] = inUse[d] /\ kind'[d]
           = kind[d] /\ blame'[d] = blame[d]
    BY <1>19 DEF remove_engines, Drop, histVars
  <2> QED
    BY <2>1 DEF HeldInv, EnabledAt, RegionsAt, BarsAt, EnginesAt, VectorsAt, UpAt, ClosingAt
<1>20. CASE unmap_bars(d)
  <2>1. /\ \/ pc[d] = "err_mask" /\ pc'[d] = "err_map"
           \/ pc[d] = "c_bars" /\ pc'[d] = "c_regions"
        /\ held'[d] = held[d] \ {"bars"} /\ inUse'[d] = inUse[d] /\ kind'[d] =
           kind[d] /\ blame'[d] = blame[d]
    BY <1>20 DEF unmap_bars, Drop, histVars
  <2> QED
    BY <2>1 DEF HeldInv, EnabledAt, RegionsAt, BarsAt, EnginesAt, VectorsAt, UpAt, ClosingAt
<1>21. CASE ReleaseRegions(d)
  <2>1. /\ \/ pc[d] = "err_map" /\ pc'[d] = "err_regions"
           \/ pc[d] = "c_regions" /\ pc'[d] = "c_disable"
        /\ held'[d] = held[d] \ {"regions"} /\ inUse'[d] = inUse[d] /\ kind'[d]
           = kind[d] /\ blame'[d] = blame[d]
    BY <1>21 DEF ReleaseRegions, Drop, histVars
  <2> QED
    BY <2>1 DEF HeldInv, EnabledAt, RegionsAt, BarsAt, EnginesAt, VectorsAt, UpAt, ClosingAt
<1>22. CASE Disable(d)
  <2>1. /\ \/ pc[d] = "err_regions" /\ pc'[d] = "err_enable"
           \/ pc[d] = "c_disable" /\ pc'[d] = "c_list"
        /\ held'[d] = (IF inUse[d] THEN held[d] ELSE held[d] \ {"enable"})
        /\ inUse'[d] = inUse[d] /\ kind'[d] = kind[d] /\ blame'[d] = blame[d]
    BY <1>22 DEF Disable, Drop, DisableDevice
  <2> QED
    BY <2>1 DEF HeldInv, EnabledAt, RegionsAt, BarsAt, EnginesAt, VectorsAt, UpAt, ClosingAt
<1>23. CASE xdev_list_remove(d)
  <2>1. /\ \/ pc[d] = "err_enable" /\ pc'[d] = "absent"
           \/ pc[d] = "c_list" /\ pc'[d] = "absent"
        /\ held'[d] = held[d] /\ inUse'[d] = inUse[d] /\ blame'[d] = blame[d]
    BY <1>23 DEF xdev_list_remove, histVars
  <2> QED
    BY <2>1 DEF HeldInv, EnabledAt, RegionsAt, BarsAt, EnginesAt, VectorsAt, UpAt, ClosingAt
<1>24. CASE xdma_error_detected(d)
  <2>1. /\ pc[d] = "bound" /\ pc'[d] = "frozen"
        /\ held'[d] = held[d] \ {"enable"} /\ inUse'[d] = inUse[d] /\ kind'[d] =
           kind[d] /\ blame'[d] = blame[d]
    BY <1>24 DEF xdma_error_detected, Drop
  <2> QED
    BY <2>1 DEF HeldInv, EnabledAt, RegionsAt, BarsAt, EnginesAt, VectorsAt, UpAt, ClosingAt
<1>25. CASE xdma_slot_reset(d)
  <2>1. /\ pc[d] = "frozen" /\ pc'[d] = "bound"
        /\ held'[d] = held[d] \cup {"enable"} /\ inUse'[d] = inUse[d]
        /\ kind'[d] = kind[d]
    BY <1>25 DEF xdma_slot_reset, Hold
  <2> QED
    BY <2>1 DEF HeldInv, EnabledAt, RegionsAt, BarsAt, EnginesAt, VectorsAt, UpAt, ClosingAt
<1>26. CASE xdma_reset_prepare(d)
  <2>1. /\ pc[d] = "bound" /\ pc'[d] = "prepared"
        /\ held'[d] = held[d] /\ inUse'[d] = inUse[d] /\ kind'[d] = kind[d]
        /\ blame'[d] = blame[d]
    BY <1>26 DEF xdma_reset_prepare, pciVars
  <2> QED
    BY <2>1 DEF HeldInv, EnabledAt, RegionsAt, BarsAt, EnginesAt, VectorsAt, UpAt, ClosingAt
<1>27. CASE xdma_reset_done(d)
  <2>1. /\ pc[d] = "prepared" /\ pc'[d] = "bound"
        /\ held'[d] = held[d] /\ inUse'[d] = inUse[d] /\ kind'[d] = kind[d]
    BY <1>27 DEF xdma_reset_done, pciVars
  <2> QED
    BY <2>1 DEF HeldInv, EnabledAt, RegionsAt, BarsAt, EnginesAt, VectorsAt, UpAt, ClosingAt
<1> QED
  BY <1>1, <1>2, <1>3, <1>4, <1>5, <1>6, <1>7, <1>8, <1>9, <1>10, <1>11, <1>12,
     <1>13, <1>14, <1>15, <1>16, <1>17, <1>18, <1>19, <1>20, <1>21, <1>22,
     <1>23, <1>24, <1>25, <1>26, <1>27
  DEF Step, Open, Interfaces, Close, Recovery

-----------------------------------------------------------------------------
(* Steps of a device that is not up: no handler and no node changes.       *)

QuietOpen(d) ==
  \/ probe_one(d) \/ xdev_list_add(d) \/ ThreadsFail(d) \/ EnableDevice(d)
  \/ request_regions(d) \/ map_bars(d) \/ set_dma_mask(d) \/ EngineFound(d)
  \/ EnginesDone(d) \/ enable_msi_msix(d)
QuietClose(d) ==
  \/ disable_msi_msix(d) \/ remove_engines(d) \/ unmap_bars(d) \/ ReleaseRegions(d)
  \/ Disable(d) \/ xdev_list_remove(d)
Quiet(d) == QuietOpen(d) \/ QuietClose(d)

LEMMA QuietFacts ==
  ASSUME TypeOK, NEW d \in Dev, Quiet(d)
  PROVE  /\ pc[d] \notin UpAt /\ pc'[d] \notin UpAt /\ UNCHANGED <<handlers, blame, nodes, region>>
         /\ \/ flags'[d] = {} /\ ~major'[d]
            \/ /\ UNCHANGED <<flags, major>>
               /\ pc[d] \in CloseLabels => pc'[d] \in CloseLabels
         /\ twice' = twice \/ Disable(d)
<1>1. CASE QuietOpen(d)
  <2>1. pc[d] \notin UpAt /\ pc[d] \notin CloseLabels
    BY <1>1 DEF QuietOpen, UpAt, CloseLabels, probe_one, xdev_list_add, ThreadsFail, EnableDevice,
       request_regions, map_bars, set_dma_mask, EngineFound, engine_init, ScanThread,
       xdma_thread_add_work, EnginesDone, enable_msi_msix
  <2>2. pc'[d] \notin UpAt
    BY <1>1, Types DEF QuietOpen, UpAt, Goto, probe_one, xdev_list_add, ThreadsFail, EnableDevice,
       request_regions, map_bars, set_dma_mask, EngineFound, engine_init, ScanThread,
       xdma_thread_add_work, EnginesDone, enable_msi_msix
  <2>3. UNCHANGED <<handlers, blame, nodes, region, flags, major, twice>>
    BY <1>1 DEF QuietOpen, probe_one, xdev_list_add, ThreadsFail, EnableDevice, request_regions,
       map_bars, set_dma_mask, EngineFound, engine_init, ScanThread, xdma_thread_add_work,
       EnginesDone, enable_msi_msix, irqVars, cdevVars,
       histVars
  <2> QED
    BY <2>1, <2>2, <2>3
<1>2. CASE QuietClose(d)
  <2>1. pc[d] \notin UpAt
    BY <1>2 DEF QuietClose, UpAt, disable_msi_msix, remove_engines, unmap_bars, ReleaseRegions,
       Disable, xdev_list_remove
  <2>2. pc'[d] \notin UpAt
    BY <1>2, Types DEF QuietClose, UpAt, Goto, disable_msi_msix, remove_engines, unmap_bars,
       ReleaseRegions, Disable, xdev_list_remove
  <2>3. UNCHANGED <<handlers, blame, nodes, region>> /\ (twice' = twice \/ Disable(d))
    BY <1>2 DEF QuietClose, disable_msi_msix, remove_engines, unmap_bars,
       ReleaseRegions, Disable, xdev_list_remove, irqVars, cdevVars, histVars
  <2>4. CASE xdev_list_remove(d)
    <3>1. flags'[d] = {} /\ ~major'[d]
      BY <2>4, Types DEF xdev_list_remove
    <3> QED
      BY <2>1, <2>2, <2>3, <3>1
  <2>5. CASE ~xdev_list_remove(d)
    <3>1. UNCHANGED <<flags, major>>
      BY <1>2, <2>5 DEF QuietClose, disable_msi_msix, remove_engines, unmap_bars,
         ReleaseRegions, Disable, cdevVars
    <3>2. pc[d] \in CloseLabels => pc'[d] \in CloseLabels
      BY <1>2, <2>5, Types DEF QuietClose, CloseLabels, Goto, disable_msi_msix, remove_engines,
         unmap_bars, ReleaseRegions, Disable
    <3> QED
      BY <2>1, <2>2, <2>3, <3>1, <3>2
  <2> QED
    BY <2>4, <2>5
<1> QED
  BY <1>1, <1>2 DEF Quiet

LEMMA QuietKept ==
  ASSUME TypeOK, NEW d \in Dev, DevInv(d), Quiet(d)
  PROVE  IrqInv(d)' /\ CdevInv(d)' /\ TwiceInv(d)'
<1>1. /\ pc[d] \notin UpAt /\ pc'[d] \notin UpAt /\ UNCHANGED <<handlers, blame, nodes, region>>
      /\ \/ flags'[d] = {} /\ ~major'[d]
         \/ /\ UNCHANGED <<flags, major>>
            /\ pc[d] \in CloseLabels => pc'[d] \in CloseLabels
      /\ twice' = twice \/ Disable(d)
  BY QuietFacts
<1>3. IrqInv(d)'
  <2>1. pc'[d] \notin {"nodes", "fail"} \cup {"bound", "free", "c_irq"} \cup {"frozen", "prepared"}
    BY <1>1 DEF UpAt
  <2>2. handlers'[d] = {} \/ "irq" \in blame'[d]
    BY <1>1 DEF DevInv, IrqInv
  <2> QED
    BY <1>1, <2>1, <2>2 DEF IrqInv
<1>4. CdevInv(d)'
  <2>1. pc[d] \notin CdevAt /\ pc'[d] \notin CdevAt /\ pc'[d] # "fail"
    BY <1>1 DEF CdevAt, UpAt
  <2>2. pc'[d] \notin UpAt \cup CloseLabels => flags'[d] = {} /\ ~major'[d]
    BY <1>1 DEF DevInv, CdevInv
  <2>3. "cdev" \notin blame'[d] => nodes'[d] = {} /\ ~region'[d]
    BY <1>1, <2>1 DEF DevInv, CdevInv
  <2> QED
    BY <2>1, <2>2, <2>3 DEF CdevInv
<1>5. TwiceInv(d)'
  <2>1. CASE twice' = twice
    BY <1>1, <2>1 DEF DevInv, TwiceInv
  <2>2. CASE Disable(d)
    <3>1. pc[d] = "err_regions" \/ pc[d] = "c_disable"
      BY <2>2 DEF Disable
    <3>2. blame[d] = {} => "enable" \in held[d]
      BY <3>1 DEF DevInv, HeldInv, EnabledAt, RegionsAt, BarsAt, EnginesAt, VectorsAt, UpAt,
         ClosingAt
    <3>3. twice'[d] = twice[d] \/ twice'[d] = twice[d] \cup ({"enable"} \ held[d])
      BY <2>2, Types DEF Disable, DisableDevice, Note
    <3> QED
      BY <1>1, <3>2, <3>3 DEF DevInv, TwiceInv
  <2> QED
    BY <1>1, <2>1, <2>2
<1> QED
  BY <1>3, <1>4, <1>5

-----------------------------------------------------------------------------
(* Engines and module.                                                     *)

LEMMA EngsKept ==
  ASSUME TypeOK, LifeInv, NEW d \in Dev, Step(d)
  PROVE  EngsInv(d)' /\ Put(engs, engs', d, Seq(0..MaxThreads))
<1>1. CASE EngineFound(d)
  <2>1. pc[d] = "engines" /\ pc'[d] = "engines" /\ pollMode' = pollMode
    BY <1>1 DEF EngineFound, engine_init, ScanThread, xdma_thread_add_work
  <2>2. EngsInv(d)
    BY DEF LifeInv, DevInv
  <2>3. Put(engs, engs', d, Seq(0..MaxThreads)) /\ Len(engs'[d]) <= MaxChannels
    BY <1>1, <2>2, EngineFoundIs, EngineComes, PutSame, SeqTypes DEF EngsInv
  <2>4. scanAt'[d] # 0 => /\ pollMode /\ Len(engs'[d]) < MaxChannels
                          /\ pick'[d] \in 1..MaxThreads
    <3>1. CASE engine_init(d)
      <4>1. MaxThreads \in Nat \ {0} /\ scanAt[d] = 0 /\ Len(engs[d]) < MaxChannels
        BY <3>1, LifecycleAssumption DEF LifecycleAssumption, engine_init
      <4>2. CASE pollMode
        <5>1. pick' = [pick EXCEPT ![d] = 1] /\ engs' = engs
          BY <3>1, <4>2 DEF engine_init
        <5> QED
          BY <4>1, <4>2, <5>1, ScanTypes
      <4>3. CASE ~pollMode
        <5>1. scanAt' = scanAt
          BY <3>1, <4>3 DEF engine_init, scanVars
        <5> QED
          BY <4>1, <5>1
      <4> QED
        BY <4>2, <4>3
    <3>2. CASE ScanThread(d)
      <4>1. scanAt[d] \in 2..pool /\ pool \in 0..MaxThreads /\ MaxThreads \in Nat
        BY <3>2, SeqTypes, LifecycleAssumption DEF LifecycleAssumption, ScanThread
      <4>2. scanAt[d] # 0 /\ scanAt[d] \in 1..MaxThreads
        BY <4>1
      <4>3. /\ engs' = engs
            /\ pick' = [pick EXCEPT ![d] = IF Takes(d, scanAt[d]) THEN scanAt[d] ELSE @]
        BY <3>2 DEF ScanThread
      <4>4. pick'[d] = scanAt[d] \/ pick'[d] = pick[d]
        BY <4>3, ScanTypes
      <4> QED
        BY <2>2, <4>2, <4>3, <4>4 DEF EngsInv
    <3>3. CASE xdma_thread_add_work(d)
      BY <3>3, ScanTypes DEF xdma_thread_add_work
    <3> QED
      BY <1>1, <3>1, <3>2, <3>3 DEF EngineFound
  <2> QED
    BY <2>1, <2>3, <2>4 DEF EngsInv
<1>2. CASE remove_engines(d)
  <2>1. Len(engs'[d]) = 0 /\ Len(engs'[d]) <= MaxChannels
    BY <1>2, EnginesGo, EmptySeq, LifecycleAssumption DEF LifecycleAssumption
  <2>2. scanAt' = scanAt /\ pc[d] # "engines" /\ scanAt[d] = 0
    BY <1>2 DEF remove_engines, LifeInv, DevInv, EngsInv
  <2> QED
    BY <1>2, <2>1, <2>2, EnginesGo DEF EngsInv
<1>3. CASE ~EngineFound(d) /\ ~remove_engines(d)
  <2>1. UNCHANGED <<engs, pollMode>> /\ UNCHANGED <<scanAt, pick>>
    BY <1>3 DEF Step, Open, Interfaces, Close, Recovery, probe_one, xdev_list_add, ThreadsFail,
       EnableDevice, request_regions, map_bars, set_dma_mask, EnginesDone, enable_msi_msix,
       OpenIrq, CreateGroup, create_xcdev_fails, ProbeDone, xpdev_destroy_interfaces, remove_one,
       CloseIrq, disable_msi_msix, unmap_bars, ReleaseRegions, Disable, xdev_list_remove,
       xdma_error_detected, xdma_slot_reset, xdma_reset_prepare, xdma_reset_done,
       engVars, scanVars
  <2>2. CASE Open(d)
    <3>1. /\ pc[d] \in EnginesAt \cup {"engines"} => pc'[d] \in EnginesAt \cup {"engines"}
          /\ pc[d] = "engines" => pc'[d] = "engines" \/ scanAt[d] = 0
      BY <1>3, <2>2, Types DEF Open, Goto, probe_one, xdev_list_add, ThreadsFail,
         EnableDevice, request_regions, map_bars, set_dma_mask, EnginesDone, enable_msi_msix,
         OpenIrq, EnginesAt, VectorsAt, UpAt
    <3> QED
      BY <2>1, <3>1, PutSame, SeqTypes DEF LifeInv, DevInv, EngsInv
  <2>3. CASE ~Open(d)
    <3>1. /\ pc[d] \in EnginesAt \cup {"engines"} => pc'[d] \in EnginesAt \cup {"engines"}
          /\ pc[d] = "engines" => pc'[d] = "engines" \/ scanAt[d] = 0
      BY <1>3, <2>3, Types DEF Step, Goto, Interfaces, Close, Recovery, CreateGroup,
         create_xcdev_fails, ProbeDone, xpdev_destroy_interfaces, remove_one,
         CloseIrq, disable_msi_msix, unmap_bars, ReleaseRegions, Disable, xdev_list_remove,
         xdma_error_detected, xdma_slot_reset, xdma_reset_prepare, xdma_reset_done,
         EnginesAt, VectorsAt, UpAt
    <3> QED
      BY <2>1, <3>1, PutSame, SeqTypes DEF LifeInv, DevInv, EngsInv
  <2> QED
    BY <2>2, <2>3
<1> QED
  BY <1>1, <1>2, <1>3

\* The searches for a thread.
LEMMA ScanKept ==
  ASSUME TypeOK, LifeInv, NEW d \in Dev, Step(d)
  PROVE  /\ Put(scanAt, scanAt', d, 0..(MaxThreads + 1)) /\ Put(pick, pick', d, 0..MaxThreads)
         /\ Put(first, first', d, Nat) /\ raced' \in [Dev -> SUBSET (1..MaxThreads)]
<1>1. MaxThreads \in Nat \ {0} /\ pool \in 0..MaxThreads /\ load \in [1..MaxThreads -> Nat]
  BY SeqTypes, LifecycleAssumption DEF LifecycleAssumption
<1>2. CASE engine_init(d)
  <2>1. /\ scanAt' = scanAt \/ scanAt' = [scanAt EXCEPT ![d] = 2]
        /\ pick' = pick \/ pick' = [pick EXCEPT ![d] = 1]
        /\ first' = first \/ first' = [first EXCEPT ![d] = load[1]]
        /\ raced' = raced
    BY <1>2 DEF engine_init, scanVars
  <2>2. 2 \in 0..(MaxThreads + 1) /\ 1 \in 0..MaxThreads /\ load[1] \in Nat
    BY <1>1
  <2>3. Put(scanAt, scanAt', d, 0..(MaxThreads + 1))
    BY <2>1, <2>2, ScanTypes DEF Put
  <2>4. Put(pick, pick', d, 0..MaxThreads)
    BY <2>1, <2>2, ScanTypes DEF Put
  <2>5. Put(first, first', d, Nat)
    BY <2>1, <2>2, ScanTypes DEF Put
  <2> QED
    BY <2>1, <2>3, <2>4, <2>5, ScanTypes
<1>3. CASE ScanThread(d)
  <2>1. PICK t : t = scanAt[d]
    OBVIOUS
  <2>2. t \in 2..pool /\ t \in 0..MaxThreads /\ t + 1 \in 0..(MaxThreads + 1)
        /\ pool + 1 \in 0..(MaxThreads + 1)
    BY <1>1, <1>3, <2>1 DEF ScanThread
  <2>3. /\ scanAt' = [scanAt EXCEPT ![d] = IF load[t] = 0 THEN pool + 1 ELSE t + 1]
        /\ pick' = [pick EXCEPT ![d] = IF Takes(d, t) THEN t ELSE pick[d]]
        /\ first' = first /\ raced' = raced
    BY <1>3, <2>1, ScanTypes DEF ScanThread
  <2>4. pick[d] \in 0..MaxThreads
    BY ScanTypes
  <2> QED
    BY <2>2, <2>3, <2>4, ScanTypes, PutSame, PutExcept
<1>4. CASE xdma_thread_add_work(d)
  <2>1. /\ scanAt' = [scanAt EXCEPT ![d] = 0] /\ pick' = [pick EXCEPT ![d] = 0]
        /\ first' = [first EXCEPT ![d] = 0] /\ raced' = Race(d, {pick[d]})
    BY <1>4 DEF xdma_thread_add_work
  <2>2. scanAt[d] # 0
    BY <1>1, <1>4 DEF xdma_thread_add_work
  <2>3. pick[d] \in 1..MaxThreads
    BY <2>2 DEF LifeInv, DevInv, EngsInv
  <2>4. raced' \in [Dev -> SUBSET (1..MaxThreads)]
    BY <2>1, <2>3, RaceType
  <2>5. Put(scanAt, scanAt', d, 0..(MaxThreads + 1)) /\ Put(pick, pick', d, 0..MaxThreads)
    <3>1. 0 \in 0..(MaxThreads + 1) /\ 0 \in 0..MaxThreads
      BY <1>1
    <3> QED
      BY <2>1, <3>1, ScanTypes, PutExcept
  <2>6. Put(first, first', d, Nat)
    BY <2>1, ScanTypes, PutExcept
  <2> QED
    BY <2>4, <2>5, <2>6
<1>5. CASE remove_engines(d)
  <2>1. /\ UNCHANGED <<scanAt, pick, first>>
        /\ raced' = Race(d, {engs[d][i] : i \in 1..Len(engs[d])} \ {0})
    BY <1>5 DEF remove_engines
  <2>2. {engs[d][i] : i \in 1..Len(engs[d])} \ {0} \subseteq 1..MaxThreads
    BY EngsTypes, <1>1
  <2>3. raced' \in [Dev -> SUBSET (1..MaxThreads)]
    BY <2>1, <2>2, RaceType
  <2> QED
    BY <2>1, <2>3, ScanTypes, PutSame
<1>6. CASE ~EngineFound(d) /\ ~remove_engines(d)
  <2>1. UNCHANGED <<scanAt, pick, first, raced>>
    BY <1>6 DEF Step, Open, Interfaces, Close, Recovery, probe_one, xdev_list_add, ThreadsFail,
       EnableDevice, request_regions, map_bars, set_dma_mask, EnginesDone, enable_msi_msix,
       OpenIrq, CreateGroup, create_xcdev_fails, ProbeDone, xpdev_destroy_interfaces, remove_one,
       CloseIrq, disable_msi_msix, unmap_bars, ReleaseRegions, Disable, xdev_list_remove,
       xdma_error_detected, xdma_slot_reset, xdma_reset_prepare, xdma_reset_done,
       engVars, scanVars
  <2> QED
    BY <2>1, ScanTypes, PutSame
<1> QED
  BY <1>2, <1>3, <1>4, <1>5, <1>6 DEF EngineFound

LEMMA ModKept ==
  ASSUME TypeOK, NEW d \in Dev, ModInv(d), Step(d)
  PROVE  ModInv(d)' /\ UNCHANGED <<pollMode, mod, class, cache>>
<1>1. UNCHANGED <<pollMode, mod, class, cache>>
  BY DEF Step, Open, Interfaces, Close, Recovery, probe_one, xdev_list_add, ThreadsFail,
     EnableDevice, request_regions, map_bars, set_dma_mask, EngineFound, engine_init, ScanThread,
     xdma_thread_add_work, EnginesDone,
     enable_msi_msix, OpenIrq, CreateGroup, create_xcdev_fails, ProbeDone,
     xpdev_destroy_interfaces, remove_one, CloseIrq, disable_msi_msix, remove_engines, unmap_bars,
     ReleaseRegions, Disable, xdev_list_remove, xdma_error_detected, xdma_slot_reset,
     xdma_reset_prepare, xdma_reset_done, modVars
<1>2. pc[d] # "absent" \/ mod = "loaded"
  BY DEF Step, Open, Interfaces, Close, Recovery, probe_one, xdev_list_add, ThreadsFail,
     EnableDevice, request_regions, map_bars, set_dma_mask, EngineFound, engine_init, ScanThread,
     xdma_thread_add_work, EnginesDone,
     enable_msi_msix, OpenIrq, CreateGroup, create_xcdev_fails, ProbeDone,
     xpdev_destroy_interfaces, remove_one, CloseIrq, disable_msi_msix, remove_engines, unmap_bars,
     ReleaseRegions, Disable, xdev_list_remove, xdma_error_detected, xdma_slot_reset,
     xdma_reset_prepare, xdma_reset_done
<1> QED
  BY <1>1, <1>2 DEF ModInv

-----------------------------------------------------------------------------
(* Steps of a device that is up, or comes up.                              *)

\* What the parts of the invariant say in the labels a device is up.
LEMMA UpFacts ==
  ASSUME NEW d \in Dev, DevInv(d)
  PROVE  /\ pc[d] \in UpAt => irqLine[d] /\ Registered(d)
         /\ pc[d] \in {"nodes", "fail", "bound", "prepared"} => "enable" \in held[d]
         /\ pc[d] \in CdevAt /\ "cdev" \notin blame[d] =>
              nodes[d] = flags[d] /\ (region[d] <=> major[d]) /\ (~major[d] => flags[d] = {})
BY DEF DevInv, HeldInv, IrqInv, CdevInv, Registered, EnabledAt, RegionsAt, BarsAt, EnginesAt,
   VectorsAt, UpAt, CdevAt, ClosingAt

LEMMA OpenIrqKept ==
  ASSUME TypeOK, NEW d \in Dev, DevInv(d), OpenIrq(d)
  PROVE  IrqInv(d)' /\ CdevInv(d)' /\ TwiceInv(d)'
<1>1. /\ pc[d] = "irq" /\ kind'[d] = kind[d] /\ flags'[d] = flags[d] /\ major'[d] = major[d]
      /\ nodes'[d] = nodes[d] /\ region'[d] = region[d] /\ twice'[d] = twice[d]
  BY DEF OpenIrq, pciVars, cdevVars
<1>2. /\ blame[d] \subseteq blame'[d]
      /\ \/ pc'[d] = "nodes" /\ irqLine'[d] /\ handlers'[d] = IrqAll(d)
         \/ pc'[d] = "err_msix" /\ (handlers'[d] = {} \/ "irq" \in blame'[d])
  <2>1. CASE irq_setup(d) /\ Goto(d, "nodes") /\ UNCHANGED blame
    BY <2>1, Types DEF irq_setup, Goto
  <2>2. CASE IrqSetupFails(d) /\ Goto(d, "err_msix")
    <3>1. PICK S : /\ handlers' = [handlers EXCEPT ![d] = S]
                   /\ (S = {} /\ UNCHANGED blame) \/ Blame(d, "irq")
      BY <2>2 DEF IrqSetupFails
    <3>2. handlers'[d] = S /\ pc'[d] = "err_msix"
      BY <2>2, <3>1, Types DEF Goto
    <3>3. blame[d] \subseteq blame'[d] /\ (S = {} \/ "irq" \in blame'[d])
      BY <3>1, Types DEF Blame
    <3> QED
      BY <3>2, <3>3
  <2> QED
    BY <2>1, <2>2 DEF OpenIrq
<1>3. IrqInv(d)'
  <2>1. IrqAll(d)' = IrqAll(d)
    BY <1>1 DEF IrqAll
  <2> QED
    BY <1>2, <2>1 DEF IrqInv, UpAt
<1>4. flags[d] = {} /\ ~major[d] /\ ("cdev" \notin blame[d] => nodes[d] = {} /\ ~region[d])
  BY <1>1 DEF DevInv, CdevInv, UpAt, CdevAt, CloseLabels
<1>5. CdevInv(d)'
  BY <1>1, <1>2, <1>4 DEF CdevInv, UpAt, CdevAt, CloseLabels
<1>6. TwiceInv(d)'
  BY <1>1, <1>2 DEF DevInv, TwiceInv
<1> QED
  BY <1>3, <1>5, <1>6

\* Steps in the up labels that leave the interrupts alone.
LEMMA IrqUntouched ==
  ASSUME NEW d \in Dev, DevInv(d), UNCHANGED <<kind, irqLine, handlers, held>>,
         "reset" \in blame[d] => "reset" \in blame'[d],
         \/ pc[d] = "nodes" /\ pc'[d] \in {"nodes", "fail", "bound"}
         \/ pc[d] = "fail" /\ pc'[d] = "free"
         \/ pc[d] \in {"bound", "free"} /\ pc'[d] \in {"free", "c_irq"}
  PROVE  IrqInv(d)'
<1>1. IrqAll(d)' = IrqAll(d)
  BY DEF IrqAll
<1>2. irqLine'[d] /\ pc'[d] \in UpAt \ {"frozen", "prepared"}
  BY UpFacts DEF UpAt
<1>3. CASE pc[d] \in {"nodes", "fail"}
  <2>1. handlers[d] = IrqAll(d) /\ "enable" \in held[d]
    BY <1>3, UpFacts DEF DevInv, IrqInv
  <2> QED
    BY <1>1, <1>2, <2>1 DEF IrqInv
<1>4. CASE pc[d] \in {"bound", "free"}
  <2>1. pc'[d] \in {"free", "c_irq"}
    BY <1>4
  <2> QED
    BY <1>1, <1>2, <1>4, <2>1 DEF DevInv, IrqInv
<1> QED
  BY <1>3, <1>4

LEMMA CreateKept ==
  ASSUME TypeOK, NEW d \in Dev, DevInv(d), CreateGroup(d)
  PROVE  IrqInv(d)' /\ CdevInv(d)' /\ TwiceInv(d)'
<1>1. /\ pc[d] = "nodes" /\ pc'[d] = "nodes" /\ UNCHANGED <<kind, irqLine, handlers, held, blame>>
      /\ twice'[d] = twice[d]
  BY DEF CreateGroup, pciVars, irqVars, histVars
<1>2. major'[d] /\ region'[d]
  BY Types DEF CreateGroup
<1>3. PICK g : nodes'[d] = nodes[d] \cup {g} /\ flags'[d] = flags[d] \cup {g}
  BY Types DEF CreateGroup
<1>4. CdevInv(d)'
  BY <1>1, <1>2, <1>3, UpFacts DEF CdevInv, UpAt, CdevAt
<1> QED
  BY <1>1, <1>4, IrqUntouched DEF DevInv, TwiceInv

LEMMA CreateFailsKept ==
  ASSUME TypeOK, NEW d \in Dev, DevInv(d), create_xcdev_fails(d)
  PROVE  IrqInv(d)' /\ CdevInv(d)' /\ TwiceInv(d)'
<1>1. /\ pc[d] = "nodes" /\ pc'[d] = "fail" /\ UNCHANGED <<kind, irqLine, handlers, held>>
      /\ twice'[d] = twice[d] /\ flags'[d] = flags[d]
  BY Types DEF create_xcdev_fails, pciVars, irqVars, Goto
<1>2. PICK i \in Missing(d) :
        /\ \A j \in Missing(d) : i <= j
        /\ \/ nodes'[d] = nodes[d]
           \/ Groups[i] \in {"EVENT", "SG", "BYPASS"}
  BY Types DEF create_xcdev_fails
<1>3. \/ ~major[d] /\ UNCHANGED <<major, region, blame>>
      \/ Blame(d, "cdev")
  BY DEF create_xcdev_fails
<1>4. CASE ~major[d] /\ UNCHANGED <<major, region, blame>>
  <2>1. CASE "cdev" \notin blame[d]
    <3>1. flags[d] = {} /\ nodes[d] = {} /\ ~region[d]
      BY <1>1, <1>4, <2>1, UpFacts DEF CdevAt, UpAt
    <3>2. 1 \in Missing(d)
      BY <3>1 DEF Missing, Groups, Wanted
    <3>3. i = 1
      BY <1>2, <3>2 DEF Missing
    <3>4. nodes'[d] = nodes[d]
      BY <1>2, <3>3 DEF Groups
    <3>5. CdevInv(d)'
      BY <1>1, <1>4, <3>1, <3>4 DEF CdevInv, UpAt, CdevAt
    <3> QED
      BY <1>1, <1>4, <3>5, IrqUntouched DEF DevInv, TwiceInv
  <2>2. CASE "cdev" \in blame[d]
    <3>1. CdevInv(d)'
      BY <1>1, <1>4, <2>2 DEF CdevInv, UpAt
    <3> QED
      BY <1>1, <1>4, <3>1, IrqUntouched DEF DevInv, TwiceInv
  <2> QED
    BY <2>1, <2>2
<1>5. CASE Blame(d, "cdev")
  <2>1. blame'[d] = blame[d] \cup {"cdev"}
    BY <1>5, Types DEF Blame
  <2>2. CdevInv(d)' /\ TwiceInv(d)'
    BY <1>1, <2>1 DEF CdevInv, TwiceInv, UpAt
  <2> QED
    BY <1>1, <2>1, <2>2, IrqUntouched
<1> QED
  BY <1>3, <1>4, <1>5

LEMMA ProbeDoneKept ==
  ASSUME TypeOK, NEW d \in Dev, DevInv(d), ProbeDone(d)
  PROVE  IrqInv(d)' /\ CdevInv(d)' /\ TwiceInv(d)'
<1>1. /\ pc[d] = "nodes" /\ pc'[d] = "bound" /\ UNCHANGED <<kind, irqLine, handlers, held, blame>>
      /\ UNCHANGED <<twice, nodes, flags, region, major>>
  BY Types DEF ProbeDone, pciVars, irqVars, histVars, cdevVars, Goto
<1>2. CdevInv(d)'
  BY <1>1, UpFacts DEF CdevInv, UpAt, CdevAt
<1> QED
  BY <1>1, <1>2, IrqUntouched DEF DevInv, TwiceInv

LEMMA DestroyKept ==
  ASSUME TypeOK, NEW d \in Dev, DevInv(d), xpdev_destroy_interfaces(d)
  PROVE  IrqInv(d)' /\ CdevInv(d)' /\ TwiceInv(d)'
<1>1. /\ \/ pc[d] = "fail" /\ pc'[d] = "free"
         \/ pc[d] = "free" /\ pc'[d] = "c_irq"
      /\ UNCHANGED <<kind, irqLine, handlers, held, blame, flags, major>>
  BY Types DEF xpdev_destroy_interfaces, pciVars, irqVars, Goto
<1>2. nodes'[d] = nodes[d] \ flags[d] /\ (region'[d] <=> region[d] /\ ~major[d])
  BY Types DEF xpdev_destroy_interfaces, DestroyInterfaces
<1>3. twice'[d] = twice[d] \cup ((IF flags[d] \subseteq nodes[d] THEN {} ELSE {"nodes"})
                                   \cup (IF major[d] /\ ~region[d] THEN {"region"} ELSE {}))
  BY Types DEF xpdev_destroy_interfaces, DestroyInterfaces, Note
<1>4. "cdev" \notin blame[d] =>
         /\ nodes[d] = flags[d] /\ (region[d] <=> major[d]) /\ (~major[d] => flags[d] = {})
         /\ pc[d] = "fail" => ~major[d]
  BY <1>1, UpFacts DEF DevInv, CdevInv, CdevAt, UpAt
<1>5. CdevInv(d)'
  BY <1>1, <1>2, <1>4 DEF CdevInv, UpAt, CdevAt, CloseLabels
<1>6. TwiceInv(d)'
  BY <1>1, <1>3, <1>4 DEF DevInv, TwiceInv
<1> QED
  BY <1>1, <1>5, <1>6, IrqUntouched

LEMMA RemoveKept ==
  ASSUME TypeOK, NEW d \in Dev, DevInv(d), remove_one(d)
  PROVE  IrqInv(d)' /\ CdevInv(d)' /\ TwiceInv(d)'
<1>1. /\ pc'[d] = "free" /\ UNCHANGED <<kind, irqLine, handlers, held>>
      /\ UNCHANGED <<twice, nodes, flags, region, major>> /\ pc[d] \in {"bound", "frozen"}
      /\ \/ pc[d] = "bound" /\ UNCHANGED blame
         \/ pc[d] = "frozen" /\ blame'[d] = blame[d] \cup {"reset"}
  BY Types DEF remove_one, pciVars, irqVars, cdevVars, Goto, Blame
<1>2. CdevInv(d)' /\ TwiceInv(d)'
  BY <1>1, UpFacts DEF CdevInv, DevInv, TwiceInv, UpAt, CdevAt
<1>3. CASE pc[d] = "bound"
  BY <1>1, <1>2, <1>3, IrqUntouched
<1>4. CASE pc[d] = "frozen"
  <2>1. handlers[d] = {} /\ irqLine[d] /\ "reset" \in blame'[d]
    BY <1>1, <1>4, UpFacts DEF DevInv, IrqInv, UpAt
  <2>2. IrqInv(d)'
    BY <1>1, <2>1 DEF IrqInv, UpAt
  <2> QED
    BY <1>2, <2>2
<1> QED
  BY <1>1, <1>3, <1>4

\* irq_teardown() of a device that is up takes all its handlers away, and each
\* was there unless a reset went wrong.
LEMMA TeardownFacts ==
  ASSUME TypeOK, NEW d \in Dev, DevInv(d), irq_teardown(d), pc[d] \in {"bound", "c_irq"}
  PROVE  handlers'[d] = {} /\ ("reset" \notin blame[d] => NotHeld(d) = {})
<1>1. Registered(d)
  BY UpFacts DEF UpAt
<1>2. "reset" \notin blame[d] => handlers[d] = IrqAll(d)
  BY DEF DevInv, IrqInv
<1> QED
  BY <1>1, <1>2, Types DEF irq_teardown, NotHeld

LEMMA CloseIrqKept ==
  ASSUME TypeOK, NEW d \in Dev, DevInv(d), CloseIrq(d)
  PROVE  IrqInv(d)' /\ CdevInv(d)' /\ TwiceInv(d)'
<1>1. /\ pc[d] = "c_irq" /\ pc'[d] = "c_msi" /\ UNCHANGED <<blame, nodes, flags, region, major>>
      /\ twice'[d] = twice[d] \cup NotHeld(d) /\ irq_teardown(d)
  BY Types DEF CloseIrq, cdevVars, Goto, Note
<1>2. handlers'[d] = {} /\ ("reset" \notin blame[d] => NotHeld(d) = {})
  BY <1>1, TeardownFacts
<1>3. IrqInv(d)'
  BY <1>1, <1>2 DEF IrqInv, UpAt
<1>4. CdevInv(d)'
  BY <1>1 DEF DevInv, CdevInv, UpAt, CdevAt, CloseLabels
<1> QED
  BY <1>1, <1>2, <1>3, <1>4 DEF DevInv, TwiceInv

LEMMA OfflineKept ==
  ASSUME TypeOK, NEW d \in Dev, DevInv(d), xdma_error_detected(d) \/ xdma_reset_prepare(d)
  PROVE  IrqInv(d)' /\ CdevInv(d)' /\ TwiceInv(d)'
<1>1. /\ pc[d] = "bound" /\ pc'[d] \in {"frozen", "prepared"} /\ blame[d] = {} /\ irq_teardown(d)
      /\ UNCHANGED <<blame, nodes, flags, region, major, irqLine>>
  BY Types DEF xdma_error_detected, xdma_reset_prepare, cdevVars, Goto
<1>2. twice'[d] \subseteq twice[d] \cup NotHeld(d) \cup ({"enable"} \ held[d])
  BY Types DEF xdma_error_detected, xdma_reset_prepare, Note
<1>3. handlers'[d] = {} /\ NotHeld(d) = {} /\ "enable" \in held[d] /\ irqLine[d]
  BY <1>1, TeardownFacts, UpFacts DEF UpAt
<1>4. IrqInv(d)'
  BY <1>1, <1>3 DEF IrqInv, UpAt
<1>5. CdevInv(d)'
  BY <1>1, UpFacts DEF CdevInv, UpAt, CdevAt
<1>6. TwiceInv(d)'
  BY <1>1, <1>2, <1>3 DEF DevInv, TwiceInv
<1> QED
  BY <1>4, <1>5, <1>6

LEMMA OnlineKept ==
  ASSUME TypeOK, NEW d \in Dev, DevInv(d), xdma_slot_reset(d) \/ xdma_reset_done(d)
  PROVE  IrqInv(d)' /\ CdevInv(d)' /\ TwiceInv(d)'
<1>1. /\ pc[d] \in {"frozen", "prepared"} /\ pc'[d] = "bound" /\ xdma_device_online(d)
      /\ UNCHANGED <<twice, nodes, flags, region, major, kind>>
  BY Types DEF xdma_slot_reset, xdma_reset_done, cdevVars, pciVars, Goto
<1>2. "enable" \in held'[d]
  BY UpFacts, Types DEF xdma_slot_reset, xdma_reset_done, pciVars, Hold
<1>3. handlers[d] = {} /\ irqLine[d]
  BY <1>1, UpFacts DEF DevInv, IrqInv, UpAt
<1>4. /\ irqLine'[d] /\ blame[d] \subseteq blame'[d]
      /\ \/ handlers'[d] = IrqAll(d)
         \/ "reset" \in blame'[d] /\ handlers'[d] = {}
         \/ "reset" \in blame'[d] /\ kind[d] = "msix"
  <2>1. CASE pollMode /\ Blame(d, "reset") /\ UNCHANGED irqVars
    BY <1>3, <2>1, Types DEF Blame, irqVars
  <2>2. CASE irq_setup(d) /\ UNCHANGED blame
    BY <2>2, Types DEF irq_setup
  <2>3. CASE /\ \E S \in {{}, {"chan"}} : /\ S # {} => kind[d] = "msix"
                                          /\ handlers' = [handlers EXCEPT ![d] = S]
             /\ Blame(d, "reset") /\ UNCHANGED irqLine
    <3>1. PICK S : (S # {} => kind[d] = "msix") /\ handlers'[d] = S
      BY <2>3, Types
    <3>2. "reset" \in blame'[d] /\ blame[d] \subseteq blame'[d] /\ irqLine'[d]
      BY <1>3, <2>3, Types DEF Blame
    <3> QED
      BY <3>1, <3>2
  <2> QED
    BY <1>1, <2>1, <2>2, <2>3 DEF xdma_device_online
<1>5. IrqInv(d)'
  <2>1. IrqAll(d)' = IrqAll(d)
    BY <1>1 DEF IrqAll
  <2> QED
    BY <1>1, <1>2, <1>4, <2>1 DEF IrqInv, UpAt
<1>6. CdevInv(d)' /\ TwiceInv(d)'
  BY <1>1, <1>4, UpFacts DEF CdevInv, DevInv, TwiceInv, UpAt, CdevAt
<1> QED
  BY <1>5, <1>6

-----------------------------------------------------------------------------
(* A step of a device.                                                     *)

LEMMA DeviceKept ==
  ASSUME TypeOK, LifeInv, NEW d \in Dev, Step(d)
  PROVE  DevStep(d) /\ DevInv(d)'
<1>1. DevInv(d)
  BY DEF LifeInv
<1>2. HeldInv(d)' /\ EngsInv(d)' /\ ModInv(d)'
  BY <1>1, HeldKept, EngsKept, ModKept DEF DevInv
<1>3. IrqInv(d)' /\ CdevInv(d)' /\ TwiceInv(d)'
  <2>1. CASE Quiet(d)
    BY <1>1, <2>1, QuietKept
  <2>2. CASE ~Quiet(d)
    BY <1>1, <2>2, OpenIrqKept, CreateKept, CreateFailsKept, ProbeDoneKept, DestroyKept,
       RemoveKept, CloseIrqKept, OfflineKept, OnlineKept
    DEF Step, Open, Interfaces, Close, Recovery, Quiet, QuietOpen, QuietClose
  <2> QED
    BY <2>1, <2>2
<1>4. DevStep(d)
  BY OpenStep, InterfacesStep, CloseStep, RecoveryStep, ListStep
  DEF Step, Open, Interfaces, Close, Recovery
<1> QED
  BY <1>2, <1>3, <1>4 DEF DevInv

LEMMA OthersKept ==
  ASSUME TypeOK, LifeInv, NEW d \in Dev, Step(d), NEW e \in Dev, e # d
  PROVE  DevInv(e)' /\ pc'[e] = pc[e]
<1>1. /\ pc'[e] = pc[e] /\ held'[e] = held[e] /\ inUse'[e] = inUse[e] /\ kind'[e] = kind[e]
      /\ irqLine'[e] = irqLine[e] /\ handlers'[e] = handlers[e] /\ blame'[e] = blame[e]
      /\ major'[e] = major[e] /\ region'[e] = region[e] /\ flags'[e] = flags[e]
      /\ nodes'[e] = nodes[e] /\ twice'[e] = twice[e]
  BY DeviceKept DEF DevStep, Put
<1>2. engs'[e] = engs[e] /\ scanAt'[e] = scanAt[e] /\ pick'[e] = pick[e]
  BY EngsKept, ScanKept DEF Put
<1>3. mod' = mod /\ pollMode' = pollMode
  BY ModKept DEF LifeInv, DevInv
<1>4. DevInv(e)
  BY DEF LifeInv
<1>5. HeldInv(e)'
  BY <1>1, <1>4 DEF DevInv, HeldInv
<1>6. IrqInv(e)'
  BY <1>1, <1>4 DEF DevInv, IrqInv, IrqAll
<1>7. CdevInv(e)' /\ TwiceInv(e)'
  BY <1>1, <1>4 DEF DevInv, CdevInv, TwiceInv
<1>8. EngsInv(e)' /\ ModInv(e)'
  BY <1>1, <1>2, <1>3, <1>4 DEF DevInv, EngsInv, ModInv
<1> QED
  BY <1>1, <1>5, <1>6, <1>7, <1>8 DEF DevInv

LEMMA SharedKept ==
  ASSUME TypeOK, LifeInv, NEW d \in Dev, Step(d)
  PROVE  /\ ListInv' /\ PoolInv' /\ list' \in Seq(Dev) /\ pool' \in 0..MaxThreads
         /\ idx' \in [Dev -> 0..MaxIdx]
<1>1. CASE xdev_list_add(d)
  BY <1>1, DeviceJoins
<1>2. CASE xdev_list_remove(d)
  BY <1>2, DeviceLeaves
<1>3. CASE ~xdev_list_add(d) /\ ~xdev_list_remove(d)
  <2>1. UNCHANGED <<list, idx, pool, pollMode>>
    BY <1>3 DEF Step, Open, Interfaces, Close, Recovery, probe_one, ThreadsFail,
       EnableDevice, request_regions, map_bars, set_dma_mask, EngineFound, engine_init, ScanThread,
       xdma_thread_add_work, EnginesDone,
       enable_msi_msix, OpenIrq, CreateGroup, create_xcdev_fails, ProbeDone,
       xpdev_destroy_interfaces, remove_one, CloseIrq, disable_msi_msix, remove_engines,
       unmap_bars, ReleaseRegions, Disable, xdma_error_detected, xdma_slot_reset,
       xdma_reset_prepare, xdma_reset_done, listVars, poolVars
  <2>2. pc'[d] \in UnlistedAt <=> pc[d] \in UnlistedAt
    <3>1. CASE Open(d)
      BY <1>3, <3>1, Types DEF Open, probe_one, ThreadsFail, EnableDevice, request_regions,
         map_bars, set_dma_mask, EngineFound, engine_init, ScanThread, xdma_thread_add_work,
         EnginesDone, enable_msi_msix, OpenIrq, Goto,
         UnlistedAt
    <3>2. CASE ~Open(d)
      BY <1>3, <3>2, Types DEF Step, Interfaces, Close, Recovery, CreateGroup,
         create_xcdev_fails, ProbeDone, xpdev_destroy_interfaces, remove_one, CloseIrq,
         disable_msi_msix, remove_engines, unmap_bars, ReleaseRegions, Disable,
         xdma_error_detected, xdma_slot_reset, xdma_reset_prepare, xdma_reset_done, Goto,
         UnlistedAt
    <3> QED
      BY <3>1, <3>2
  <2>3. \A e \in Dev : pc'[e] \in UnlistedAt <=> pc[e] \in UnlistedAt
    BY <2>2, OthersKept
  <2>4. ListInv'
    BY <2>1, <2>3, ListKept DEF LifeInv
  <2>5. PoolInv'
    <3>1. CASE EngineFound(d) \/ remove_engines(d)
      <4>1. CASE EngineFound(d)
        <5>1. CASE \E t : EngineTo(d, t)
          BY <5>1, EngineComes
        <5>2. CASE UNCHANGED <<engs, load, pollMode, list, pool>>
          BY <5>2, PoolKept DEF LifeInv
        <5> QED
          BY <4>1, <5>1, <5>2, EngineFoundIs
      <4> QED
        BY <3>1, <4>1, EnginesGo
    <3>2. CASE ~EngineFound(d) /\ ~remove_engines(d)
      <4>1. UNCHANGED <<engs, load>>
        BY <1>3, <3>2 DEF Step, Open, Interfaces, Close, Recovery, probe_one, ThreadsFail,
           EnableDevice, request_regions, map_bars, set_dma_mask, EnginesDone,
           enable_msi_msix, OpenIrq, CreateGroup, create_xcdev_fails, ProbeDone,
           xpdev_destroy_interfaces, remove_one, CloseIrq, disable_msi_msix,
           unmap_bars, ReleaseRegions, Disable, xdma_error_detected, xdma_slot_reset,
           xdma_reset_prepare, xdma_reset_done, poolVars, engVars
      <4> QED
        BY <2>1, <4>1, PoolKept DEF LifeInv
    <3> QED
      BY <3>1, <3>2
  <2> QED
    BY <2>1, <2>4, <2>5, SeqTypes
<1> QED
  BY <1>1, <1>2, <1>3

\* work_cnt of a thread counts engines, so it is never negative.
LEMMA LoadTyped ==
  ASSUME TypeOK, LifeInv, NEW d \in Dev, Step(d)
  PROVE  load' \in [1..MaxThreads -> Nat]
<1>1. \A t \in 1..MaxThreads : load'[t] \in Nat
  <2>1. PoolInv'
    BY SharedKept
  <2>2. ASSUME NEW t
        PROVE  Cardinality(Work(t)') \in Nat
    <3>1. Work(t)' \in SUBSET (Dev \X (1..MaxChannels))
      BY DEF Work
    <3>2. IsFiniteSet(Work(t)')
      BY <3>1, WorkFinite, FS_Subset
    <3> QED
      BY <3>2, FS_CardinalityType
  <2> QED
    BY <2>1, <2>2 DEF PoolInv
<1>2. \/ load' = load
      \/ \E t : load' = [load EXCEPT ![t] = @ + 1]
      \/ load' = WithoutEngines(d)
  <2>1. CASE EngineFound(d)
    BY <2>1 DEF EngineFound, engine_init, ScanThread, xdma_thread_add_work, poolVars
  <2>2. CASE remove_engines(d)
    BY <2>2 DEF remove_engines
  <2>3. CASE ~EngineFound(d) /\ ~remove_engines(d)
    BY <2>3 DEF Step, Open, Interfaces, Close, Recovery, probe_one, ThreadsFail, xdev_list_add,
       EnableDevice, request_regions, map_bars, set_dma_mask, EnginesDone, xdev_list_remove,
       enable_msi_msix, OpenIrq, CreateGroup, create_xcdev_fails, ProbeDone,
       xpdev_destroy_interfaces, remove_one, CloseIrq, disable_msi_msix,
       unmap_bars, ReleaseRegions, Disable, xdma_error_detected, xdma_slot_reset,
       xdma_reset_prepare, xdma_reset_done, poolVars
  <2> QED
    BY <2>1, <2>2, <2>3
<1>3. load \in [1..MaxThreads -> Nat]
  BY SeqTypes
<1>4. CASE load' = load
  BY <1>3, <1>4
<1>5. CASE \E t : load' = [load EXCEPT ![t] = @ + 1]
  BY <1>1, <1>3, <1>5
<1>6. CASE load' = WithoutEngines(d)
  BY <1>1, <1>3, <1>6 DEF WithoutEngines
<1> QED
  BY <1>2, <1>4, <1>5, <1>6

LEMMA FaultsTyped ==
  ASSUME TypeOK, NEW d \in Dev, Step(d)
  PROVE  faults' \in 0..MaxFaults /\ modBlame' \subseteq {"load", "threads"}
<1>1. Fault \/ UNCHANGED faults
  BY DEF Step, Open, Interfaces, Close, Recovery, probe_one, ThreadsFail, xdev_list_add,
     EnableDevice, request_regions, map_bars, set_dma_mask, EngineFound, engine_init, ScanThread,
     xdma_thread_add_work, EnginesDone,
     xdev_list_remove, enable_msi_msix, OpenIrq, CreateGroup, create_xcdev_fails, ProbeDone,
     xpdev_destroy_interfaces, remove_one, CloseIrq, disable_msi_msix, remove_engines,
     unmap_bars, ReleaseRegions, Disable, xdma_error_detected, xdma_slot_reset,
     xdma_reset_prepare, xdma_reset_done, histVars, NoFault
<1>2. modBlame' \subseteq modBlame \cup {"threads"}
  BY DEF Step, Open, Interfaces, Close, Recovery, probe_one, ThreadsFail, xdev_list_add,
     EnableDevice, request_regions, map_bars, set_dma_mask, EngineFound, engine_init, ScanThread,
     xdma_thread_add_work, EnginesDone,
     xdev_list_remove, enable_msi_msix, OpenIrq, CreateGroup, create_xcdev_fails, ProbeDone,
     xpdev_destroy_interfaces, remove_one, CloseIrq, disable_msi_msix, remove_engines,
     unmap_bars, ReleaseRegions, Disable, xdma_error_detected, xdma_slot_reset,
     xdma_reset_prepare, xdma_reset_done
<1>3. faults \in 0..MaxFaults /\ modBlame \subseteq {"load", "threads"}
  BY DEF TypeOK
<1> QED
  BY <1>1, <1>2, <1>3, LifecycleAssumption DEF Fault, LifecycleAssumption

LEMMA StepKept ==
  ASSUME TypeOK, LifeInv, NEW d \in Dev, Step(d)
  PROVE  TypeOK' /\ LifeInv'
<1>1. LifeInv'
  <2>1. \A e \in Dev : DevInv(e)'
    BY DeviceKept, OthersKept
  <2>2. ModInv(d)
    BY DEF LifeInv, DevInv
  <2>3. mod' # "absent" => class' /\ cache'
    BY <2>2, ModKept DEF LifeInv
  <2> QED
    BY <2>1, <2>3, SharedKept DEF LifeInv
<1>2. /\ pc' \in [Dev -> Labels] /\ held' \in [Dev -> SUBSET Resources]
      /\ inUse' \in [Dev -> BOOLEAN] /\ extra' \in [Dev -> SUBSET ExtraBars]
      /\ kind' \in [Dev -> KindSet] /\ irqLine' \in [Dev -> BOOLEAN]
      /\ handlers' \in [Dev -> SUBSET HandlerSet] /\ blame' \in [Dev -> SUBSET BlameSet]
      /\ major' \in [Dev -> BOOLEAN] /\ region' \in [Dev -> BOOLEAN]
      /\ flags' \in [Dev -> SUBSET GroupSet] /\ nodes' \in [Dev -> SUBSET GroupSet]
      /\ twice' \in [Dev -> SUBSET TwiceSet]
  BY DeviceKept DEF DevStep, Put
<1>3. /\ list' \in Seq(Dev) /\ pool' \in 0..MaxThreads /\ idx' \in [Dev -> 0..MaxIdx]
      /\ load' \in [1..MaxThreads -> Nat] /\ faults' \in 0..MaxFaults
      /\ modBlame' \subseteq {"load", "threads"}
  BY SharedKept, LoadTyped, FaultsTyped
<1>4. /\ engs' \in [Dev -> Seq(0..MaxThreads)]
      /\ scanAt' \in [Dev -> 0..(MaxThreads + 1)] /\ pick' \in [Dev -> 0..MaxThreads]
      /\ first' \in [Dev -> Nat] /\ raced' \in [Dev -> SUBSET (1..MaxThreads)]
  BY EngsKept, ScanKept DEF Put
<1>5. UNCHANGED <<pollMode, mod, class, cache>>
  BY ModKept DEF LifeInv, DevInv
<1>6. TypeOK'
  BY <1>2, <1>3, <1>4, <1>5
  DEF TypeOK, Resources, ExtraBars, KindSet, HandlerSet, BlameSet, TwiceSet
<1> QED
  BY <1>1, <1>6

-----------------------------------------------------------------------------
(* Module load and unload.                                                 *)

LEMMA ModuleKept ==
  ASSUME TypeOK, LifeInv, Module
  PROVE  TypeOK' /\ LifeInv'
<1>1. UNCHANGED <<pollMode, list, idx, pool, load, pc, held, inUse, kind, irqLine, handlers,
                  engs, scanAt, pick, first, raced, extra, major, region, flags, nodes,
                  twice, blame>>
  BY DEF Module, xdma_cdev_init, RegisterDriver, xdma_mod_exit, xdma_cdev_cleanup, listVars,
     engVars, scanVars, poolVars, pciVars, irqVars, cdevVars, histVars
<1>2. /\ mod' \in {"absent", "register", "loaded", "unload"}
      /\ class' \in BOOLEAN /\ cache' \in BOOLEAN
      /\ modBlame' \subseteq modBlame \cup {"load"} /\ (Fault \/ UNCHANGED faults)
  BY DEF TypeOK, Module, xdma_cdev_init, RegisterDriver, xdma_mod_exit, xdma_cdev_cleanup,
     NoFault, histVars
<1>3. mod' # "absent" => class' /\ cache'
  BY DEF LifeInv, Module, xdma_cdev_init, RegisterDriver, xdma_mod_exit, xdma_cdev_cleanup
<1>4. \A d \in Dev : pc[d] # "absent" => mod' \in {"loaded", "unload"}
  <2>1. \A d \in Dev : pc[d] # "absent" => mod \in {"loaded", "unload"}
    BY DEF LifeInv, DevInv, ModInv
  <2> QED
    BY <2>1 DEF Module, xdma_cdev_init, RegisterDriver, xdma_mod_exit, xdma_cdev_cleanup
<1>5. faults' \in 0..MaxFaults /\ modBlame' \subseteq {"load", "threads"}
  <2>1. faults \in 0..MaxFaults /\ modBlame \subseteq {"load", "threads"}
    BY DEF TypeOK
  <2> QED
    BY <1>2, <2>1, LifecycleAssumption DEF Fault, LifecycleAssumption
<1>6. TypeOK'
  BY <1>1, <1>2, <1>5 DEF TypeOK
<1>7. ASSUME NEW d \in Dev
      PROVE  DevInv(d)'
  <2>1. DevInv(d)
    BY DEF LifeInv
  <2>2. HeldInv(d)' /\ CdevInv(d)' /\ TwiceInv(d)' /\ EngsInv(d)'
    BY <1>1, <2>1 DEF DevInv, HeldInv, CdevInv, TwiceInv, EngsInv
  <2>3. IrqInv(d)'
    BY <1>1, <2>1 DEF DevInv, IrqInv, IrqAll
  <2>4. ModInv(d)'
    BY <1>1, <1>4 DEF ModInv
  <2> QED
    BY <2>2, <2>3, <2>4 DEF DevInv
<1>8. ListInv' /\ PoolInv'
  BY <1>1, ListKept, PoolKept DEF LifeInv
<1> QED
  BY <1>3, <1>6, <1>7, <1>8 DEF LifeInv

LEMMA StutterKept ==
  ASSUME TypeOK, LifeInv, UNCHANGED vars
  PROVE  TypeOK' /\ LifeInv'
<1>1. UNCHANGED <<pollMode, list, idx, pool, load, pc, held, inUse, kind, irqLine, handlers,
                  engs, scanAt, pick, first, raced, extra, major, region, flags, nodes,
                  twice, blame, mod, class, cache, modBlame, faults>>
  BY DEF vars, engVars, scanVars, modVars, listVars, poolVars, pciVars, irqVars, cdevVars, histVars
<1>2. TypeOK'
  BY <1>1 DEF TypeOK
<1>3. ASSUME NEW d \in Dev
      PROVE  DevInv(d)'
  <2>1. DevInv(d)
    BY DEF LifeInv
  <2>2. HeldInv(d)' /\ CdevInv(d)' /\ TwiceInv(d)' /\ EngsInv(d)' /\ ModInv(d)'
    BY <1>1, <2>1 DEF DevInv, HeldInv, CdevInv, TwiceInv, EngsInv, ModInv
  <2>3. IrqInv(d)'
    BY <1>1, <2>1 DEF DevInv, IrqInv, IrqAll
  <2> QED
    BY <2>2, <2>3 DEF DevInv
<1>4. ListInv' /\ PoolInv'
  BY <1>1, ListKept, PoolKept DEF LifeInv
<1> QED
  BY <1>1, <1>2, <1>3, <1>4 DEF LifeInv

LEMMA InitSafe ==
  ASSUME Init
  PROVE  TypeOK /\ LifeInv
<1>1. TypeOK
  <2>1. <<>> \in Seq(Dev) /\ <<>> \in Seq(0..MaxThreads)
    BY EmptySeq
  <2>2. /\ idx \in [Dev -> 0..MaxIdx] /\ pool \in 0..MaxThreads /\ faults \in 0..MaxFaults
        /\ load \in [1..MaxThreads -> Nat]
    BY LifecycleAssumption DEF LifecycleAssumption, Init
  <2>3. engs \in [Dev -> Seq(0..MaxThreads)] /\ list \in Seq(Dev)
    BY <2>1 DEF Init
  <2>4. pc \in [Dev -> Labels]
    BY DEF Init, Labels
  <2>5. /\ scanAt \in [Dev -> 0..(MaxThreads + 1)] /\ pick \in [Dev -> 0..MaxThreads]
        /\ first \in [Dev -> Nat] /\ raced \in [Dev -> SUBSET (1..MaxThreads)]
    BY LifecycleAssumption DEF LifecycleAssumption, Init
  <2> QED
    BY <2>2, <2>3, <2>4, <2>5 DEF Init, TypeOK
<1>2. ASSUME NEW d \in Dev
      PROVE  DevInv(d) /\ engs[d] = <<>> /\ Len(engs[d]) = 0
  <2>1. /\ pc[d] = "absent" /\ held[d] = {} /\ ~inUse[d] /\ handlers[d] = {} /\ flags[d] = {}
        /\ ~major[d] /\ nodes[d] = {} /\ ~region[d] /\ twice[d] = {} /\ engs[d] = <<>>
        /\ scanAt[d] = 0
    BY DEF Init
  <2>2. Len(engs[d]) = 0
    BY <2>1, EmptySeq
  <2>3. HeldInv(d)
    BY <2>1 DEF HeldInv, EnabledAt, RegionsAt, BarsAt, EnginesAt, VectorsAt, UpAt, ClosingAt
  <2>4. IrqInv(d) /\ CdevInv(d) /\ TwiceInv(d) /\ ModInv(d)
    BY <2>1 DEF IrqInv, CdevInv, TwiceInv, ModInv, UpAt, CdevAt, CloseLabels
  <2>5. EngsInv(d)
    BY <2>1, <2>2, LifecycleAssumption DEF EngsInv, LifecycleAssumption
  <2> QED
    BY <2>1, <2>2, <2>3, <2>4, <2>5 DEF DevInv
<1>3. ListInv
  <2>1. Len(list) = 0 /\ \A d \in Dev : pc[d] = "absent"
    BY EmptySeq DEF Init
  <2> QED
    BY <2>1 DEF ListInv, UnlistedAt
<1>4. PoolInv
  <2>1. ASSUME NEW t \in 1..MaxThreads
        PROVE  load[t] = Cardinality(Work(t))
    <3>1. \A d \in Dev : On(t, d) = {}
      BY <1>2 DEF On
    <3>2. Work(t) = {}
      BY <3>1 DEF Work
    <3> QED
      BY <3>2, FS_EmptySet DEF Init
  <2>2. \A d \in Dev : \A i \in 1..Len(engs[d]) : FALSE
    BY <1>2
  <2> QED
    BY <2>1, <2>2 DEF PoolInv, Init
<1> QED
  BY <1>1, <1>2, <1>3, <1>4 DEF LifeInv, Init

LEMMA LifeSafe == Spec => [](TypeOK /\ LifeInv)
<1>1. Init => TypeOK /\ LifeInv
  BY InitSafe
<1>2. TypeOK /\ LifeInv /\ [Next]_vars => (TypeOK /\ LifeInv)'
  <2> SUFFICES ASSUME TypeOK, LifeInv, [Next]_vars
               PROVE  (TypeOK /\ LifeInv)'
    OBVIOUS
  <2>1. Module \/ (\E d \in Dev : Step(d)) \/ UNCHANGED vars
    BY DEF Next, Step
  <2> QED
    BY <2>1, ModuleKept, StepKept, StutterKept
<1> QED
  BY <1>1, <1>2, PTL DEF Spec

-----------------------------------------------------------------------------
(* The theorems.                                                           *)

\* Every variable keeps its type; the work_cnt of a thread never falls below
\* zero.
THEOREM TypeCorrect == Spec => []TypeOK
BY LifeSafe, PTL

\* Whatever step a probe fails at, and however a device is removed, nothing is
\* left behind and nothing released twice, but for the failures the driver does
\* not recover from.
THEOREM ExitIsClean == Spec => []CleanExit
<1>1. TypeOK /\ LifeInv => CleanExit
  <2> SUFFICES ASSUME TypeOK, LifeInv, NEW d \in Dev, blame[d] = {}
               PROVE  /\ twice[d] = {}
                      /\ pc[d] = "absent" =>
                           /\ held[d] = IF inUse[d] THEN {"enable"} ELSE {}
                           /\ handlers[d] = {} /\ engs[d] = <<>> /\ nodes[d] = {} /\ ~region[d]
                           /\ \A i \in 1..Len(list) : list[i] # d
    BY DEF CleanExit
  <2>1. DevInv(d) /\ ListInv
    BY DEF LifeInv
  <2>2. twice[d] = {}
    BY <2>1 DEF DevInv, TwiceInv
  <2>3. ASSUME pc[d] = "absent"
        PROVE  held[d] = IF inUse[d] THEN {"enable"} ELSE {}
    <3>1. held[d] \subseteq Resources
      BY Types
    <3>2. "regions" \notin held[d] /\ "bars" \notin held[d] /\ "engines" \notin held[d]
          /\ "vectors" \notin held[d] /\ ("enable" \in held[d] <=> inUse[d])
      BY <2>1, <2>3 DEF DevInv, HeldInv, RegionsAt, BarsAt, EnginesAt, VectorsAt, UpAt
    <3> QED
      BY <3>1, <3>2 DEF Resources
  <2>4. ASSUME pc[d] = "absent"
        PROVE  handlers[d] = {} /\ engs[d] = <<>> /\ nodes[d] = {} /\ ~region[d]
    BY <2>1, <2>4 DEF DevInv, IrqInv, CdevInv, EngsInv, EnginesAt, VectorsAt, UpAt, CdevAt
  <2>5. ASSUME pc[d] = "absent"
        PROVE  \A i \in 1..Len(list) : list[i] # d
    BY <2>1, <2>5 DEF ListInv, UnlistedAt
  <2> QED
    BY <2>2, <2>3, <2>4, <2>5
<1> QED
  BY <1>1, LifeSafe, PTL

\* A registered interrupt handler always finds the BARs, the engines, the
\* vectors and the enabled device it uses.
THEOREM HandlersBacked == Spec => []HandlerBacked
<1>1. TypeOK /\ LifeInv => HandlerBacked
  <2> SUFFICES ASSUME TypeOK, LifeInv, NEW d \in Dev, handlers[d] # {}, "irq" \notin blame[d]
               PROVE  /\ {"bars", "engines", "enable"} \subseteq held[d]
                      /\ handlers[d] # {"dev"} => "vectors" \in held[d]
    BY DEF HandlerBacked
  <2>1. HeldInv(d) /\ IrqInv(d) /\ DevInv(d)
    BY DEF LifeInv, DevInv
  <2>2. pc[d] \in {"nodes", "fail", "bound", "free", "c_irq"}
    BY <2>1 DEF IrqInv, UpAt
  <2>3. "enable" \in held[d] /\ (handlers[d] = IrqAll(d) \/ kind[d] = "msix")
    BY <2>1, <2>2, UpFacts DEF IrqInv
  <2>4. "bars" \in held[d] /\ "engines" \in held[d]
        /\ ("vectors" \in held[d] <=> kind[d] # "legacy")
    BY <2>1, <2>2 DEF HeldInv, BarsAt, EnginesAt, VectorsAt, UpAt
  <2>5. handlers[d] # {"dev"} => kind[d] = "msix"
    BY <2>3 DEF IrqAll
  <2> QED
    BY <2>3, <2>4, <2>5
<1> QED
  BY <1>1, LifeSafe, PTL

\* The character devices of two devices never have the same name.
THEOREM NamesDiffer == Spec => []NamesUnique
<1>1. TypeOK /\ LifeInv => NamesUnique
  <2> SUFFICES ASSUME TypeOK, LifeInv, NEW d \in Dev, NEW e \in Dev, d # e,
                      nodes[d] # {}, nodes[e] # {}, "cdev" \notin blame[d] \cup blame[e]
               PROVE  idx[d] # idx[e]
    BY DEF NamesUnique
  <2>1. CdevInv(d) /\ CdevInv(e) /\ ListInv
    BY DEF LifeInv, DevInv
  <2>2. pc[d] \notin UnlistedAt /\ pc[e] \notin UnlistedAt
    BY <2>1 DEF CdevInv, CdevAt, UpAt, UnlistedAt
  <2>3. PICK j \in 1..Len(list), k \in 1..Len(list) : list[j] = d /\ list[k] = e
    BY <2>1, <2>2 DEF ListInv
  <2>4. j < k \/ k < j
    BY <2>3, SeqTypes
  <2>5. idx[d] < idx[e] \/ idx[e] < idx[d]
    BY <2>1, <2>3, <2>4 DEF ListInv
  <2>6. idx[d] \in Int /\ idx[e] \in Int
    BY SeqTypes
  <2> QED
    BY <2>5, <2>6
<1> QED
  BY <1>1, LifeSafe, PTL

\* In polled mode every engine is on a thread of the pool, the pool lives as
\* long as a device is listed, and work_cnt is the number of engines.
THEOREM PoolCorrect == Spec => []PoolServes
<1>1. TypeOK /\ LifeInv => PoolServes
  <2> SUFFICES ASSUME TypeOK, LifeInv, pollMode
               PROVE  /\ pool > 0 <=> list # <<>>
                      /\ \A d \in Dev : \A i \in 1..Len(engs[d]) : engs[d][i] \in 1..pool
                      /\ \A t \in 1..MaxThreads : load[t] = Cardinality(Work(t))
    BY DEF PoolServes, Work, On
  <2>1. PoolInv
    BY DEF LifeInv
  <2>2. pool > 0 <=> list # <<>>
    BY <2>1, LifecycleAssumption DEF PoolInv, LifecycleAssumption
  <2>3. ASSUME NEW d \in Dev, NEW i \in 1..Len(engs[d])
        PROVE  engs[d][i] \in 1..pool
    <3>1. engs[d] # <<>>
      BY EngsTypes, EmptySeq
    <3>2. pc[d] \notin UnlistedAt
      BY <3>1 DEF LifeInv, DevInv, EngsInv, EnginesAt, VectorsAt, UpAt, UnlistedAt
    <3>3. pool = MaxThreads
      BY <3>2, ListedPool
    <3> QED
      BY <2>1, <3>3 DEF PoolInv
  <2> QED
    BY <2>1, <2>2, <2>3 DEF PoolInv
<1> QED
  BY <1>1, LifeSafe, PTL

\* The class and the cache outlive every character device.
THEOREM ClassLives == Spec => []ClassOutlives
<1>1. TypeOK /\ LifeInv => ClassOutlives
  <2> SUFFICES ASSUME TypeOK, LifeInv, NEW d \in Dev, nodes[d] # {}, "cdev" \notin blame[d]
               PROVE  class /\ cache
    BY DEF ClassOutlives
  <2>1. CdevInv(d) /\ ModInv(d)
    BY DEF LifeInv, DevInv
  <2>2. pc[d] # "absent"
    BY <2>1 DEF CdevInv, CdevAt, UpAt
  <2> QED
    BY <2>1, <2>2 DEF LifeInv, ModInv
<1> QED
  BY <1>1, LifeSafe, PTL

-----------------------------------------------------------------------------
(* The search for a thread, while other devices add and remove engines.    *)

\* What a search has seen so far, of the threads nobody else has touched: thread
\* 1 has the work it had; those looked at are busy while the search goes on; and
\* when the choice is busy, an idle one is still to come.
ScanInv(d) ==
  scanAt[d] # 0 =>
    /\ scanAt[d] >= 2
    /\ 1 \notin raced[d] => first[d] = load[1]
    /\ scanAt[d] <= pool =>
         \A u \in 2..(scanAt[d] - 1) : u \in raced[d] \/ load[u] > 0
    /\ \A u \in 1..pool :
         \/ pick[d] \in raced[d] \/ load[pick[d]] = 0
         \/ u \in raced[d] \/ load[u] > 0 \/ u >= scanAt[d]

\* What other devices change of the work of the threads they leave a mark on.
LEMMA OthersRace ==
  ASSUME TypeOK, LifeInv, NEW d \in Dev, Step(d), NEW e \in Dev, e # d, scanAt[e] # 0
  PROVE  /\ pool' = pool /\ raced[e] \subseteq raced'[e]
         /\ scanAt'[e] = scanAt[e] /\ pick'[e] = pick[e] /\ first'[e] = first[e]
         /\ \A t \in 1..MaxThreads : load'[t] = load[t] \/ t \in raced'[e]
<1>1. scanAt'[e] = scanAt[e] /\ pick'[e] = pick[e] /\ first'[e] = first[e]
  BY ScanKept DEF Put
<1>2. pool' = pool
  <2>1. pc[e] = "engines" /\ pollMode
    BY DEF LifeInv, DevInv, EngsInv
  <2>2. pool = MaxThreads
    BY <2>1, ListedPool DEF UnlistedAt
  <2>3. ListInv' /\ PoolInv' /\ list' \in Seq(Dev) /\ pc'[e] = pc[e] /\ pollMode' = pollMode
    BY SharedKept, OthersKept, ModKept DEF LifeInv, DevInv
  <2>4. \E k \in 1..Len(list') : list'[k] = e
    BY <2>1, <2>3 DEF ListInv, UnlistedAt
  <2>5. list' # <<>>
    <3>1. list' = <<>> => Len(list') = 0
      BY EmptySeq
    <3> QED
      BY <2>4, <3>1
  <2> QED
    BY <2>1, <2>2, <2>3, <2>5 DEF PoolInv
<1>3. raced[e] \subseteq raced'[e] /\ \A t \in 1..MaxThreads : load'[t] = load[t] \/ t \in raced'[e]
  <2>1. CASE xdma_thread_add_work(d)
    <3>1. /\ load' = [load EXCEPT ![pick[d]] = @ + 1] /\ raced' = Race(d, {pick[d]})
      BY <2>1 DEF xdma_thread_add_work
    <3>2. raced'[e] = raced[e] \cup {pick[d]}
      BY <3>1 DEF Race
    <3> QED
      BY <3>1, <3>2, SeqTypes
  <2>2. CASE remove_engines(d)
    <3>1. PICK T : T = {engs[d][i] : i \in 1..Len(engs[d])} \ {0}
      OBVIOUS
    <3>2. load' = WithoutEngines(d) /\ raced' = Race(d, T)
      BY <2>2, <3>1 DEF remove_engines
    <3>3. raced'[e] = raced[e] \cup T
      BY <3>2 DEF Race
    <3>4. ASSUME NEW t \in 1..MaxThreads, t \notin T
          PROVE  load'[t] = load[t]
      <4>1. On(t, d) = {}
        BY <3>1, <3>4 DEF On
      <4>2. Cardinality(On(t, d)) = 0
        BY <4>1, FS_EmptySet
      <4>3. load'[t] = load[t] - Cardinality(On(t, d))
        BY <3>2, SeqTypes DEF WithoutEngines, On
      <4>4. load[t] \in Nat
        BY SeqTypes
      <4> QED
        BY <4>2, <4>3, <4>4
    <3> QED
      BY <3>3, <3>4
  <2>3. CASE engine_init(d) \/ ScanThread(d)
    BY <2>3 DEF engine_init, ScanThread, poolVars, scanVars
  <2>4. CASE ~EngineFound(d) /\ ~remove_engines(d)
    <3>1. load' = load /\ raced' = raced
      BY <2>4 DEF Step, Open, Interfaces, Close, Recovery, probe_one, xdev_list_add, ThreadsFail,
       EnableDevice, request_regions, map_bars, set_dma_mask, EnginesDone, enable_msi_msix,
       OpenIrq, CreateGroup, create_xcdev_fails, ProbeDone, xpdev_destroy_interfaces, remove_one,
       CloseIrq, disable_msi_msix, unmap_bars, ReleaseRegions, Disable, xdev_list_remove,
       xdma_error_detected, xdma_slot_reset, xdma_reset_prepare, xdma_reset_done,
       engVars, scanVars, poolVars
    <3> QED
      BY <3>1
  <2> QED
    BY <2>1, <2>2, <2>3, <2>4 DEF EngineFound
<1> QED
  BY <1>1, <1>2, <1>3

\* The search itself looks at one more thread.
LEMMA ScanStep ==
  ASSUME TypeOK, LifeInv, NEW d \in Dev, ScanInv(d), ScanThread(d)
  PROVE  ScanInv(d)'
<1>1. PICK t : t = scanAt[d]
  OBVIOUS
<1>2. /\ t \in 2..pool /\ pool \in 0..MaxThreads /\ MaxThreads \in Nat
      /\ load \in [1..MaxThreads -> Nat] /\ first[d] \in Nat
  BY <1>1, SeqTypes, ScanTypes, LifecycleAssumption DEF LifecycleAssumption, ScanThread
<1>3. /\ scanAt'[d] = (IF load[t] = 0 THEN pool + 1 ELSE t + 1)
      /\ pick'[d] = (IF Takes(d, t) THEN t ELSE pick[d])
      /\ UNCHANGED <<first, raced, load, pool>>
  BY <1>1, ScanTypes DEF ScanThread, poolVars
<1>4. pick[d] \in 1..MaxThreads
  BY <1>1, <1>2 DEF LifeInv, DevInv, EngsInv
<1>5. /\ 1 \notin raced[d] => first[d] = load[1]
      /\ \A u \in 2..(t - 1) : u \in raced[d] \/ load[u] > 0
      /\ \A u \in 1..pool :
           \/ pick[d] \in raced[d] \/ load[pick[d]] = 0
           \/ u \in raced[d] \/ load[u] > 0 \/ u >= t
  BY <1>1, <1>2 DEF ScanInv
<1>6. CASE load[t] = 0
  <2>1. scanAt'[d] = pool + 1 /\ pick'[d] = t
    BY <1>3, <1>6 DEF Takes
  <2> QED
    BY <1>2, <1>3, <1>5, <1>6, <2>1 DEF ScanInv
<1>7. CASE load[t] # 0
  <2>1. scanAt'[d] = t + 1 /\ load[t] > 0
    BY <1>2, <1>3, <1>7
  <2>2. \A u \in 2..t : u \in raced[d] \/ load[u] > 0
    BY <1>2, <1>5, <2>1
  <2>3. ASSUME NEW u \in 1..pool
        PROVE  \/ pick'[d] \in raced[d] \/ load[pick'[d]] = 0
               \/ u \in raced[d] \/ load[u] > 0 \/ u >= t + 1
    <3>1. CASE u \in 2..t
      BY <2>2, <3>1
    <3>2. CASE u > t
      BY <1>2, <3>2
    <3>3. CASE u = 1 /\ load[t] < first[d]
      BY <1>2, <1>5, <3>3
    <3>4. CASE u = 1 /\ ~(load[t] < first[d])
      <4>1. pick'[d] = pick[d]
        BY <1>3, <1>7, <3>4 DEF Takes
      <4> QED
        BY <1>2, <1>5, <3>4, <4>1
    <3> QED
      BY <1>2, <3>1, <3>2, <3>3, <3>4
  <2> QED
    BY <1>2, <1>3, <1>5, <2>1, <2>2, <2>3 DEF ScanInv
<1> QED
  BY <1>6, <1>7

LEMMA ScanInvKept ==
  ASSUME TypeOK, LifeInv, NEW e \in Dev, ScanInv(e), [Next]_vars
  PROVE  ScanInv(e)'
<1>0. MaxThreads \in Nat \ {0} /\ pool \in 0..MaxThreads /\ load \in [1..MaxThreads -> Nat]
  BY SeqTypes, LifecycleAssumption DEF LifecycleAssumption
<1>1. CASE Module \/ UNCHANGED vars
  <2>1. UNCHANGED <<scanAt, pick, first, raced, load, pool>>
    BY <1>1 DEF Module, xdma_cdev_init, RegisterDriver, xdma_mod_exit, xdma_cdev_cleanup,
       vars, engVars, scanVars, poolVars
  <2> QED
    BY <2>1 DEF ScanInv
<1>2. ASSUME NEW d \in Dev, Step(d), d # e
      PROVE  ScanInv(e)'
  <2>1. CASE scanAt[e] = 0
    <3>1. scanAt'[e] = 0
      BY <1>2, <2>1, ScanKept DEF Put
    <3> QED
      BY <3>1 DEF ScanInv
  <2>2. CASE scanAt[e] # 0
    <3>1. /\ pool' = pool /\ raced[e] \subseteq raced'[e]
          /\ scanAt'[e] = scanAt[e] /\ pick'[e] = pick[e] /\ first'[e] = first[e]
          /\ \A t \in 1..MaxThreads : load'[t] = load[t] \/ t \in raced'[e]
      BY <1>2, <2>2, OthersRace
    <3>2. pick[e] \in 1..MaxThreads
      BY <2>2 DEF LifeInv, DevInv, EngsInv
    <3>3. scanAt[e] \in 0..(MaxThreads + 1)
      BY ScanTypes
    <3>4. scanAt[e] <= pool =>
            \A u \in 2..(scanAt[e] - 1) : u \in raced'[e] \/ load'[u] > 0
      BY <1>0, <2>2, <3>1, <3>3 DEF ScanInv
    <3>5. 1 \notin raced'[e] => first[e] = load'[1]
      BY <1>0, <2>2, <3>1 DEF ScanInv
    <3>6. \A u \in 1..pool :
            \/ pick[e] \in raced'[e] \/ load'[pick[e]] = 0
            \/ u \in raced'[e] \/ load'[u] > 0 \/ u >= scanAt[e]
      BY <1>0, <2>2, <3>1, <3>2, <3>3 DEF ScanInv
    <3> QED
      BY <2>2, <3>1, <3>4, <3>5, <3>6 DEF ScanInv
  <2> QED
    BY <2>1, <2>2
<1>3. CASE Step(e)
  <2>1. CASE engine_init(e)
    <3>1. CASE pollMode
      <4>1. /\ scanAt' = [scanAt EXCEPT ![e] = 2] /\ pick' = [pick EXCEPT ![e] = 1]
            /\ first' = [first EXCEPT ![e] = load[1]] /\ UNCHANGED <<raced, load, pool>>
        BY <2>1, <3>1 DEF engine_init, poolVars
      <4>2. scanAt'[e] = 2 /\ pick'[e] = 1 /\ first'[e] = load[1]
        BY <4>1, ScanTypes
      <4>3. load[1] \in Nat
        BY <1>0
      <4>4. \A u \in 1..pool : load[1] = 0 \/ load[u] > 0 \/ u >= 2
        BY <1>0, <4>3
      <4>5. \A u \in 2..(2 - 1) : FALSE
        OBVIOUS
      <4> QED
        BY <4>1, <4>2, <4>4, <4>5 DEF ScanInv
    <3>2. CASE ~pollMode
      <4>1. scanAt'[e] = 0
        BY <2>1, <3>2 DEF engine_init, scanVars
      <4> QED
        BY <4>1 DEF ScanInv
    <3> QED
      BY <3>1, <3>2
  <2>2. CASE ScanThread(e)
    BY <2>2, ScanStep
  <2>3. CASE xdma_thread_add_work(e)
    <3>1. scanAt'[e] = 0
      BY <2>3, ScanTypes DEF xdma_thread_add_work
    <3> QED
      BY <3>1 DEF ScanInv
  <2>4. CASE pc[e] # "engines"
    <3>1. scanAt[e] = 0 /\ ~EngineFound(e)
      BY <2>4 DEF LifeInv, DevInv, EngsInv, EngineFound, engine_init, ScanThread,
         xdma_thread_add_work
    <3>2. scanAt' = scanAt
      BY <1>3, <3>1 DEF Step, Open, Interfaces, Close, Recovery, probe_one, xdev_list_add,
       ThreadsFail, EnableDevice, request_regions, map_bars, set_dma_mask, EnginesDone,
       enable_msi_msix, OpenIrq, CreateGroup, create_xcdev_fails, ProbeDone,
       xpdev_destroy_interfaces, remove_one, CloseIrq, disable_msi_msix, unmap_bars,
       remove_engines, ReleaseRegions, Disable, xdev_list_remove, xdma_error_detected,
       xdma_slot_reset, xdma_reset_prepare, xdma_reset_done, engVars, scanVars
    <3> QED
      BY <3>1, <3>2 DEF ScanInv
  <2>5. CASE EnginesDone(e)
    <3>1. scanAt' = scanAt /\ scanAt[e] = 0
      BY <2>5 DEF EnginesDone, engVars, scanVars
    <3> QED
      BY <3>1 DEF ScanInv
  <2> QED
    BY <1>3, <2>1, <2>2, <2>3, <2>4, <2>5 DEF Step, Open, Interfaces, Close, Recovery,
       EngineFound, probe_one, xdev_list_add, ThreadsFail, EnableDevice, request_regions, map_bars,
       set_dma_mask, enable_msi_msix, OpenIrq, CreateGroup, create_xcdev_fails, ProbeDone,
       xpdev_destroy_interfaces, remove_one, CloseIrq, disable_msi_msix, unmap_bars,
       remove_engines, ReleaseRegions, Disable, xdev_list_remove, xdma_error_detected,
       xdma_slot_reset, xdma_reset_prepare, xdma_reset_done
<1> QED
  BY <1>1, <1>2, <1>3 DEF Next, Step

LEMMA ScanSafe == Spec => [](TypeOK /\ LifeInv /\ \A d \in Dev : ScanInv(d))
<1>1. Init => \A d \in Dev : ScanInv(d)
  BY DEF Init, ScanInv
<1>2. /\ TypeOK /\ LifeInv /\ (\A d \in Dev : ScanInv(d)) /\ [Next]_vars
      => (\A d \in Dev : ScanInv(d))'
  BY ScanInvKept
<1> QED
  BY <1>1, <1>2, LifeSafe, PTL DEF Spec

\* xdma_thread_add_work() gives an engine to a busy thread while another is idle
\* only when another device has changed the work of one of the two since the
\* search began, for any number of devices and threads.
THEOREM IdleThreadsFirst == Spec => IdleFirst
<1> DEFINE Fair == \A d \in Dev : \A t, u \in 1..pool :
                     /\ pollMode /\ Len(engs'[d]) > Len(engs[d]) /\ pick[d] = t
                     /\ load[t] > 0 /\ load[u] = 0
                     => t \in raced[d] \/ u \in raced[d]
           Known == TypeOK /\ LifeInv /\ \A d \in Dev : ScanInv(d)
<1>1. Known /\ [Next]_vars => [Fair]_vars
  <2> SUFFICES ASSUME TypeOK, LifeInv, \A d \in Dev : ScanInv(d), Next,
                      NEW d \in Dev, NEW t \in 1..pool, NEW u \in 1..pool, pollMode,
                      Len(engs'[d]) > Len(engs[d]), pick[d] = t, load[t] > 0, load[u] = 0
               PROVE  t \in raced[d] \/ u \in raced[d]
    OBVIOUS
  <2>1. /\ pool \in 0..MaxThreads /\ MaxThreads \in Nat /\ load \in [1..MaxThreads -> Nat]
        /\ Len(engs[d]) \in Nat
    BY SeqTypes, EngsTypes, LifecycleAssumption DEF LifecycleAssumption
  <2>2. xdma_thread_add_work(d)
    <3>1. CASE Module
      <4>1. engs' = engs
        BY <3>1 DEF Module, xdma_cdev_init, RegisterDriver, xdma_mod_exit, xdma_cdev_cleanup,
           engVars
      <4> QED
        BY <2>1, <4>1
    <3>2. ASSUME NEW e \in Dev, Step(e), e # d
          PROVE  FALSE
      <4>1. engs'[d] = engs[d]
        BY <3>2, EngsKept DEF Put
      <4> QED
        BY <2>1, <4>1
    <3>3. CASE Step(d) /\ ~xdma_thread_add_work(d)
      <4>1. CASE remove_engines(d)
        <5>1. engs'[d] = <<>>
          BY <4>1, EnginesGo
        <5>2. Len(engs'[d]) = 0
          BY <5>1, EmptySeq
        <5> QED
          BY <2>1, <5>2
      <4>2. CASE ~remove_engines(d)
        <5>1. engs' = engs
          BY <3>3, <4>2 DEF Step, Open, Interfaces, Close, Recovery, EngineFound, engine_init,
             ScanThread, probe_one, xdev_list_add, ThreadsFail, EnableDevice, request_regions,
             map_bars, set_dma_mask, EnginesDone, enable_msi_msix, OpenIrq, CreateGroup,
             create_xcdev_fails, ProbeDone, xpdev_destroy_interfaces, remove_one, CloseIrq,
             disable_msi_msix, unmap_bars, ReleaseRegions, Disable, xdev_list_remove,
             xdma_error_detected, xdma_slot_reset, xdma_reset_prepare, xdma_reset_done, engVars
        <5> QED
          BY <2>1, <5>1
      <4> QED
        BY <4>1, <4>2
    <3> QED
      BY <3>1, <3>2, <3>3 DEF Next, Step
  <2>3. scanAt[d] > pool /\ scanAt[d] # 0 /\ scanAt[d] \in Nat
    <3>1. scanAt[d] \in 0..(MaxThreads + 1) /\ scanAt[d] > pool
      BY <2>2, ScanTypes DEF xdma_thread_add_work
    <3> QED
      BY <2>1, <3>1
  <2>4. \/ t \in raced[d] \/ load[t] = 0
        \/ u \in raced[d] \/ load[u] > 0 \/ u >= scanAt[d]
    BY <2>3 DEF ScanInv
  <2> QED
    BY <2>1, <2>3, <2>4
<1>2. Spec => [][Fair]_vars
  BY <1>1, ScanSafe, PTL DEF Spec
<1> QED
  BY <1>2 DEF IdleFirst
=============================================================================
