----------------------------- MODULE Lifecycle ------------------------------
(***************************************************************************)
(* The life of the devices the driver serves: module load and unload,      *)
(* probe with every failure it unwinds from, the list of devices and the   *)
(* pool of polling threads that the first device creates and the last one  *)
(* destroys, the character devices, PCI error recovery and reset, remove.  *)
(*                                                                         *)
(* The PCI core holds the device lock during probe, remove and each error  *)
(* handler, so one device does one thing at a time; different devices      *)
(* overlap.  What the kernel holds for a device (held, handlers, nodes,    *)
(* region) is kept apart from what the driver remembers of it (flags,      *)
(* major, irqLine), so a release of something that is not held shows up in *)
(* twice.  blame is a history variable: the failures a device met that the *)
(* driver is known not to recover from.                                    *)
(***************************************************************************)
EXTENDS Integers, Sequences, FiniteSets

CONSTANTS
  Dev,         \* PCI devices
  Kinds,       \* interrupt kinds the devices may have
  Extras,      \* sets of optional BARs (user, bypass) the devices may have
  MaxThreads,  \* online CPUs, the most threads the pool can have
  MaxChannels, \* largest number of engines of a device
  MaxIdx,      \* bound: largest device index handed out
  MaxFaults    \* bound: how many requests the kernel refuses, and resets

ASSUME LifecycleAssumption ==
  /\ IsFiniteSet(Dev)
  /\ Kinds \subseteq {"msix", "msi", "legacy"}
  /\ Extras \subseteq SUBSET {"user", "bypass"}
  /\ MaxThreads \in Nat \ {0}
  /\ MaxChannels \in Nat
  /\ MaxIdx \in Nat
  /\ MaxFaults \in Nat

VARIABLES
  pollMode,  \* module parameter poll_mode
  mod,       \* xdma_mod_init()/xdma_mod_exit()
  class,     \* g_xdma_class exists
  cache,     \* cdev_cache exists
  modBlame,  \* history: failures of module load and of the thread pool
  list,      \* xdev_list
  idx,       \* xdev->idx
  pool,      \* thread_cnt, 0 when there is no pool
  load,      \* work_cnt of each thread
  pc,        \* control of each device
  held,      \* what the kernel holds: enable, regions, bars, engines, vectors
  inUse,     \* xdev->regions_in_use
  kind,      \* msix_enabled, msi_enabled or neither
  irqLine,   \* irq_line or msix_irq_line is set
  handlers,  \* interrupt handlers registered with the kernel
  engs,      \* the thread of each engine found so far (0: interrupt mode)
  scanAt,    \* i + 1 of xdma_thread_add_work(): the thread to look at next, 0
             \* when no scan is under way
  pick,      \* its idx + 1: the thread chosen so far
  first,     \* its v: work_cnt of thread 1 when the scan began
  raced,     \* history: threads whose work others changed since then
  extra,     \* optional BARs present: user, bypass
  major,     \* xpdev->major is set
  region,    \* the chrdev region is registered
  flags,     \* xpdev->flags, one per group of character devices
  nodes,     \* groups with live character devices
  twice,     \* what was released without being held
  blame,     \* history: failures the driver does not recover from
  faults     \* number of refused requests and resets so far

modVars  == <<mod, class, cache>>
listVars == <<list, idx>>
poolVars == <<pool, load>>
pciVars  == <<held, inUse, kind>>
irqVars  == <<irqLine, handlers>>
scanVars == <<scanAt, pick, first, raced>>
engVars  == <<engs, scanVars>>
cdevVars == <<extra, major, region, flags, nodes>>
histVars == <<twice, blame, faults>>
vars == <<pollMode, modVars, modBlame, listVars, poolVars, pc, pciVars, irqVars,
          engVars, cdevVars, histVars>>

\* The groups of character devices in the order they are created.
Groups == <<"CTRL", "EVENT", "SG", "BYPASS", "USER", "XVC">>
GroupSet == {Groups[i] : i \in 1..6}

OpenLabels == {"list", "enable", "regions", "bars", "mask", "engines", "msi", "irq"}
ErrLabels == {"err_msix", "err_engines", "err_mask", "err_map", "err_regions",
              "err_enable"}
CloseLabels == {"free", "c_irq", "c_msi", "c_engines", "c_bars", "c_regions",
                "c_disable", "c_list"}
Labels == {"absent", "nodes", "fail", "bound", "frozen", "prepared"}
            \cup OpenLabels \cup ErrLabels \cup CloseLabels

TypeOK ==
  /\ pollMode \in BOOLEAN
  /\ mod \in {"absent", "register", "loaded", "unload"}
  /\ class \in BOOLEAN /\ cache \in BOOLEAN
  /\ modBlame \subseteq {"load", "threads"}
  /\ list \in Seq(Dev)
  /\ idx \in [Dev -> 0..MaxIdx]
  /\ pool \in 0..MaxThreads
  /\ load \in [1..MaxThreads -> Nat]
  /\ pc \in [Dev -> Labels]
  /\ held \in [Dev -> SUBSET {"enable", "regions", "bars", "engines", "vectors"}]
  /\ inUse \in [Dev -> BOOLEAN]
  /\ kind \in [Dev -> {"none", "msix", "msi", "legacy"}]
  /\ irqLine \in [Dev -> BOOLEAN]
  /\ handlers \in [Dev -> SUBSET {"chan", "user", "dev"}]
  /\ engs \in [Dev -> Seq(0..MaxThreads)]
  /\ scanAt \in [Dev -> 0..(MaxThreads + 1)] /\ pick \in [Dev -> 0..MaxThreads]
  /\ first \in [Dev -> Nat] /\ raced \in [Dev -> SUBSET (1..MaxThreads)]
  /\ extra \in [Dev -> SUBSET {"user", "bypass"}]
  /\ major \in [Dev -> BOOLEAN] /\ region \in [Dev -> BOOLEAN]
  /\ flags \in [Dev -> SUBSET GroupSet] /\ nodes \in [Dev -> SUBSET GroupSet]
  /\ twice \in [Dev -> SUBSET {"enable", "handlers", "nodes", "region"}]
  /\ blame \in [Dev -> SUBSET {"irq", "cdev", "reset"}]
  /\ faults \in 0..MaxFaults

Init ==
  /\ pollMode \in BOOLEAN
  /\ mod = "absent" /\ class = FALSE /\ cache = FALSE /\ modBlame = {}
  /\ list = <<>> /\ idx = [d \in Dev |-> 0]
  /\ pool = 0 /\ load = [t \in 1..MaxThreads |-> 0]
  /\ pc = [d \in Dev |-> "absent"]
  /\ held = [d \in Dev |-> {}]
  /\ inUse = [d \in Dev |-> FALSE]
  /\ kind = [d \in Dev |-> "none"]
  /\ irqLine = [d \in Dev |-> FALSE] /\ handlers = [d \in Dev |-> {}]
  /\ engs = [d \in Dev |-> <<>>]
  /\ scanAt = [d \in Dev |-> 0] /\ pick = [d \in Dev |-> 0]
  /\ first = [d \in Dev |-> 0] /\ raced = [d \in Dev |-> {}]
  /\ extra = [d \in Dev |-> {}]
  /\ major = [d \in Dev |-> FALSE] /\ region = [d \in Dev |-> FALSE]
  /\ flags = [d \in Dev |-> {}] /\ nodes = [d \in Dev |-> {}]
  /\ twice = [d \in Dev |-> {}] /\ blame = [d \in Dev |-> {}]
  /\ faults = 0

Goto(d, label) == pc' = [pc EXCEPT ![d] = label]
Hold(d, r) == held' = [held EXCEPT ![d] = @ \cup {r}]
Drop(d, r) == held' = [held EXCEPT ![d] = @ \ {r}]
Blame(d, why) == blame' = [blame EXCEPT ![d] = @ \cup {why}]

\* The kernel refuses a request, or the device is reset.
Fault == faults < MaxFaults /\ faults' = faults + 1
NoFault == UNCHANGED faults

\* S of the releases that d makes were of something not held.
Note(d, S) == twice' = [twice EXCEPT ![d] = @ \cup S]

-----------------------------------------------------------------------------
(* Module load and unload.                                                 *)

\* xdma_cdev_init(): the class, whose name must be free, then the cache.  A
\* failed cache keeps the class, and the module is not loaded.
xdma_cdev_init ==
  /\ mod = "absent"
  /\ ~class
  /\ \/ /\ NoFault
        /\ class' = TRUE /\ cache' = TRUE
        /\ mod' = "register"
        /\ UNCHANGED modBlame
     \/ /\ Fault
        /\ class' = TRUE
        /\ modBlame' = modBlame \cup {"load"}
        /\ UNCHANGED <<cache, mod>>
  /\ UNCHANGED <<pollMode, listVars, poolVars, pc, pciVars, irqVars, engVars, cdevVars,
                 twice, blame>>

\* The rest of xdma_mod_init(): a failed registration keeps class and cache.
RegisterDriver ==
  /\ mod = "register"
  /\ \/ NoFault /\ mod' = "loaded" /\ UNCHANGED modBlame
     \/ Fault /\ mod' = "absent" /\ modBlame' = modBlame \cup {"load"}
  /\ UNCHANGED <<pollMode, class, cache, listVars, poolVars, pc, pciVars, irqVars,
                 engVars, cdevVars, twice, blame>>

\* xdma_mod_exit(): no probe starts from now on, every device is removed.
xdma_mod_exit ==
  /\ mod = "loaded"
  /\ mod' = "unload"
  /\ UNCHANGED <<pollMode, class, cache, modBlame, listVars, poolVars, pc, pciVars,
                 irqVars, engVars, cdevVars, histVars>>

\* xdma_cdev_cleanup(), after pci_unregister_driver() has removed every device.
Mut_CleanupFirst ==
  /\ mod = "unload"
  /\ mod' = "absent"
  /\ class' = FALSE /\ cache' = FALSE
  /\ UNCHANGED <<pollMode, modBlame, listVars, poolVars, pc, pciVars, irqVars, engVars,
                 cdevVars, histVars>>
xdma_cdev_cleanup ==
  /\ mod = "unload"
  /\ \A d \in Dev : pc[d] = "absent"
  /\ mod' = "absent"
  /\ class' = FALSE /\ cache' = FALSE
  /\ UNCHANGED <<pollMode, modBlame, listVars, poolVars, pc, pciVars, irqVars, engVars,
                 cdevVars, histVars>>

-----------------------------------------------------------------------------
(* The list of devices and the pool of threads, under xdev_mutex.          *)

\* probe_one(): xpdev_alloc() and alloc_dev_instance(); either may fail, which
\* leaves nothing.  Bound: a device the driver mishandled, or found in
\* use, is not probed again.
probe_one(d) ==
  /\ mod = "loaded"
  /\ pc[d] = "absent"
  /\ blame[d] = {} /\ ~inUse[d]
  /\ Goto(d, "list")
  /\ UNCHANGED <<pollMode, modVars, modBlame, listVars, poolVars, pciVars, irqVars,
                 engVars, cdevVars, histVars>>

\* The index of a device that joins: one more than that of the last device.
Mut_CountDevices == Len(list)
NextIdx == IF list = <<>> THEN 0 ELSE idx[list[Len(list)]] + 1

\* xdma_threads_create(): one thread per CPU, at most one per channel.
xdma_threads_create ==
  IF pollMode /\ list = <<>> THEN pool' = MaxThreads ELSE UNCHANGED pool

xdev_list_add(d) ==
  /\ pc[d] = "list"
  /\ NextIdx <= MaxIdx
  /\ list' = Append(list, d)
  /\ idx' = [idx EXCEPT ![d] = NextIdx]
  /\ xdma_threads_create
  /\ Goto(d, "enable")
  /\ UNCHANGED <<pollMode, modVars, modBlame, load, pciVars, irqVars, engVars, cdevVars,
                 histVars>>

\* The pool cannot be created: the device is not listed.  Threads that had
\* already started are not stopped though their memory is freed.
ThreadsFail(d) ==
  /\ pc[d] = "list"
  /\ pollMode
  /\ list = <<>>
  /\ Fault
  /\ modBlame' = modBlame \cup {"threads"}
  /\ Goto(d, "absent")
  /\ UNCHANGED <<pollMode, modVars, listVars, poolVars, pciVars, irqVars, engVars,
                 cdevVars, twice, blame>>

\* list_del() of the k-th device.
DelAt(k) == [i \in 1..(Len(list) - 1) |-> IF i < k THEN list[i] ELSE list[i + 1]]

\* xdma_threads_destroy(): every thread is stopped and the pool freed.
Mut_DestroyAlways(q) == IF pollMode THEN pool' = 0 ELSE UNCHANGED pool
xdma_threads_destroy(q) ==
  IF pollMode /\ q = <<>> THEN pool' = 0 ELSE UNCHANGED pool

\* xdev_list_remove(), and the kfree() of xdev (and xpdev) that follows it.
xdev_list_remove(d) ==
  /\ pc[d] \in {"err_enable", "c_list"}
  /\ \E k \in 1..Len(list) :
        /\ list[k] = d
        /\ list' = DelAt(k)
        /\ idx' = [idx EXCEPT ![d] = 0]
        /\ xdma_threads_destroy(DelAt(k))
  /\ kind' = [kind EXCEPT ![d] = "none"]
  /\ irqLine' = [irqLine EXCEPT ![d] = FALSE]
  /\ extra' = [extra EXCEPT ![d] = {}]
  /\ major' = [major EXCEPT ![d] = FALSE]
  /\ flags' = [flags EXCEPT ![d] = {}]
  /\ Goto(d, "absent")
  /\ UNCHANGED <<pollMode, modVars, modBlame, load, held, inUse, handlers, engVars, region,
                 nodes, histVars>>

-----------------------------------------------------------------------------
(* xdma_device_open(): each step may fail and then unwinds.                *)

\* pci_enable_device(), pci_set_master().
EnableDevice(d) ==
  /\ pc[d] = "enable"
  /\ \/ NoFault /\ Hold(d, "enable") /\ Goto(d, "regions")
     \/ Fault /\ Goto(d, "err_enable") /\ UNCHANGED held
  /\ UNCHANGED <<pollMode, modVars, modBlame, listVars, poolVars, inUse, kind, irqVars,
                 engVars, cdevVars, twice, blame>>

\* request_regions(): a device in use elsewhere will not be disabled later.
request_regions(d) ==
  /\ pc[d] = "regions"
  /\ \/ NoFault /\ Hold(d, "regions") /\ Goto(d, "bars") /\ UNCHANGED inUse
     \/ /\ Fault
        /\ inUse' = [inUse EXCEPT ![d] = TRUE]
        /\ Goto(d, "err_regions")
        /\ UNCHANGED held
  /\ UNCHANGED <<pollMode, modVars, modBlame, listVars, poolVars, kind, irqVars, engVars,
                 cdevVars, twice, blame>>

\* map_bars() and identify_bars(): which optional BARs there are; on a failure
\* it unmaps what it has mapped.
map_bars(d) ==
  /\ pc[d] = "bars"
  /\ \/ /\ NoFault
        /\ Hold(d, "bars")
        /\ \E e \in Extras : extra' = [extra EXCEPT ![d] = e]
        /\ Goto(d, "mask")
     \/ Fault /\ Goto(d, "err_map") /\ UNCHANGED <<held, extra>>
  /\ UNCHANGED <<pollMode, modVars, modBlame, listVars, poolVars, inUse, kind, irqVars,
                 engVars, major, region, flags, nodes, twice, blame>>

\* set_dma_mask(), and all interrupt enable masks cleared.
set_dma_mask(d) ==
  /\ pc[d] = "mask"
  /\ \/ NoFault /\ Goto(d, "engines")
     \/ Fault /\ Goto(d, "err_mask")
  /\ UNCHANGED <<pollMode, modVars, modBlame, listVars, poolVars, pciVars, irqVars,
                 engVars, cdevVars, twice, blame>>

\* probe_engines(): one engine is found.  In polled mode xdma_thread_add_work()
\* looks for a thread for it, and first at thread 1.  The pool belongs to all
\* devices, probes hold no lock over the search, and each thread is locked only
\* while it is looked at: other devices may change its work before it is used.
engine_init(d) ==
  /\ pc[d] = "engines"
  /\ scanAt[d] = 0
  /\ Len(engs[d]) < MaxChannels
  /\ \/ /\ pollMode
        /\ scanAt' = [scanAt EXCEPT ![d] = 2]
        /\ pick' = [pick EXCEPT ![d] = 1]
        /\ first' = [first EXCEPT ![d] = load[1]]
        /\ UNCHANGED <<engs, raced>>
     \/ /\ ~pollMode
        /\ engs' = [engs EXCEPT ![d] = Append(@, 0)]
        /\ UNCHANGED scanVars
  /\ UNCHANGED <<pollMode, modVars, modBlame, listVars, poolVars, pc, pciVars, irqVars,
                 cdevVars, histVars>>

\* The search takes thread t, the next one, when it is idle or has less work than
\* the FIRST (v is not updated); an idle one ends it.
Mut_MoreWork(d, t) == load[t] = 0 \/ load[t] > first[d]
Takes(d, t) == load[t] = 0 \/ load[t] < first[d]
ScanThread(d) ==
  /\ pc[d] = "engines"
  /\ scanAt[d] \in 2..pool
  /\ LET t == scanAt[d] IN
        /\ pick' = [pick EXCEPT ![d] = IF Takes(d, t) THEN t ELSE @]
        /\ scanAt' = [scanAt EXCEPT ![d] = IF load[t] = 0 THEN pool + 1 ELSE t + 1]
  /\ UNCHANGED <<pollMode, modVars, modBlame, listVars, poolVars, pc, pciVars, irqVars,
                 engs, first, raced, cdevVars, histVars>>

\* The other searches under way learn that d changed the work of the threads T.
Race(d, T) ==
  [e \in Dev |-> IF e = d THEN {} ELSE IF scanAt[e] = 0 THEN raced[e] ELSE raced[e] \cup T]

\* The search is over: the thread it chose is locked again and gets the engine.
xdma_thread_add_work(d) ==
  /\ pc[d] = "engines"
  /\ scanAt[d] > pool
  /\ LET t == pick[d] IN
        /\ engs' = [engs EXCEPT ![d] = Append(@, t)]
        /\ load' = [load EXCEPT ![t] = @ + 1]
        /\ raced' = Race(d, {t})
  /\ scanAt' = [scanAt EXCEPT ![d] = 0]
  /\ pick' = [pick EXCEPT ![d] = 0]
  /\ first' = [first EXCEPT ![d] = 0]
  /\ UNCHANGED <<pollMode, modVars, modBlame, listVars, pool, pc, pciVars, irqVars,
                 cdevVars, histVars>>

\* No further engine, or one that fails to initialise: probe_engines() never
\* fails, it keeps the engines it has.
EnginesDone(d) ==
  /\ pc[d] = "engines"
  /\ scanAt[d] = 0
  /\ Hold(d, "engines")
  /\ Goto(d, "msi")
  /\ UNCHANGED <<pollMode, modVars, modBlame, listVars, poolVars, inUse, kind, irqVars,
                 engVars, cdevVars, histVars>>

\* enable_msi_msix(): on a failure the vectors are not there, but the enabled
\* flag is set; the caller goes to err_engines, which does not look at it.
enable_msi_msix(d) ==
  /\ pc[d] = "msi"
  /\ \E k \in Kinds :
        /\ kind' = [kind EXCEPT ![d] = k]
        /\ \/ k # "legacy" /\ NoFault /\ Hold(d, "vectors") /\ Goto(d, "irq")
           \/ k = "legacy" /\ NoFault /\ Goto(d, "irq") /\ UNCHANGED held
           \/ k # "legacy" /\ Fault /\ Goto(d, "err_engines") /\ UNCHANGED held
  /\ UNCHANGED <<pollMode, modVars, modBlame, listVars, poolVars, inUse, irqVars, engVars,
                 cdevVars, twice, blame>>

\* irq_setup() and its parts.  With MSI-X the channel handlers come first and
\* are not released when a later one or a user handler cannot be registered.
IrqAll(d) == IF kind[d] = "msix" THEN {"chan", "user"} ELSE {"dev"}
irq_setup(d) ==
  /\ irqLine' = [irqLine EXCEPT ![d] = TRUE]
  /\ handlers' = [handlers EXCEPT ![d] = IrqAll(d)]

\* irq_setup() fails; S is what stays registered.
IrqSetupFails(d) ==
  \E S \in (IF kind[d] = "msix" THEN {{}, {"chan"}} ELSE {{}}) :
     /\ irqLine' = [irqLine EXCEPT ![d] = @ \/ kind[d] # "msix" \/ S # {}]
     /\ handlers' = [handlers EXCEPT ![d] = S]
     /\ \/ S = {} /\ UNCHANGED blame
        \/ S # {} /\ Blame(d, "irq")

\* irq_setup() in xdma_device_open(); then the channel interrupts are enabled
\* and the device is online.
OpenIrq(d) ==
  /\ pc[d] = "irq"
  /\ \/ NoFault /\ irq_setup(d) /\ Goto(d, "nodes") /\ UNCHANGED blame
     \/ Fault /\ IrqSetupFails(d) /\ Goto(d, "err_msix")
  /\ UNCHANGED <<pollMode, modVars, modBlame, listVars, poolVars, pciVars, engVars,
                 cdevVars, twice>>

-----------------------------------------------------------------------------
(* The unwinding of xdma_device_open(), and xdma_device_close().           *)

\* disable_msi_msix(): only what the flags say is enabled.
disable_msi_msix(d) ==
  /\ \/ pc[d] = "err_msix" /\ Goto(d, "err_engines")
     \/ pc[d] = "c_msi" /\ Goto(d, "c_engines")
  /\ Drop(d, "vectors")
  /\ kind' = [kind EXCEPT ![d] = "none"]
  /\ UNCHANGED <<pollMode, modVars, modBlame, listVars, poolVars, inUse, irqVars, engVars,
                 cdevVars, histVars>>

\* remove_engines(): engine_destroy() takes each engine off its thread.  They leave
\* in one step: only a search of another device could tell, and raced covers it.
Mut_EveryThread(d) == [t \in DOMAIN load |-> load[t] - 1]
WithoutEngines(d) ==
  [t \in DOMAIN load |-> load[t] - Cardinality({i \in 1..Len(engs[d]) : engs[d][i] = t})]

remove_engines(d) ==
  /\ \/ pc[d] = "err_engines" /\ Goto(d, "err_mask")
     \/ pc[d] = "c_engines" /\ Goto(d, "c_bars")
  /\ engs' = [engs EXCEPT ![d] = <<>>]
  /\ load' = WithoutEngines(d)
  /\ raced' = Race(d, {engs[d][i] : i \in 1..Len(engs[d])} \ {0})
  /\ UNCHANGED <<scanAt, pick, first>>
  /\ Drop(d, "engines")
  /\ UNCHANGED <<pollMode, modVars, modBlame, listVars, pool, inUse, kind, irqVars,
                 cdevVars, histVars>>

unmap_bars(d) ==
  /\ \/ pc[d] = "err_mask" /\ Goto(d, "err_map")
     \/ pc[d] = "c_bars" /\ Goto(d, "c_regions")
  /\ Drop(d, "bars")
  /\ UNCHANGED <<pollMode, modVars, modBlame, listVars, poolVars, inUse, kind, irqVars,
                 engVars, cdevVars, histVars>>

ReleaseRegions(d) ==
  /\ \/ pc[d] = "err_map" /\ Goto(d, "err_regions")
     \/ pc[d] = "c_regions" /\ Goto(d, "c_disable")
  /\ Drop(d, "regions")
  /\ UNCHANGED <<pollMode, modVars, modBlame, listVars, poolVars, inUse, kind, irqVars,
                 engVars, cdevVars, histVars>>

\* pci_disable_device(), unless the regions were found in use.
Mut_KeepEnabled(d) == UNCHANGED <<held, twice>>
DisableDevice(d) ==
  IF inUse[d] THEN UNCHANGED <<held, twice>>
  ELSE Drop(d, "enable") /\ Note(d, {"enable"} \ held[d])

Disable(d) ==
  /\ \/ pc[d] = "err_regions" /\ Goto(d, "err_enable")
     \/ pc[d] = "c_disable" /\ Goto(d, "c_list")
  /\ DisableDevice(d)
  /\ UNCHANGED <<pollMode, modVars, modBlame, listVars, poolVars, inUse, kind, irqVars,
                 engVars, cdevVars, blame, faults>>

\* irq_teardown() frees every handler irq_setup() may have registered; what it
\* remembers of them (irq_line, msix_irq_line) is not reset.
Registered(d) == kind[d] = "msix" \/ irqLine[d]
NotHeld(d) ==
  IF Registered(d) /\ ~(IrqAll(d) \subseteq handlers[d]) THEN {"handlers"} ELSE {}
irq_teardown(d) ==
  handlers' = [handlers EXCEPT ![d] = IF Registered(d) THEN {} ELSE @]

\* xdma_device_close(): interrupts off, then irq_teardown().
Mut_CloseKeepsIrq(d) ==
  /\ pc[d] = "c_irq"
  /\ Goto(d, "c_msi")
  /\ UNCHANGED <<pollMode, modVars, modBlame, listVars, poolVars, pciVars, irqVars,
                 engVars, cdevVars, histVars>>
CloseIrq(d) ==
  /\ pc[d] = "c_irq"
  /\ irq_teardown(d)
  /\ Note(d, NotHeld(d))
  /\ Goto(d, "c_msi")
  /\ UNCHANGED <<pollMode, modVars, modBlame, listVars, poolVars, pciVars, irqLine,
                 engVars, cdevVars, blame, faults>>

-----------------------------------------------------------------------------
(* The character devices.                                                  *)

Wanted(d) ==
  {"CTRL", "EVENT", "SG"} \cup (IF "bypass" \in extra[d] THEN {"BYPASS"} ELSE {})
    \cup (IF "user" \in extra[d] THEN {"USER", "XVC"} ELSE {})

Missing(d) == {i \in 1..6 : Groups[i] \in Wanted(d) \ flags[d]}

\* xpdev_create_interfaces(): the next group; the flag is set when the whole
\* group is there.
CreateGroup(d) ==
  /\ pc[d] = "nodes"
  /\ \E i \in Missing(d) :
        /\ \A j \in Missing(d) : i <= j
        /\ nodes' = [nodes EXCEPT ![d] = @ \cup {Groups[i]}]
        /\ flags' = [flags EXCEPT ![d] = @ \cup {Groups[i]}]
  /\ major' = [major EXCEPT ![d] = TRUE]
  /\ region' = [region EXCEPT ![d] = TRUE]
  /\ UNCHANGED <<pollMode, modVars, modBlame, listVars, poolVars, pc, pciVars, irqVars,
                 engVars, extra, histVars>>

\* create_xcdev() fails: without a region, with the region kept, or with the
\* region given back though major stays set.  The earlier devices of the group
\* are live and have no flag.
create_xcdev_fails(d) ==
  /\ pc[d] = "nodes"
  /\ Fault
  /\ \E i \in Missing(d) :
        /\ \A j \in Missing(d) : i <= j
        /\ \/ UNCHANGED nodes
           \/ /\ Groups[i] \in {"EVENT", "SG", "BYPASS"}
              /\ nodes' = [nodes EXCEPT ![d] = @ \cup {Groups[i]}]
  /\ \/ ~major[d] /\ UNCHANGED <<major, region, blame>>
     \/ /\ major' = [major EXCEPT ![d] = TRUE]
        /\ \E r \in BOOLEAN : region' = [region EXCEPT ![d] = r]
        /\ Blame(d, "cdev")
  /\ Goto(d, "fail")
  /\ UNCHANGED <<pollMode, modVars, modBlame, listVars, poolVars, pciVars, irqVars,
                 engVars, extra, flags, twice>>

\* Everything is there: dev_set_drvdata().
ProbeDone(d) ==
  /\ pc[d] = "nodes"
  /\ Missing(d) = {}
  /\ Goto(d, "bound")
  /\ UNCHANGED <<pollMode, modVars, modBlame, listVars, poolVars, pciVars, irqVars,
                 engVars, cdevVars, histVars>>

\* xpdev_destroy_interfaces(): what the flags name, and the region if major is
\* set.  Neither the flags nor major are cleared.
DestroyInterfaces(d) ==
  /\ nodes' = [nodes EXCEPT ![d] = @ \ flags[d]]
  /\ region' = [region EXCEPT ![d] = @ /\ ~major[d]]
  /\ Note(d, (IF flags[d] \subseteq nodes[d] THEN {} ELSE {"nodes"})
               \cup (IF major[d] /\ ~region[d] THEN {"region"} ELSE {}))

\* In the failure path of xpdev_create_interfaces(), and again in xpdev_free(),
\* which goes on with xdma_device_close().
xpdev_destroy_interfaces(d) ==
  /\ \/ pc[d] = "fail" /\ Goto(d, "free")
     \/ pc[d] = "free" /\ Goto(d, "c_irq")
  /\ DestroyInterfaces(d)
  /\ UNCHANGED <<pollMode, modVars, modBlame, listVars, poolVars, pciVars, irqVars,
                 engVars, extra, major, flags, blame, faults>>

\* remove_one(): unbind, hot unplug or module unload.  An open file does not
\* hold it up, nor does an error recovery that has not ended.
remove_one(d) ==
  /\ \/ pc[d] = "bound" /\ UNCHANGED blame
     \/ pc[d] = "frozen" /\ Blame(d, "reset")
  /\ Goto(d, "free")
  /\ UNCHANGED <<pollMode, modVars, modBlame, listVars, poolVars, pciVars, irqVars,
                 engVars, cdevVars, twice, faults>>

-----------------------------------------------------------------------------
(* PCI error recovery and function reset.                                  *)

\* xdma_error_detected() with a frozen channel: xdma_device_offline(), then
\* pci_disable_device(); with a normal channel or a permanent failure it only
\* reports.
xdma_error_detected(d) ==
  /\ pc[d] = "bound"
  /\ blame[d] = {}
  /\ Fault
  /\ irq_teardown(d)
  /\ Note(d, NotHeld(d) \cup ({"enable"} \ held[d]))
  /\ Drop(d, "enable")
  /\ Goto(d, "frozen")
  /\ UNCHANGED <<pollMode, modVars, modBlame, listVars, poolVars, inUse, kind, irqLine,
                 engVars, cdevVars, blame>>

\* xdma_device_online(): polled mode does not set the interrupts up again, and
\* a failure to do so is not looked at.
xdma_device_online(d) ==
  \/ pollMode /\ Blame(d, "reset") /\ UNCHANGED irqVars
  \/ ~pollMode /\ irq_setup(d) /\ UNCHANGED blame
  \/ /\ ~pollMode
     /\ \E S \in {{}, {"chan"}} :
           /\ S # {} => kind[d] = "msix"
           /\ handlers' = [handlers EXCEPT ![d] = S]
     /\ Blame(d, "reset")
     /\ UNCHANGED irqLine

\* A device that cannot be enabled again stays as it is and is disconnected.
xdma_slot_reset(d) ==
  /\ pc[d] = "frozen"
  /\ Hold(d, "enable")
  /\ xdma_device_online(d)
  /\ Goto(d, "bound")
  /\ UNCHANGED <<pollMode, modVars, modBlame, listVars, poolVars, inUse, kind, engVars,
                 cdevVars, twice, faults>>

xdma_reset_prepare(d) ==
  /\ pc[d] = "bound"
  /\ blame[d] = {}
  /\ Fault
  /\ irq_teardown(d)
  /\ Note(d, NotHeld(d))
  /\ Goto(d, "prepared")
  /\ UNCHANGED <<pollMode, modVars, modBlame, listVars, poolVars, pciVars, irqLine,
                 engVars, cdevVars, blame>>

xdma_reset_done(d) ==
  /\ pc[d] = "prepared"
  /\ xdma_device_online(d)
  /\ Goto(d, "bound")
  /\ UNCHANGED <<pollMode, modVars, modBlame, listVars, poolVars, pciVars, engVars,
                 cdevVars, twice, faults>>

-----------------------------------------------------------------------------

EngineFound(d) ==
  engine_init(d) \/ ScanThread(d) \/ xdma_thread_add_work(d)

Open(d) ==
  \/ probe_one(d) \/ xdev_list_add(d) \/ ThreadsFail(d) \/ EnableDevice(d)
  \/ request_regions(d) \/ map_bars(d) \/ set_dma_mask(d) \/ EngineFound(d)
  \/ EnginesDone(d) \/ enable_msi_msix(d) \/ OpenIrq(d)

Interfaces(d) ==
  \/ CreateGroup(d) \/ create_xcdev_fails(d) \/ ProbeDone(d)
  \/ xpdev_destroy_interfaces(d)

Close(d) ==
  \/ remove_one(d) \/ CloseIrq(d) \/ disable_msi_msix(d) \/ remove_engines(d)
  \/ unmap_bars(d) \/ ReleaseRegions(d) \/ Disable(d) \/ xdev_list_remove(d)

Recovery(d) ==
  \/ xdma_error_detected(d) \/ xdma_slot_reset(d)
  \/ xdma_reset_prepare(d) \/ xdma_reset_done(d)

Module ==
  xdma_cdev_init \/ RegisterDriver \/ xdma_mod_exit \/ xdma_cdev_cleanup

Next ==
  \/ Module
  \/ \E d \in Dev : Open(d) \/ Interfaces(d) \/ Close(d) \/ Recovery(d)

Spec == Init /\ [][Next]_vars

-----------------------------------------------------------------------------
(* Properties.                                                             *)

\* A device that is gone, after a probe that failed at any step or after a
\* removal, has left nothing behind and had nothing released twice, unless it
\* met a failure the driver does not recover from.  (A device whose regions
\* were in use stays enabled on purpose.)
CleanExit ==
  \A d \in Dev : blame[d] = {} =>
    /\ twice[d] = {}
    /\ pc[d] = "absent" =>
         /\ held[d] = IF inUse[d] THEN {"enable"} ELSE {}
         /\ handlers[d] = {} /\ engs[d] = <<>> /\ nodes[d] = {} /\ ~region[d]
         /\ \A i \in 1..Len(list) : list[i] # d

\* While an interrupt handler of a device is registered, what the handler uses
\* is there: the mapped BARs, the engines, the vectors and the enabled device.
HandlerBacked ==
  \A d \in Dev : handlers[d] # {} /\ "irq" \notin blame[d] =>
    /\ {"bars", "engines", "enable"} \subseteq held[d]
    /\ handlers[d] # {"dev"} => "vectors" \in held[d]

\* Character devices of two devices never have the same name (the name is made
\* of the index): nodes exist only while their device is listed.
NamesUnique ==
  \A d, e \in Dev :
    /\ d # e /\ nodes[d] # {} /\ nodes[e] # {}
    /\ "cdev" \notin blame[d] \cup blame[e]
    => idx[d] # idx[e]

\* In polled mode the pool of threads lives as long as a device is listed, each
\* engine is on a thread of it, and work_cnt counts the engines of the thread.
PoolServes ==
  LET on(t, d) == {i \in 1..Len(engs[d]) : engs[d][i] = t} IN
  pollMode =>
    /\ pool > 0 <=> list # <<>>
    /\ \A d \in Dev : \A i \in 1..Len(engs[d]) : engs[d][i] \in 1..pool
    /\ \A t \in 1..MaxThreads :
         load[t] = Cardinality({w \in Dev \X (1..MaxChannels) : w[2] \in on(t, w[1])})

\* xdma_thread_add_work() gives an engine to a busy thread t while a thread u of
\* the pool is idle only when another device changed the work of t or of u since
\* the search began: one device on its own never doubles up, and two at once
\* only when one of them has just added to, or taken from, t or u.
IdleFirst ==
  [][\A d \in Dev : \A t, u \in 1..pool :
       /\ pollMode /\ Len(engs'[d]) > Len(engs[d]) /\ pick[d] = t
       /\ load[t] > 0 /\ load[u] = 0
       => t \in raced[d] \/ u \in raced[d]]_vars

\* The device class and the cache of asynchronous requests outlive every
\* character device, through load, unload and any probe that races with them.
ClassOutlives ==
  \A d \in Dev :
    nodes[d] # {} /\ "cdev" \notin blame[d] => class /\ cache
=============================================================================
