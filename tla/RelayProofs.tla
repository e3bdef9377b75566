----------------------------- MODULE RelayProofs -----------------------------
(***************************************************************************)
(* Proofs about the relays of module Relay, for any number of relays and   *)
(* workers, any configured CPUs and any set of operations.                 *)
(***************************************************************************)
EXTENDS Relay, TLAPS

\* A step of a worker inside a pass keeps the types if its label and relay do.
LEMMA WStepType ==
  ASSUME TypeOK, NEW c \in Cpus, NEW at, NEW l \in WorkerLabels,
         NEW v \in RelayStruct, WStep(c, at, l, v)
  PROVE  TypeOK'
<1>1. [worker[c] EXCEPT !.pc = l] \in WorkerStruct
  BY ZenonT(30) DEF TypeOK, WorkerStruct
<1>2. worker[c].r \in Relays
  BY Zenon DEF TypeOK, WorkerStruct
<1> QED BY Zenon, <1>1, <1>2 DEF WStep, TypeOK

\* The relay a worker is at is a relay struct.
LEMMA MineType ==
  ASSUME TypeOK, NEW c \in Cpus
  PROVE  Mine(c) \in RelayStruct
BY Zenon DEF TypeOK, Mine, WorkerStruct

\* The relay a control thread works on is a relay struct.
LEMMA HeldType ==
  ASSUME TypeOK, NEW t \in Threads
  PROVE  Held(t) \in RelayStruct
BY Zenon DEF TypeOK, Held, CtlStruct

\* The same for a control thread.
LEMMA LocalsType ==
  ASSUME TypeOK, NEW t \in Threads, NEW l \in CtlLabels
  PROVE  Locals(t, l) \in CtlStruct
BY Zenon DEF TypeOK, CtlStruct, Locals, CpuOrNone

\* A step of a control thread keeps the types if it writes a relay struct.
LEMMA CStepType ==
  ASSUME TypeOK, NEW t \in Threads, NEW at, NEW l \in CtlLabels,
         NEW v \in RelayStruct, CStep(t, at, l, v)
  PROVE  TypeOK'
<1>1. ctl[t].r \in Relays
  BY Zenon DEF TypeOK, CtlStruct
<1> QED BY Zenon, <1>1, LocalsType DEF CStep, TypeOK

\* Raising need_update, with the index -1 too.
LEMMA FlagType ==
  ASSUME TypeOK, NEW c \in CpuOrNone, Flag(c)
  PROVE  need_update' \in [Cpus -> BOOLEAN]
BY Zenon DEF Flag, TypeOK, CpuOrNone

\* A step that raises a flag.
LEMMA CFlagType ==
  ASSUME TypeOK, NEW t \in Threads, NEW at, NEW l \in CtlLabels,
         NEW c \in CpuOrNone, CFlag(t, at, l, c)
  PROVE  TypeOK'
BY Zenon, LocalsType, FlagType DEF CFlag, TypeOK

\* A call of an operation.
LEMMA CallType ==
  ASSUME TypeOK, NEW t \in Threads, NEW op, NEW r \in Relays, NEW l \in CtlLabels,
         NEW v \in RelayStruct, Call(t, op, r, l, v)
  PROVE  TypeOK'
<1>1. [ctl[t] EXCEPT !.pc = l, !.r = r] \in CtlStruct
  BY ZenonT(60) DEF TypeOK, CtlStruct
<1> QED BY Zenon, <1>1 DEF Call, TypeOK

\* The loop of worker_func outside a pass.
LEMMA WLocalType ==
  ASSUME TypeOK, NEW c \in Cpus, NEW w \in WorkerStruct, WLocal(c, w)
  PROVE  TypeOK'
BY Zenon DEF WLocal, TypeOK

\* The loop of worker_func with update_thread keeps sets of relays.
LEMMA WorkerLoopType ==
  ASSUME TypeOK, NEW c \in Cpus,
         worker_func_head(c) \/ update_thread(c) \/ worker_func_next(c)
  PROVE  TypeOK'
<1> DEFINE w == worker[c]
<1>1. w \in WorkerStruct
  BY Zenon DEF TypeOK
<1>2. /\ w.todo \in SUBSET Relays /\ w.active \in SUBSET Relays
      /\ w.scan \in SUBSET Relays /\ w.new \in SUBSET Relays
  BY Zenon, <1>1 DEF WorkerStruct
<1>3. CASE worker_func_head(c)
  <2> DEFINE u == [w EXCEPT !.todo = w.active]
  <2>1. /\ [u EXCEPT !.pc = "scan", !.scan = Relays] \in WorkerStruct
        /\ [u EXCEPT !.pc = "next"] \in WorkerStruct
    BY ZenonT(60), <1>1, <1>2 DEF WorkerStruct, WorkerLabels
  <2> QED BY Zenon, <1>3, <2>1 DEF worker_func_head, TypeOK
<1>4. CASE update_thread(c)
  <2>1. \A r \in w.scan : [w EXCEPT !.scan = w.scan \ {r},
                                    !.new  = w.new \cup {x \in {r} : Serves(c, x)}]
                          \in WorkerStruct
    BY ZenonT(30), <1>1, <1>2 DEF WorkerStruct
  <2>2. [w EXCEPT !.active = w.new, !.new = {}, !.pc = "next"] \in WorkerStruct
    BY ZenonT(30), <1>1, <1>2 DEF WorkerStruct, WorkerLabels
  <2> QED BY ZenonT(30), <1>4, <2>1, <2>2, WLocalType DEF update_thread
<1>5. CASE worker_func_next(c)
  <2>1. [w EXCEPT !.pc = "head"] \in WorkerStruct
    BY Zenon, <1>1 DEF WorkerStruct, WorkerLabels
  <2>2. \A r \in w.todo, l \in {"lock_vio", "vf2vm"} :
          [w EXCEPT !.r = r, !.todo = w.todo \ {r}, !.pc = l] \in WorkerStruct
    BY ZenonT(60), <1>1, <1>2 DEF WorkerStruct, WorkerLabels
  <2> QED BY ZenonT(30), <1>5, <2>1, <2>2, WLocalType DEF worker_func_next
<1> QED BY Zenon, <1>3, <1>4, <1>5

\* A relay struct with one field changed is a relay struct.
LEMMA StateUpdate ==
  ASSUME NEW v \in RelayStruct
  PROVE  /\ \A s \in {"UNINIT", "READY", "REMOVING1", "REMOVING2"} :
              [v EXCEPT !.vio_state = s] \in RelayStruct
         /\ \A s \in {"UNINIT", "ADDED", "READY", "REMOVING1", "REMOVING2"} :
              [v EXCEPT !.dpdk_state = s] \in RelayStruct
BY ZenonT(30) DEF RelayStruct

\* The same for the CPUs,
LEMMA CpuUpdate ==
  ASSUME NEW v \in RelayStruct, NEW c \in CpuOrNone
  PROVE  ToVioCpu(v, c) \in RelayStruct /\ ToVfCpu(v, c) \in RelayStruct
BY Zenon DEF RelayStruct, ToVioCpu, ToVfCpu

\* the locks,
LEMMA LockUpdate ==
  ASSUME NEW v \in RelayStruct, NEW b \in BOOLEAN
  PROVE  [v EXCEPT !.vio_sl = b] \in RelayStruct /\ [v EXCEPT !.dpdk_sl = b] \in RelayStruct
BY ZenonT(30) DEF RelayStruct

\* the packet caches,
LEMMA PacketUpdate ==
  ASSUME NEW v \in RelayStruct, NEW b \in BOOLEAN
  PROVE  [v EXCEPT !.tx_pkts = b] \in RelayStruct /\ [v EXCEPT !.rx_pkts = b] \in RelayStruct
BY Zenon DEF RelayStruct

\* the VM's fields and the pool,
LEMMA VmUpdate ==
  ASSUME NEW v \in RelayStruct
  PROVE  /\ \A b \in BOOLEAN : [v EXCEPT !.lm_pending = b] \in RelayStruct
         /\ \A b \in BOOLEAN : [v EXCEPT !.vio_dev = b] \in RelayStruct
         /\ \A p \in Pools : [v EXCEPT !.mempool = p] \in RelayStruct
BY ZenonT(30) DEF RelayStruct

\* and the port.
LEMMA PortUpdate ==
  ASSUME NEW v \in RelayStruct
  PROVE  /\ \A d \in {"detached", "stopped", "started", "closed"} :
              [v EXCEPT !.vf_dev = d] \in RelayStruct
         /\ \A q \in {"none", "current", "freed"} :
              [v EXCEPT !.vf_pool = q] \in RelayStruct
BY ZenonT(30) DEF RelayStruct

\* The fields of a relay struct.
LEMMA RelayFields ==
  ASSUME NEW v \in RelayStruct
  PROVE  /\ v.vio_state \in {"UNINIT", "READY", "REMOVING1", "REMOVING2"}
         /\ v.dpdk_state \in {"UNINIT", "ADDED", "READY", "REMOVING1", "REMOVING2"}
         /\ v.vio2vf_cpu \in CpuOrNone /\ v.vf2vio_cpu \in CpuOrNone
         /\ v.mempool \in Pools
         /\ v.vf_dev \in {"detached", "stopped", "started", "closed"}
         /\ v.vf_pool \in {"none", "current", "freed"}
BY Zenon DEF RelayStruct

\* Every step of a pass over a relay.
LEMMA WorkerPassType ==
  ASSUME TypeOK, NEW c \in Cpus,
         \/ worker_trylock_vio(c) \/ relay_vm2vf_traffic(c) \/ worker_unlock_vio(c)
         \/ worker_func_vf2vm(c) \/ worker_trylock_dpdk(c) \/ relay_vf2vm_traffic(c)
         \/ worker_unlock_dpdk(c)
  PROVE  TypeOK'
<1> DEFINE v == Mine(c)
<1>1. v \in RelayStruct
  BY Zenon, MineType
<1> USE <1>1, WStepType DEF WorkerLabels
<1>2. CASE worker_trylock_vio(c)
  BY ZenonT(30), <1>2, LockUpdate DEF worker_trylock_vio
<1>3. CASE virtio_rx(c)
  BY ZenonT(30), <1>3 DEF virtio_rx
<1>4. CASE virtio_rx_dequeue(c)
  BY ZenonT(30), <1>4, PacketUpdate DEF virtio_rx_dequeue
<1>5. CASE dpdk_tx(c)
  BY ZenonT(30), <1>5, PacketUpdate DEF dpdk_tx
<1>6. CASE dpdk_tx_burst(c)
  BY ZenonT(30), <1>6, PacketUpdate DEF dpdk_tx_burst
<1>7. CASE vm2vf_signal(c)
  BY ZenonT(30), <1>7, StateUpdate DEF vm2vf_signal
<1>8. CASE vm2vf_alone(c)
  <2>1. [v EXCEPT !.vio_state = IF v.vf2vio_cpu = NoCpu THEN "UNINIT" ELSE v.vio_state]
          \in RelayStruct
    BY ZenonT(30), RelayFields, StateUpdate
  <2> QED BY Zenon, <1>8, <2>1 DEF vm2vf_alone
<1>9. CASE worker_remove_vf_lock(c)
  BY ZenonT(30), <1>9, LockUpdate DEF worker_remove_vf_lock
<1>10. CASE worker_remove_vf_free(c)
  BY ZenonT(30), <1>10, LockUpdate, PacketUpdate, StateUpdate DEF worker_remove_vf_free
<1>11. CASE worker_unlock_vio(c)
  BY ZenonT(30), <1>11, LockUpdate DEF worker_unlock_vio
<1>12. CASE worker_func_vf2vm(c)
  BY Zenon, <1>12 DEF worker_func_vf2vm
<1>13. CASE worker_trylock_dpdk(c)
  BY ZenonT(30), <1>13, LockUpdate DEF worker_trylock_dpdk
<1>14. CASE dpdk_rx(c)
  BY ZenonT(30), <1>14 DEF dpdk_rx
<1>15. CASE dpdk_rx_burst(c)
  BY ZenonT(30), <1>15, PacketUpdate DEF dpdk_rx_burst
<1>16. CASE virtio_tx(c)
  BY ZenonT(30), <1>16, PacketUpdate DEF virtio_tx
<1>17. CASE virtio_tx_enqueue(c)
  BY ZenonT(30), <1>17, PacketUpdate DEF virtio_tx_enqueue
<1>18. CASE worker_remove_virtio_lock(c)
  BY ZenonT(30), <1>18, LockUpdate, PacketUpdate DEF worker_remove_virtio_lock
<1>19. CASE worker_remove_virtio_free(c)
  BY ZenonT(30), <1>19, LockUpdate, PacketUpdate, StateUpdate DEF worker_remove_virtio_free
<1>20. CASE vf2vm_signal(c)
  BY ZenonT(30), <1>20, StateUpdate DEF vf2vm_signal
<1>21. CASE vf2vm_alone(c)
  <2>1. [v EXCEPT !.dpdk_state = IF v.vio2vf_cpu = NoCpu THEN "UNINIT" ELSE v.dpdk_state]
          \in RelayStruct
    BY ZenonT(30), RelayFields, StateUpdate
  <2> QED BY Zenon, <1>21, <2>1 DEF vf2vm_alone
<1>22. CASE worker_unlock_dpdk(c)
  BY ZenonT(30), <1>22, LockUpdate DEF worker_unlock_dpdk
<1> QED
  BY Zenon, <1>2, <1>3, <1>4, <1>5, <1>6, <1>7, <1>8, <1>9, <1>10, <1>11, <1>12, <1>13, <1>14, <1>15, <1>16, <1>17, <1>18, <1>19, <1>20, <1>21, <1>22
     DEF relay_vm2vf_traffic, relay_vf2vm_traffic

\* The search for a CPU, with the labels of its three callers.
LEMMA FindCpuType ==
  ASSUME TypeOK, NEW t \in Threads,
         NEW find \in CtlLabels, NEW pick \in CtlLabels, NEW done \in CtlLabels,
         find_virtio2vf_cpu(t, find, pick, done) \/ find_vf2virtio_cpu(t, find, pick, done)
  PROVE  TypeOK'
<1> DEFINE v == Held(t)
           conf == ConfCpu[ctl[t].r]
<1>1. v \in RelayStruct /\ v.vio2vf_cpu \in CpuOrNone /\ v.vf2vio_cpu \in CpuOrNone
  BY Zenon, HeldType, RelayFields
<1>2. ctl[t].r \in Relays
  BY Zenon DEF TypeOK, CtlStruct
<1>3. conf.vio2vf \in CpuOrNone /\ conf.vf2vio \in CpuOrNone
  BY Zenon, <1>2, ConfAssumption
<1>4. NoCpu \in CpuOrNone /\ \A c \in Cpus : c \in CpuOrNone
  BY Zenon DEF CpuOrNone
<1>5. \A c \in CpuOrNone : ToVioCpu(v, c) \in RelayStruct /\ ToVfCpu(v, c) \in RelayStruct
  BY Zenon, <1>1, CpuUpdate
<1>6. CASE find_virtio2vf_cpu(t, find, pick, done)
  <2>1. CASE CStep(t, find, done, ToVioCpu(v, conf.vio2vf))
    BY Zenon, <1>3, <1>5, <2>1, CStepType
  <2>2. CASE /\ Flag(v.vio2vf_cpu)
             /\ relay' = [relay EXCEPT ![ctl[t].r] = ToVioCpu(v, NoCpu)]
             /\ ctl' = [ctl EXCEPT ![t] = Locals(t, pick)]
             /\ UNCHANGED worker
    <3>1. need_update' \in [Cpus -> BOOLEAN]
      BY Zenon, <1>1, <2>2, FlagType
    <3> QED BY Zenon, <1>2, <1>4, <1>5, <2>2, <3>1, LocalsType DEF TypeOK
  <2>3. CASE \E c \in Cpus : CStep(t, pick, done, ToVioCpu(v, c))
    BY Zenon, <1>4, <1>5, <2>3, CStepType
  <2> QED BY Zenon, <1>6, <2>1, <2>2, <2>3 DEF find_virtio2vf_cpu, FindCpu
<1>7. CASE find_vf2virtio_cpu(t, find, pick, done)
  <2>1. CASE CStep(t, find, done, ToVfCpu(v, conf.vf2vio))
    BY Zenon, <1>3, <1>5, <2>1, CStepType
  <2>2. CASE /\ Flag(v.vf2vio_cpu)
             /\ relay' = [relay EXCEPT ![ctl[t].r] = ToVfCpu(v, NoCpu)]
             /\ ctl' = [ctl EXCEPT ![t] = Locals(t, pick)]
             /\ UNCHANGED worker
    <3>1. need_update' \in [Cpus -> BOOLEAN]
      BY Zenon, <1>1, <2>2, FlagType
    <3> QED BY Zenon, <1>2, <1>4, <1>5, <2>2, <3>1, LocalsType DEF TypeOK
  <2>3. CASE \E c \in Cpus : CStep(t, pick, done, ToVfCpu(v, c))
    BY Zenon, <1>4, <1>5, <2>3, CStepType
  <2> QED BY Zenon, <1>7, <2>1, <2>2, <2>3 DEF find_vf2virtio_cpu, FindCpu
<1> QED BY Zenon, <1>6, <1>7

\* What the operations do to the port and to the device behind a relay.
LEMMA DeviceTypes ==
  ASSUME NEW v \in RelayStruct
  PROVE  /\ \A p \in Pools : PoolFreed(v, p) \in RelayStruct
         /\ PoolThere(v) \in RelayStruct
         /\ Attached(v) \in RelayStruct
         /\ Stopped(v) \in RelayStruct
         /\ DeviceGone(v) \in RelayStruct
         /\ Detached(v) \in RelayStruct
         /\ DetachFailed(v) \subseteq RelayStruct
<1> USE RelayFields
<1>1. ASSUME NEW p \in Pools PROVE PoolFreed(v, p) \in RelayStruct
  <2>1. PICK u \in RelayStruct : u = [v EXCEPT !.mempool = p]
    BY Zenon, VmUpdate
  <2>2. \A q \in {"none", "current", "freed"} : [v EXCEPT !.mempool = p, !.vf_pool = q] \in RelayStruct
    BY Zenon, <2>1, PortUpdate
  <2> QED BY ZenonT(30), <2>2 DEF PoolFreed
<1>6. PoolThere(v) \in RelayStruct
  BY ZenonT(30), VmUpdate DEF PoolThere, Pools
<1>7. Attached(v) \in RelayStruct
  <2>1. PICK u \in RelayStruct : u = PoolThere(v)
    BY Zenon, <1>6
  <2>2. PICK w \in RelayStruct : w = [u EXCEPT !.vf_dev = "stopped"]
    BY Zenon, PortUpdate
  <2>3. \A q \in {"none", "current", "freed"} : [u EXCEPT !.vf_dev = "stopped", !.vf_pool = q] \in RelayStruct
    BY Zenon, <2>2, PortUpdate
  <2> QED BY ZenonT(30), <2>1, <2>3 DEF Attached
<1>2. Stopped(v) \in RelayStruct
  BY ZenonT(30), PortUpdate DEF Stopped
<1>3. DeviceGone(v) \in RelayStruct
  BY ZenonT(30), VmUpdate DEF DeviceGone
<1>4. Detached(v) \in RelayStruct
  BY ZenonT(30), PortUpdate DEF Detached
<1>5. DetachFailed(v) \subseteq RelayStruct
  BY ZenonT(30), PortUpdate DEF DetachFailed
<1> QED BY Zenon, <1>1, <1>2, <1>3, <1>4, <1>5, <1>6, <1>7

\* migrate_mempool and the connection of a VM.
LEMMA AddVirtioType ==
  ASSUME TypeOK, NEW t \in Threads, add_virtio_body(t)
  PROVE  TypeOK'
<1> DEFINE v == Held(t)
<1>1. v \in RelayStruct
  BY Zenon, HeldType
<1>2. v.vio2vf_cpu \in CpuOrNone /\ v.vf2vio_cpu \in CpuOrNone
  BY Zenon, <1>1, RelayFields
<1>3. AfterMigration(t) \in CtlLabels
  BY Zenon DEF AfterMigration, CtlLabels
<1>find. CASE \/ find_virtio2vf_cpu(t, "av_cpu", "av_cpu_pick", "av_ready")
              \/ find_vf2virtio_cpu(t, "av_vf_cpu", "av_vf_cpu_pick", "av_start")
  <2>1. /\ {"av_cpu", "av_cpu_pick", "av_ready"} \subseteq CtlLabels
        /\ {"av_vf_cpu", "av_vf_cpu_pick", "av_start"} \subseteq CtlLabels
    BY DEF CtlLabels
  <2> QED BY Zenon, <1>find, <2>1, FindCpuType
<1> USE <1>1, CStepType DEF CtlLabels
<1>4. CASE migrate_mempool_alloc(t)
  BY ZenonT(30), <1>3, <1>4, DeviceTypes DEF migrate_mempool_alloc
<1>5. CASE migrate_mempool_lock(t)
  BY ZenonT(30), <1>5, LockUpdate DEF migrate_mempool_lock
<1>6. CASE migrate_mempool_swap(t)
  <2>1. /\ PoolFreed(v, "freed") \in RelayStruct /\ [v EXCEPT !.mempool = "pool"] \in RelayStruct
        /\ [v EXCEPT !.dpdk_sl = FALSE, !.vio_sl = FALSE] \in RelayStruct
    BY ZenonT(30), DeviceTypes, VmUpdate, LockUpdate DEF Pools
  <2> QED BY ZenonT(30), <1>6, <2>1 DEF migrate_mempool_swap
<1>7. CASE migrate_mempool_queues(t)
  <2>1. [v EXCEPT !.vf_pool = IF v.dpdk_state = "ADDED" THEN "current" ELSE v.vf_pool]
          \in RelayStruct
    BY ZenonT(30), RelayFields, PortUpdate
  <2>2. [v EXCEPT !.vf_dev = "closed"] \in RelayStruct
    BY ZenonT(30), PortUpdate
  <2>3. PICK u \in RelayStruct : CStep(t, "mig_queues", AfterMigration(t), u)
    BY Zenon, <1>7, <2>1, <2>2 DEF migrate_mempool_queues
  <2> QED BY ZenonT(30), <1>3, <2>3
<1>8. CASE add_virtio_pool(t)
  BY ZenonT(30), <1>8, DeviceTypes, VmUpdate DEF add_virtio_pool
<1>9. CASE add_virtio_ready(t)
  BY ZenonT(60), <1>2, <1>9, StateUpdate, CFlagType DEF add_virtio_ready
<1>10. CASE add_virtio_start(t)
  <2>1. [v EXCEPT !.vf_dev = "started", !.lm_pending = FALSE] \in RelayStruct
    BY ZenonT(30), PortUpdate, VmUpdate
  <2> QED BY ZenonT(30), <1>10, <2>1 DEF add_virtio_start
<1>11. CASE add_virtio_vf_ready(t)
  BY ZenonT(30), <1>2, <1>11, StateUpdate, CFlagType DEF add_virtio_vf_ready
<1> QED BY Zenon, <1>4, <1>5, <1>6, <1>7, <1>8, <1>9, <1>10, <1>11, <1>find
        DEF add_virtio_body, migrate_mempool

\* The removal of a VM.
LEMMA RemoveVirtioType ==
  ASSUME TypeOK, NEW t \in Threads, remove_virtio_body(t)
  PROVE  TypeOK'
<1> DEFINE v == Held(t)
<1>1. v \in RelayStruct
  BY Zenon, HeldType
<1>2. v.vio2vf_cpu \in CpuOrNone /\ v.vf2vio_cpu \in CpuOrNone /\ NoCpu \in CpuOrNone
  BY Zenon, <1>1, RelayFields DEF CpuOrNone
<1>3. ctl[t] \in CtlStruct /\ ctl[t].cpu \in CpuOrNone /\ ctl[t].r \in Relays
  BY Zenon DEF TypeOK, CtlStruct
<1> USE <1>1, CStepType DEF CtlLabels
<1>4. CASE remove_virtio_wait(t)
  BY ZenonT(30), <1>4, StateUpdate DEF remove_virtio_wait
<1>5. CASE remove_virtio_cpu(t)
  <2>1. [ctl[t] EXCEPT !.pc = "rv_flag", !.cpu = v.vio2vf_cpu] \in CtlStruct
    BY ZenonT(30), <1>2, <1>3 DEF CtlStruct
  <2>2. ToVioCpu(v, NoCpu) \in RelayStruct
    BY Zenon, <1>2, CpuUpdate
  <2> QED BY ZenonT(60), <1>3, <1>5, <2>1, <2>2, CFlagType DEF remove_virtio_cpu, TypeOK
<1>6. CASE remove_virtio_vf(t)
  <2>1. PoolFreed(v, "NULL") \in RelayStruct
    BY Zenon, DeviceTypes DEF Pools
  <2> QED BY ZenonT(60), <1>2, <1>6, <2>1, DeviceTypes, StateUpdate, CFlagType DEF remove_virtio_vf
<1> QED BY Zenon, <1>4, <1>5, <1>6 DEF remove_virtio_body

\* The addition of a VF.
LEMMA AddVfType ==
  ASSUME TypeOK, NEW t \in Threads, add_vf_body(t)
  PROVE  TypeOK'
<1> DEFINE v == Held(t)
<1>1. v \in RelayStruct
  BY Zenon, HeldType
<1>2. /\ v.vf2vio_cpu \in CpuOrNone /\ v.mempool \in Pools
      /\ v.vf_dev \in {"detached", "stopped", "started", "closed"}
  BY Zenon, <1>1, RelayFields
<1>3. /\ ctl[t] \in CtlStruct /\ ctl[t].r \in Relays /\ ctl[t].st \in {"ADDED", "READY"}
  BY Zenon DEF TypeOK, CtlStruct
<1>find. CASE find_vf2virtio_cpu(t, "af_cpu", "af_cpu_pick", "af_state")
  <2>1. {"af_cpu", "af_cpu_pick", "af_state"} \subseteq CtlLabels
    BY ZenonT(30) DEF CtlLabels
  <2> QED BY Zenon, <1>find, <2>1, FindCpuType
<1> USE <1>1, CStepType DEF CtlLabels
<1>4. CASE add_vf_attach(t)
  <2>1. Attached(v) \in RelayStruct
    BY Zenon, DeviceTypes
  <2>2. \A u \in {v} \cup DetachFailed([v EXCEPT !.vf_dev = "stopped"]) : \A w \in {u, PoolThere(u)} :
          w \in RelayStruct
    BY ZenonT(30), PortUpdate, DeviceTypes
  <2>3. PICK u \in RelayStruct, l \in {"af_start", "idle"} : CStep(t, "af_attach", l, u)
    BY ZenonT(30), <1>2, <1>4, <2>1, <2>2 DEF add_vf_attach
  <2> QED BY ZenonT(30), <2>3
<1>5. CASE configure_dev_start(t)
  <2>1. CASE \E u \in {Detached(v)} \cup DetachFailed(v) : CStep(t, "af_start", "idle", u)
    BY ZenonT(30), <2>1, DeviceTypes
  <2> DEFINE started == v.vio_state = "READY"
  <2>2. CASE /\ ctl' = [ctl EXCEPT ![t] = [ctl[t] EXCEPT
                           !.pc = "af_cpu", !.st = IF started THEN "READY" ELSE "ADDED"]]
             /\ relay' = [relay EXCEPT ![ctl[t].r] = [v EXCEPT
                           !.lm_pending = FALSE,
                           !.vf_dev = IF started THEN "started" ELSE v.vf_dev]]
             /\ UNCHANGED <<need_update, worker>>
    <3>1. \A s \in {"READY", "ADDED"} :
            [ctl[t] EXCEPT !.pc = "af_cpu", !.st = s] \in CtlStruct
      BY ZenonT(60), <1>3 DEF CtlStruct
    <3>2. \A d \in {"started", v.vf_dev} :
            [v EXCEPT !.lm_pending = FALSE, !.vf_dev = d] \in RelayStruct
      BY ZenonT(30), <1>2, PortUpdate, VmUpdate
    <3> QED BY ZenonT(30), <1>3, <2>2, <3>1, <3>2 DEF TypeOK
  <2> QED BY Zenon, <1>5, <2>1, <2>2 DEF configure_dev_start
<1>6. CASE configure_dev_publish(t)
  BY ZenonT(30), <1>2, <1>3, <1>6, StateUpdate, CFlagType DEF configure_dev_publish
<1> QED BY Zenon, <1>find, <1>4, <1>5, <1>6 DEF add_vf_body

\* The removal of a VF.
LEMMA DetachDeviceType ==
  ASSUME TypeOK, NEW t \in Threads, detach_device(t)
  PROVE  TypeOK'
<1> DEFINE v == Held(t)
<1>1. v \in RelayStruct
  BY Zenon, HeldType
<1>2. v.vf2vio_cpu \in CpuOrNone /\ NoCpu \in CpuOrNone
  BY Zenon, <1>1, RelayFields DEF CpuOrNone
<1>3. ctl[t] \in CtlStruct /\ ctl[t].cpu \in CpuOrNone /\ ctl[t].r \in Relays
  BY Zenon DEF TypeOK, CtlStruct
<1> USE <1>1, CStepType DEF CtlLabels
<1>4. CASE stop_vm2vf_thread(t)
  BY ZenonT(30), <1>4, StateUpdate DEF stop_vm2vf_thread
<1>5. CASE detach_device_cpu(t)
  <2>1. [ctl[t] EXCEPT !.pc = "rf_flag", !.cpu = v.vf2vio_cpu] \in CtlStruct
    BY ZenonT(30), <1>2, <1>3 DEF CtlStruct
  <2>2. ToVfCpu(v, NoCpu) \in RelayStruct
    BY Zenon, <1>2, CpuUpdate
  <2> QED BY ZenonT(60), <1>3, <1>5, <2>1, <2>2, CFlagType DEF detach_device_cpu, TypeOK
<1>6. CASE detach_device_port(t)
  <2>1. PoolFreed(v, "NULL") \in RelayStruct
    BY Zenon, DeviceTypes DEF Pools
  <2> QED BY ZenonT(30), <1>6, <2>1, DeviceTypes DEF detach_device_port
<1> QED BY Zenon, <1>4, <1>5, <1>6 DEF detach_device

\* The migration to other CPUs.
LEMMA MigrateType ==
  ASSUME TypeOK, NEW t \in Threads, migrate_vio(t) \/ migrate_dpdk(t)
  PROVE  TypeOK'
<1> DEFINE v == Held(t)
<1>1. v \in RelayStruct
  BY Zenon, HeldType
<1>2. v.vio2vf_cpu \in CpuOrNone /\ v.vf2vio_cpu \in CpuOrNone
  BY Zenon, <1>1, RelayFields
<1>3. ctl[t] \in CtlStruct /\ ctl[t].cpu \in CpuOrNone /\ ctl[t].r \in Relays
  BY Zenon DEF TypeOK, CtlStruct
<1>4. ASSUME NEW c \in Cpus, NEW l \in CtlLabels, NEW old \in CpuOrNone,
             NEW u \in {ToVioCpu(v, c), ToVfCpu(v, c)},
             Flag(old), relay' = [relay EXCEPT ![ctl[t].r] = u],
             ctl' = [ctl EXCEPT ![t] = [ctl[t] EXCEPT !.pc = l, !.cpu = c]],
             UNCHANGED worker
      PROVE  TypeOK'
  <2>1. [ctl[t] EXCEPT !.pc = l, !.cpu = c] \in CtlStruct
    BY ZenonT(30), <1>3 DEF CtlStruct, CpuOrNone
  <2>2. u \in RelayStruct
    BY Zenon, <1>1, CpuUpdate DEF CpuOrNone
  <2>3. need_update' \in [Cpus -> BOOLEAN]
    BY Zenon, <1>4, FlagType
  <2> QED BY Zenon, <1>3, <1>4, <2>1, <2>2, <2>3 DEF TypeOK
<1>5. {"mg_vio_flag", "mg_dpdk_test", "mg_dpdk", "mg_dpdk_flag", "idle"} \subseteq CtlLabels
  BY ZenonT(30) DEF CtlLabels
<1>6. CASE migrate_vio(t)
  BY ZenonT(60), <1>1, <1>2, <1>3, <1>4, <1>5, <1>6, CStepType, CFlagType DEF migrate_vio, MoveCpu
<1>7. CASE migrate_dpdk(t)
  BY ZenonT(30), <1>1, <1>2, <1>3, <1>4, <1>5, <1>7, CStepType, CFlagType DEF migrate_dpdk, MoveCpu
<1> QED BY Zenon, <1>6, <1>7

\* The first steps of the operations.
LEMMA RequestType ==
  ASSUME TypeOK, NEW r \in Relays, Request(r)
  PROVE  TypeOK'
<1>1. relay[r] \in RelayStruct
  BY Zenon DEF TypeOK
<1>2. "vhost" \in Threads /\ "port" \in Threads /\ "sched" \in Threads
  BY Zenon DEF Threads
<1> USE <1>1, <1>2, CallType DEF CtlLabels
<1>3. CASE add_virtio(r)
  BY ZenonT(30), <1>3, VmUpdate DEF add_virtio
<1>4. CASE remove_virtio("vhost", r) \/ remove_virtio("port", r)
  BY ZenonT(60), <1>4, DeviceTypes DEF remove_virtio
<1>5. CASE features_changed_cb(r)
  BY ZenonT(30), <1>5, VmUpdate DEF features_changed_cb
<1>6. CASE add_vf2(r) \/ bond_add(r)
  BY ZenonT(60), <1>6 DEF add_vf2, bond_add
<1>7. CASE remove_vf2(r)
  <2>1. \E l \in {"idle", "rf_cpu", "rf_mark"} : Call("port", "remove_vf", r, l, relay[r])
    BY Zenon, <1>7 DEF remove_vf2
  <2> QED BY ZenonT(60), <2>1
<1>8. CASE migrate_relay_cpus(r)
  BY ZenonT(30), <1>8 DEF migrate_relay_cpus
<1> QED BY Zenon, <1>3, <1>4, <1>5, <1>6, <1>7, <1>8 DEF Request

\* virtio_forwarders_initialize leaves well-formed structs.
LEMMA TypeInit == Init => TypeOK
<1> SUFFICES ASSUME Init PROVE TypeOK
  BY Zenon
<1>1. relay \in [Relays -> RelayStruct]
  BY Zenon DEF Init, InitialRelay, RelayStruct, Pools, CpuOrNone
<1>2. need_update \in [Cpus -> BOOLEAN]
  BY Zenon DEF Init
<1>3. worker \in [Cpus -> WorkerStruct]
  BY DEF Init, WorkerStruct, WorkerLabels
<1>4. ctl \in [Threads -> CtlStruct]
  BY DEF Init, CtlStruct, CtlLabels, CpuOrNone
<1> QED BY Zenon, <1>1, <1>2, <1>3, <1>4 DEF TypeOK

\* Every step keeps the types.
LEMMA TypeStep == TypeOK /\ [Next]_vars => TypeOK'
<1> SUFFICES ASSUME TypeOK, [Next]_vars PROVE TypeOK'
  BY Zenon
<1>1. ASSUME NEW c \in Cpus, worker_func(c) PROVE TypeOK'
  BY Zenon, <1>1, WorkerLoopType, WorkerPassType DEF worker_func
<1>2. ASSUME NEW t \in Threads, Continue(t) PROVE TypeOK'
  BY Zenon, <1>2, AddVirtioType, RemoveVirtioType, AddVfType, DetachDeviceType, MigrateType
     DEF Continue
<1>3. ASSUME NEW r \in Relays, Request(r) PROVE TypeOK'
  BY Zenon, <1>3, RequestType
<1>4. CASE UNCHANGED vars
  BY Zenon, <1>4 DEF vars, TypeOK
<1> QED BY Zenon, <1>1, <1>2, <1>3, <1>4 DEF Next

\* Every field and every local keeps its type, whatever the operations, faults
\* and interleavings: no CPU field ever names a CPU without a worker.
THEOREM TypeCorrect == Spec => []TypeOK
<1>1. Init => TypeOK
  BY Zenon, TypeInit
<1>2. TypeOK /\ [Next]_vars => TypeOK'
  BY Zenon, TypeStep
<1> QED BY ZenonT(60), <1>1, <1>2, PTL DEF Spec
=============================================================================
