-------------------------------- MODULE Relay --------------------------------
(***************************************************************************)
(* The relays of virtio_worker.c.  A relay joins the vhost-user device of  *)
(* a VM to an SR-IOV VF (or a bond of VFs).  Worker threads, one per CPU,  *)
(* poll the relays assigned to them; control threads connect and remove    *)
(* VMs and VFs and move relays between CPUs.  They share the relay structs *)
(* and talk through the state and CPU fields of both sides, one spinlock   *)
(* per direction and the need_update flag of each worker.                  *)
(*                                                                         *)
(* A step makes one access to what other threads write at the same time,   *)
(* except where a comment says otherwise.                                  *)
(***************************************************************************)
EXTENDS Integers, FiniteSets

CONSTANTS
  Relays,    \* indices of virtio_vf_relays
  Cpus,      \* CPUs of worker_core_bitmap, each running worker_func
  NoCpu,     \* the value -1 of vio2vf_cpu and vf2vio_cpu
  ConfCpu,   \* relay_cpus: the CPUs configured for a relay
  Ops,       \* the control operations in use, a subset of AllOps
  Faults,    \* what may go wrong, a subset of AllFaults
  Apart      \* TRUE: control operations on one relay come one at a time

AllOps == {"add_virtio", "remove_virtio", "features_changed", "add_vf",
           "bond_add", "remove_vf", "sock_remove_virtio", "migrate"}

AllFaults == {"timeout", "start", "refuse", "alloc", "queues", "attach", "detach"}

CpuOrNone == Cpus \cup {NoCpu}

ASSUME CpuAssumption == NoCpu \notin Cpus
ASSUME ConfAssumption ==
  ConfCpu \in [Relays -> [vio2vf : CpuOrNone, vf2vio : CpuOrNone]]
ASSUME OptionAssumption ==
  Ops \subseteq AllOps /\ Faults \subseteq AllFaults /\ Apart \in BOOLEAN

\* The thread of the vhost-user callbacks, the thread that adds and removes
\* VFs (ZeroMQ port control, OVSDB or file monitor) and the thread of the
\* CPU scheduler's requests.
Threads == {"vhost", "port", "sched"}

VARIABLES
  relay,        \* [Relays -> RelayStruct]
  need_update,  \* worker_threads[].need_update
  worker,       \* active_relays and the locals of worker_func
  ctl           \* the locals of the control threads

vars == <<relay, need_update, worker, ctl>>

\* What the mempool pointer of a relay is: NULL, or a pool, or one that has been
\* freed while the pointer still has its address.
Pools == {"NULL", "pool", "freed"}

\* struct relay_virtio and struct relay_dpdk, and the devices behind them.
\* The packet caches are reduced to `not empty'.
RelayStruct ==
  [vio_state  : {"UNINIT", "READY", "REMOVING1", "REMOVING2"},
   dpdk_state : {"UNINIT", "ADDED", "READY", "REMOVING1", "REMOVING2"},
   vio2vf_cpu : CpuOrNone,  vf2vio_cpu : CpuOrNone,
   vio_sl     : BOOLEAN,    dpdk_sl    : BOOLEAN,   \* TRUE while taken
   tx_pkts    : BOOLEAN,    rx_pkts    : BOOLEAN,   \* TRUE: packets are cached
   lm_pending : BOOLEAN,
   mempool    : Pools,
   vio_dev    : BOOLEAN,                            \* TRUE: the vhost device exists
   vf_dev     : {"detached", "stopped", "started", "closed"},
   vf_pool    : {"none", "current", "freed"}]       \* pool of the VF's RX queue

\* virtio_forwarders_initialize
InitialRelay ==
  [vio_state |-> "UNINIT", dpdk_state |-> "UNINIT", vio2vf_cpu |-> NoCpu,
   vf2vio_cpu |-> NoCpu, vio_sl |-> FALSE, dpdk_sl |-> FALSE, tx_pkts |-> FALSE,
   rx_pkts |-> FALSE, lm_pending |-> FALSE, mempool |-> "NULL", vio_dev |-> FALSE,
   vf_dev |-> "detached", vf_pool |-> "none"]

-----------------------------------------------------------------------------
(***************************************************************************)
(* Worker threads                                                          *)
(***************************************************************************)

\* The relay worker c is at.
Mine(c) == relay[worker[c].r]

\* Worker c goes from label `at' to label l and leaves its relay as v.
WStep(c, at, l, v) ==
  /\ worker[c].pc = at
  /\ worker' = [worker EXCEPT ![c] = [worker[c] EXCEPT !.pc = l]]
  /\ relay' = [relay EXCEPT ![worker[c].r] = v]
  /\ UNCHANGED <<need_update, ctl>>

\* The test of update_thread: worker c has a direction of relay r.
Serves(c, r) ==
  \/ relay[r].dpdk_state # "UNINIT" /\ relay[r].vf2vio_cpu = c
  \/ relay[r].vio_state # "UNINIT" /\ relay[r].vio2vf_cpu = c

\* Loop head: active_relays is copied before need_update is looked at.
worker_func_head(c) ==
  LET w == [worker[c] EXCEPT !.todo = worker[c].active] IN
  /\ worker[c].pc = "head"
  /\ worker' = [worker EXCEPT ![c] = IF need_update[c]
                                       THEN [w EXCEPT !.pc = "scan", !.scan = Relays]
                                       ELSE [w EXCEPT !.pc = "next"]]
  /\ need_update' = [need_update EXCEPT ![c] = FALSE]
  /\ UNCHANGED <<relay, ctl>>

\* Worker c changes nothing but its locals.
WLocal(c, w) ==
  /\ worker' = [worker EXCEPT ![c] = w]
  /\ UNCHANGED <<relay, need_update, ctl>>

\* Mutant of update_thread: the flag is cleared (again) after the scan.
update_thread_late_clear(c) ==
  LET w == worker[c] IN
  /\ w.pc = "scan"
  /\ \/ \E r \in w.scan :
          WLocal(c, [w EXCEPT !.scan = w.scan \ {r},
                              !.new  = w.new \cup {x \in {r} : Serves(c, x)}])
     \/ /\ w.scan = {}
        /\ worker' = [worker EXCEPT
                        ![c] = [w EXCEPT !.active = w.new, !.new = {}, !.pc = "next"]]
        /\ need_update' = [need_update EXCEPT ![c] = FALSE]
        /\ UNCHANGED <<relay, ctl>>

\* update_thread: look at every relay (in any order), then store the new set.
update_thread(c) ==
  LET w == worker[c] IN
  /\ w.pc = "scan"
  /\ \/ \E r \in w.scan :
          WLocal(c, [w EXCEPT !.scan = w.scan \ {r},
                              !.new  = w.new \cup {x \in {r} : Serves(c, x)}])
     \/ /\ w.scan = {}
        /\ WLocal(c, [w EXCEPT !.active = w.new, !.new = {}, !.pc = "next"])

\* Take the next relay of _active_relays (in any order) if there is one.
worker_func_next(c) ==
  LET w == worker[c] IN
  /\ w.pc = "next"
  /\ \/ w.todo = {} /\ WLocal(c, [w EXCEPT !.pc = "head"])
     \/ \E r \in w.todo :
          WLocal(c, [w EXCEPT !.r = r, !.todo = w.todo \ {r},
                              !.pc = IF relay[r].vio2vf_cpu = c THEN "lock_vio" ELSE "vf2vm"])

\* rte_spinlock_trylock: a direction whose lock is taken is skipped.
worker_trylock_vio(c) ==
  IF Mine(c).vio_sl THEN WStep(c, "lock_vio", "vf2vm", Mine(c))
                    ELSE WStep(c, "lock_vio", "virtio_rx", [Mine(c) EXCEPT !.vio_sl = TRUE])

-----------------------------------------------------------------------------
(* relay_vm2vf_traffic: VM to VF, under vio.sl *)

\* Called when nothing is cached; gives up unless the VM is READY.
virtio_rx(c) ==
  WStep(c, "virtio_rx", IF Mine(c).tx_pkts THEN "dpdk_tx"
                        ELSE IF Mine(c).vio_state = "READY" THEN "dequeue"
                        ELSE "vio_removing", Mine(c))

\* rte_vhost_dequeue_burst, into buffers of the relay's pool, returns packets or
\* none.  How the queue is chosen, and that the search for one may not end, is
\* in Daemon.
virtio_rx_dequeue(c) ==
  \E got \in BOOLEAN :
    WStep(c, "dequeue", IF got THEN "dpdk_tx" ELSE "vio_removing",
          [Mine(c) EXCEPT !.tx_pkts = got])

\* Unless the VF is READY the caller frees the cached packets.
dpdk_tx(c) ==
  IF Mine(c).dpdk_state = "READY"
    THEN WStep(c, "dpdk_tx", IF Mine(c).tx_pkts THEN "tx_burst" ELSE "vio_removing", Mine(c))
    ELSE WStep(c, "dpdk_tx", "vio_removing", [Mine(c) EXCEPT !.tx_pkts = FALSE])

\* rte_eth_tx_burst takes all packets or leaves some cached; as for
\* virtio_tx_enqueue, the count is written last.
dpdk_tx_burst(c) ==
  \E left \in BOOLEAN :
    WStep(c, "tx_burst", "vio_removing", [Mine(c) EXCEPT !.tx_pkts = left])

\* First half of a VM's removal: tell the worker of the other direction ...
vm2vf_signal(c) ==
  IF Mine(c).vio_state = "REMOVING1"
    THEN WStep(c, "vio_removing", "vio_alone", [Mine(c) EXCEPT !.vio_state = "REMOVING2"])
    ELSE WStep(c, "vio_removing", "vf_removing2", Mine(c))

\* Mutant of vm2vf_alone: the removal is finished although another worker has
\* the other direction.
vm2vf_alone_always(c) ==
  WStep(c, "vio_alone", "vf_removing2", [Mine(c) EXCEPT !.vio_state = "UNINIT"])

\* Mutant of vm2vf_alone: nobody finishes the removal.
vm2vf_alone_untested(c) == WStep(c, "vio_alone", "vf_removing2", Mine(c))

\* ... or finish the removal when no worker has the other direction.
vm2vf_alone(c) ==
  WStep(c, "vio_alone", "vf_removing2",
        [Mine(c) EXCEPT !.vio_state = IF Mine(c).vf2vio_cpu = NoCpu THEN "UNINIT" ELSE @])

\* Second half of a VF's removal.  The loop
\*   while (rte_spinlock_trylock(&relay->dpdk.sl));
\* ends when the trylock FAILS: a free lock is taken and the next try fails,
\* a lock that another worker holds is passed at once.
worker_remove_vf_lock(c) ==
  IF Mine(c).dpdk_state = "REMOVING2"
    THEN WStep(c, "vf_removing2", "free_rx", [Mine(c) EXCEPT !.dpdk_sl = TRUE])
    ELSE WStep(c, "vf_removing2", "unlock_vio", Mine(c))

\* Mutant of worker_remove_vf_free: the received packets stay cached.
worker_remove_vf_free_tx_only(c) ==
  \/ WStep(c, "free_rx", "free_tx", [Mine(c) EXCEPT !.dpdk_sl = FALSE])
  \/ WStep(c, "free_tx", "unlock_vio",
           [Mine(c) EXCEPT !.tx_pkts = FALSE, !.dpdk_state = "UNINIT"])

worker_remove_vf_free(c) ==
  \/ WStep(c, "free_rx", "free_tx", [Mine(c) EXCEPT !.rx_pkts = FALSE, !.dpdk_sl = FALSE])
  \/ WStep(c, "free_tx", "unlock_vio",
           [Mine(c) EXCEPT !.tx_pkts = FALSE, !.dpdk_state = "UNINIT"])

worker_unlock_vio(c) ==
  WStep(c, "unlock_vio", "vf2vm", [Mine(c) EXCEPT !.vio_sl = FALSE])

\* The first conjunct lists the labels of the steps, here and below.
relay_vm2vf_traffic(c) ==
  /\ worker[c].pc \in {"virtio_rx", "dequeue", "dpdk_tx", "tx_burst", "vio_removing", "vio_alone",
                       "vf_removing2", "free_rx", "free_tx"}
  /\ \/ virtio_rx(c) \/ virtio_rx_dequeue(c) \/ dpdk_tx(c) \/ dpdk_tx_burst(c)
     \/ vm2vf_signal(c) \/ vm2vf_alone(c)
     \/ worker_remove_vf_lock(c) \/ worker_remove_vf_free(c)

-----------------------------------------------------------------------------
(* relay_vf2vm_traffic: VF to VM, under dpdk.sl *)

worker_func_vf2vm(c) ==
  WStep(c, "vf2vm", IF Mine(c).vf2vio_cpu = c THEN "lock_dpdk" ELSE "next", Mine(c))

worker_trylock_dpdk(c) ==
  IF Mine(c).dpdk_sl THEN WStep(c, "lock_dpdk", "next", Mine(c))
                     ELSE WStep(c, "lock_dpdk", "dpdk_rx", [Mine(c) EXCEPT !.dpdk_sl = TRUE])

\* Called when nothing is cached; gives up unless the VF is READY.  The state
\* and lm_pending are read in one step.
dpdk_rx(c) ==
  WStep(c, "dpdk_rx", IF Mine(c).rx_pkts THEN "virtio_tx"
                      ELSE IF Mine(c).dpdk_state # "READY" THEN "vio_removing2"
                      ELSE IF Mine(c).lm_pending THEN "rx_burst" ELSE "avail", Mine(c))

\* rte_vhost_avail_entries, then rte_eth_rx_burst returns packets or none.
dpdk_rx_burst(c) ==
  \/ WStep(c, "avail", "rx_burst", Mine(c))
  \/ \E got \in BOOLEAN :
       WStep(c, "rx_burst", IF got THEN "virtio_tx" ELSE "vio_removing2",
             [Mine(c) EXCEPT !.rx_pkts = got])

\* Unless the VM is READY the caller frees the cached packets.
virtio_tx(c) ==
  IF Mine(c).vio_state = "READY"
    THEN WStep(c, "virtio_tx", IF Mine(c).rx_pkts THEN "enqueue" ELSE "vio_removing2", Mine(c))
    ELSE WStep(c, "virtio_tx", "vio_removing2", [Mine(c) EXCEPT !.rx_pkts = FALSE])

\* rte_vhost_enqueue_burst takes all packets or leaves some cached.  If
\* another worker empties the cache meanwhile, the count is written after
\* that: rx_pkts_avail -= sent wraps around.
virtio_tx_enqueue(c) ==
  \E left \in BOOLEAN :
    WStep(c, "enqueue", "vio_removing2", [Mine(c) EXCEPT !.rx_pkts = left])

\* Second half of a VM's removal; vio.sl is passed like dpdk.sl above.
worker_remove_virtio_lock(c) ==
  IF Mine(c).vio_state = "REMOVING2"
    THEN WStep(c, "vio_removing2", "drop_tx",
               [Mine(c) EXCEPT !.rx_pkts = FALSE, !.vio_sl = TRUE])
    ELSE WStep(c, "vio_removing2", "vf_removing", Mine(c))

worker_remove_virtio_free(c) ==
  \/ WStep(c, "drop_tx", "vio_uninit", [Mine(c) EXCEPT !.tx_pkts = FALSE, !.vio_sl = FALSE])
  \/ WStep(c, "vio_uninit", "vf_removing", [Mine(c) EXCEPT !.vio_state = "UNINIT"])

\* First half of a VF's removal.
vf2vm_signal(c) ==
  IF Mine(c).dpdk_state = "REMOVING1"
    THEN WStep(c, "vf_removing", "vf_alone", [Mine(c) EXCEPT !.dpdk_state = "REMOVING2"])
    ELSE WStep(c, "vf_removing", "unlock_dpdk", Mine(c))

vf2vm_alone(c) ==
  WStep(c, "vf_alone", "unlock_dpdk",
        [Mine(c) EXCEPT !.dpdk_state = IF Mine(c).vio2vf_cpu = NoCpu THEN "UNINIT" ELSE @])

worker_unlock_dpdk(c) ==
  WStep(c, "unlock_dpdk", "next", [Mine(c) EXCEPT !.dpdk_sl = FALSE])

relay_vf2vm_traffic(c) ==
  /\ worker[c].pc \in {"dpdk_rx", "avail", "rx_burst", "virtio_tx", "enqueue", "vio_removing2",
                       "drop_tx", "vio_uninit", "vf_removing", "vf_alone"}
  /\ \/ dpdk_rx(c) \/ dpdk_rx_burst(c) \/ virtio_tx(c) \/ virtio_tx_enqueue(c)
     \/ worker_remove_virtio_lock(c) \/ worker_remove_virtio_free(c)
     \/ vf2vm_signal(c) \/ vf2vm_alone(c)

worker_func(c) ==
  \/ worker_func_head(c) \/ update_thread(c) \/ worker_func_next(c)
  \/ worker_trylock_vio(c) \/ relay_vm2vf_traffic(c) \/ worker_unlock_vio(c)
  \/ worker_func_vf2vm(c) \/ worker_trylock_dpdk(c) \/ relay_vf2vm_traffic(c)
  \/ worker_unlock_dpdk(c)

-----------------------------------------------------------------------------
(***************************************************************************)
(* Control threads.  A thread runs one operation on one relay at a time;   *)
(* its label is "idle" between operations.                                 *)
(***************************************************************************)

Held(t) == relay[ctl[t].r]

\* Worker c is in a pass over relay r.
InPass(c, r) == worker[c].r = r /\ worker[c].pc \notin {"head", "scan", "next"}

\* No other operation on r is under way and the workers have ended the pass
\* in which the last one met them.
Quiet(t, r) ==
  /\ \A u \in Threads \ {t} : ctl[u].pc = "idle" \/ ctl[u].r # r
  /\ \A c \in Cpus : ~InPass(c, r)

\* Thread t calls operation op on relay r; its first step leads to label l
\* ("idle": the call returns at once) and leaves the relay as v.
Call(t, op, r, l, v) ==
  /\ op \in Ops /\ ctl[t].pc = "idle"
  /\ Apart => Quiet(t, r)
  /\ ctl' = [ctl EXCEPT ![t] = [ctl[t] EXCEPT !.pc = l, !.r = r]]
  /\ relay' = [relay EXCEPT ![r] = v]
  /\ UNCHANGED <<need_update, worker>>

\* The locals of thread t when it goes on to label l; those of an operation
\* that returns are dead.
Locals(t, l) ==
  IF l = "idle" THEN [pc |-> l, r |-> ctl[t].r, cpu |-> NoCpu, st |-> "ADDED"]
                ELSE [ctl[t] EXCEPT !.pc = l]

CStep(t, at, l, v) ==
  /\ ctl[t].pc = at
  /\ ctl' = [ctl EXCEPT ![t] = Locals(t, l)]
  /\ relay' = [relay EXCEPT ![ctl[t].r] = v]
  /\ UNCHANGED <<need_update, worker>>

\* worker_threads[c].need_update = true.  The index -1 lies before the array,
\* where no worker's flag is.
Flag(c) ==
  need_update' = IF c = NoCpu THEN need_update ELSE [need_update EXCEPT ![c] = TRUE]

CFlag(t, at, l, c) ==
  /\ ctl[t].pc = at
  /\ ctl' = [ctl EXCEPT ![t] = Locals(t, l)]
  /\ Flag(c)
  /\ UNCHANGED <<relay, worker>>

\* rte_mempool_free, and the value of the pointer after it: an RX queue set up
\* with the pool now refers to freed memory.
PoolFreed(v, p) == [v EXCEPT !.mempool = p, !.vf_pool = IF @ = "current" THEN "freed" ELSE @]

\* alloc_mempool, for a relay that has no pool.
PoolThere(v) == [v EXCEPT !.mempool = IF @ = "NULL" THEN "pool" ELSE @]

\* rte_eth_dev_stop has no effect on a port that is closed or gone.
Stopped(v) == [v EXCEPT !.vf_dev = IF @ = "started" THEN "stopped" ELSE @]

\* A relay whose direction VM to VF, or VF to VM, is given to CPU c.
ToVioCpu(v, c) == [v EXCEPT !.vio2vf_cpu = c]
ToVfCpu(v, c) == [v EXCEPT !.vf2vio_cpu = c]

\* find_virtio2vf_cpu and find_vf2virtio_cpu: a configured CPU is taken;
\* otherwise the CPU held so far is flagged and given up (one step), and the
\* relay gets the idlest worker of its NUMA node, which can be any.
FindCpu(t, conf, old, To(_, _), find, pick, done) ==
  \/ conf # NoCpu /\ CStep(t, find, done, To(Held(t), conf))
  \/ /\ conf = NoCpu /\ ctl[t].pc = find
     /\ Flag(old)
     /\ relay' = [relay EXCEPT ![ctl[t].r] = To(Held(t), NoCpu)]
     /\ ctl' = [ctl EXCEPT ![t] = Locals(t, pick)]
     /\ UNCHANGED worker
  \/ \E c \in Cpus : CStep(t, pick, done, To(Held(t), c))

\* Mutant of find_virtio2vf_cpu: a CPU that runs no worker can be picked.
find_virtio2vf_cpu_any(t, find, pick, done) ==
  \/ FindCpu(t, ConfCpu[ctl[t].r].vio2vf, Held(t).vio2vf_cpu, ToVioCpu, find, pick, done)
  \/ CStep(t, pick, done, ToVioCpu(Held(t), "no worker"))

find_virtio2vf_cpu(t, find, pick, done) ==
  FindCpu(t, ConfCpu[ctl[t].r].vio2vf, Held(t).vio2vf_cpu, ToVioCpu, find, pick, done)

find_vf2virtio_cpu(t, find, pick, done) ==
  FindCpu(t, ConfCpu[ctl[t].r].vf2vio, Held(t).vf2vio_cpu, ToVfCpu, find, pick, done)

-----------------------------------------------------------------------------
(* migrate_mempool, called by add_virtio (vhost thread) and bond_add (port   *)
(* thread); both ignore its result.                                          *)

AfterMigration(t) == IF t = "vhost" THEN "av_cpu" ELSE "af_attach"

\* The assertions of migrate_mempool; the thread stops where one fails.
MigrationAsserts(v) == v.dpdk_state # "READY" /\ ~v.rx_pkts

\* Without memory the old pool is kept; otherwise an added VF is stopped.
migrate_mempool_alloc(t) ==
  \/ "alloc" \in Faults /\ CStep(t, "mig_alloc", AfterMigration(t), Held(t))
  \/ /\ MigrationAsserts(Held(t))
     /\ CStep(t, "mig_alloc", "mig_lock_vio",
              IF Held(t).dpdk_state = "ADDED" THEN Stopped(Held(t)) ELSE Held(t))

\* Mutant of migrate_mempool_lock: a lock that is taken is passed, as in the
\* workers' removals.
migrate_mempool_lock_passed(t) ==
  \/ CStep(t, "mig_lock_vio", "mig_lock_dpdk", [Held(t) EXCEPT !.vio_sl = TRUE])
  \/ CStep(t, "mig_lock_dpdk", "mig_free", [Held(t) EXCEPT !.dpdk_sl = TRUE])

\* while (rte_spinlock_trylock(...) == 0): these two loops wait for the lock.
migrate_mempool_lock(t) ==
  \/ /\ ~Held(t).vio_sl
     /\ CStep(t, "mig_lock_vio", "mig_lock_dpdk", [Held(t) EXCEPT !.vio_sl = TRUE])
  \/ /\ ~Held(t).dpdk_sl
     /\ CStep(t, "mig_lock_dpdk", "mig_free", [Held(t) EXCEPT !.dpdk_sl = TRUE])

\* Free the old pool if there is one, then put the new one in its place.
migrate_mempool_swap(t) ==
  \/ CStep(t, "mig_free", "mig_swap",
           IF Held(t).mempool = "NULL" THEN Held(t) ELSE PoolFreed(Held(t), "freed"))
  \/ CStep(t, "mig_swap", "mig_unlock", [Held(t) EXCEPT !.mempool = "pool"])
  \/ CStep(t, "mig_unlock", "mig_queues",
           [Held(t) EXCEPT !.dpdk_sl = FALSE, !.vio_sl = FALSE])

\* Mutant of migrate_mempool_queues: the queues keep the old pool.
migrate_mempool_queues_kept(t) == CStep(t, "mig_queues", AfterMigration(t), Held(t))

\* Set the queues of an added VF up with the new pool.  A failure to read the
\* port's information leaves them as they are, a failed setup closes the port.
migrate_mempool_queues(t) ==
  \E v \in {[Held(t) EXCEPT !.vf_pool = IF Held(t).dpdk_state = "ADDED" THEN "current" ELSE @]}
           \cup (IF "queues" \in Faults /\ Held(t).dpdk_state = "ADDED"
                   THEN {Held(t), [Held(t) EXCEPT !.vf_dev = "closed"]} ELSE {}) :
    CStep(t, "mig_queues", AfterMigration(t), v)

migrate_mempool(t) ==
  \/ migrate_mempool_alloc(t) \/ migrate_mempool_lock(t) \/ migrate_mempool_swap(t)
  \/ migrate_mempool_queues(t)

-----------------------------------------------------------------------------
(* virtio_forwarder_add_virtio, called through new_device_cb when a VM has   *)
(* connected.                                                                *)

\* A relay in use refuses.
add_virtio(r) ==
  /\ ~relay[r].vio_dev
  /\ IF relay[r].vio_state = "UNINIT"
       THEN Call("vhost", "add_virtio", r, "av_pool", [relay[r] EXCEPT !.vio_dev = TRUE])
       ELSE Call("vhost", "add_virtio", r, "idle", relay[r])

\* Too many queues or no memory: refused.  A missing pool is allocated, a
\* pool on another NUMA node than the guest's is migrated.
add_virtio_pool(t) ==
  \/ /\ "refuse" \in Faults \/ ("alloc" \in Faults /\ Held(t).mempool = "NULL")
     /\ CStep(t, "av_pool", "idle", [Held(t) EXCEPT !.vio_dev = FALSE])
  \/ CStep(t, "av_pool", "av_cpu", PoolThere(Held(t)))
  \/ Held(t).mempool # "NULL" /\ CStep(t, "av_pool", "mig_alloc", Held(t))

\* Publish the VM, flag its worker, and go on to a VF that was added before.
add_virtio_ready(t) ==
  \/ CStep(t, "av_ready", "av_flag", [Held(t) EXCEPT !.vio_state = "READY"])
  \/ CFlag(t, "av_flag", "av_vf", Held(t).vio2vf_cpu)
  \/ CStep(t, "av_vf", IF Held(t).dpdk_state = "ADDED" THEN "av_vf_cpu" ELSE "idle", Held(t))

\* A port that does not start stays ADDED; the call succeeds all the same.
add_virtio_start(t) ==
  \/ /\ "start" \in Faults \/ Held(t).vf_dev \in {"detached", "closed"}
     /\ CStep(t, "av_start", "idle", Held(t))
  \/ /\ Held(t).vf_dev \in {"stopped", "started"}
     /\ CStep(t, "av_start", "av_vf_ready",
              [Held(t) EXCEPT !.vf_dev = "started", !.lm_pending = FALSE])

add_virtio_vf_ready(t) ==
  \/ CStep(t, "av_vf_ready", "av_vf_flag", [Held(t) EXCEPT !.dpdk_state = "READY"])
  \/ CFlag(t, "av_vf_flag", "idle", Held(t).vf2vio_cpu)

add_virtio_body(t) ==
  \/ add_virtio_pool(t) \/ migrate_mempool(t)
  \/ find_virtio2vf_cpu(t, "av_cpu", "av_cpu_pick", "av_ready")
  \/ add_virtio_ready(t)
  \/ find_vf2virtio_cpu(t, "av_vf_cpu", "av_vf_cpu_pick", "av_start")
  \/ add_virtio_start(t) \/ add_virtio_vf_ready(t)

-----------------------------------------------------------------------------
(* virtio_forwarder_remove_virtio, called through destroy_device_cb, or by   *)
(* virtio_remove_sock_dev_pair, which then closes the socket: the device is  *)
(* gone when either returns.                                                 *)

DeviceGone(v) == [v EXCEPT !.vio_dev = FALSE]

remove_virtio(t, r) ==
  LET op == IF t = "vhost" THEN "remove_virtio" ELSE "sock_remove_virtio" IN
  /\ relay[r].vio_dev
  /\ IF relay[r].vio_state = "READY" THEN Call(t, op, r, "rv_mark", relay[r])
                                     ELSE Call(t, op, r, "idle", DeviceGone(relay[r]))

\* Twenty sleeps of 50 ms; a timeout is only logged and the removal goes on.
remove_virtio_wait(t) ==
  \/ CStep(t, "rv_mark", "rv_wait", [Held(t) EXCEPT !.vio_state = "REMOVING1"])
  \/ /\ Held(t).vio_state = "UNINIT" \/ "timeout" \in Faults
     /\ CStep(t, "rv_wait", "rv_cpu", Held(t))

\* Mutant of remove_virtio_cpu: the CPU is read after it was cleared.
remove_virtio_cpu_no_tmpidx(t) ==
  \/ CStep(t, "rv_cpu", "rv_flag", ToVioCpu(Held(t), NoCpu))
  \/ CFlag(t, "rv_flag", "rv_vf", Held(t).vio2vf_cpu)

\* Give the worker up (tmpidx keeps it) and flag it.
remove_virtio_cpu(t) ==
  \/ /\ ctl[t].pc = "rv_cpu"
     /\ ctl' = [ctl EXCEPT ![t] = [ctl[t] EXCEPT !.pc = "rv_flag", !.cpu = Held(t).vio2vf_cpu]]
     /\ relay' = [relay EXCEPT ![ctl[t].r] = ToVioCpu(Held(t), NoCpu)]
     /\ UNCHANGED <<need_update, worker>>
  \/ CFlag(t, "rv_flag", "rv_vf", ctl[t].cpu)

\* Mutant of remove_virtio_vf: the VF is stopped but stays READY.
remove_virtio_vf_ready(t) ==
  \/ IF Held(t).dpdk_state = "READY"
       THEN CStep(t, "rv_vf", "rv_vf_flag", Stopped(Held(t)))
       ELSE CStep(t, "rv_vf", "rv_gone", PoolFreed(Held(t), "NULL"))
  \/ CFlag(t, "rv_vf_flag", "rv_gone", Held(t).vf2vio_cpu)
  \/ CStep(t, "rv_gone", "idle", DeviceGone(Held(t)))

\* Stop a READY VF (its pool stays), or free the pool.
remove_virtio_vf(t) ==
  \/ IF Held(t).dpdk_state = "READY"
       THEN CStep(t, "rv_vf", "rv_vf_added", Stopped(Held(t)))
       ELSE CStep(t, "rv_vf", "rv_gone", PoolFreed(Held(t), "NULL"))
  \/ CStep(t, "rv_vf_added", "rv_vf_flag", [Held(t) EXCEPT !.dpdk_state = "ADDED"])
  \/ CFlag(t, "rv_vf_flag", "rv_gone", Held(t).vf2vio_cpu)
  \/ CStep(t, "rv_gone", "idle", DeviceGone(Held(t)))

remove_virtio_body(t) ==
  remove_virtio_wait(t) \/ remove_virtio_cpu(t) \/ remove_virtio_vf(t)

\* features_changed_cb: the VM begins a live migration.
features_changed_cb(r) ==
  /\ relay[r].vio_dev
  /\ Call("vhost", "features_changed", r, "idle", [relay[r] EXCEPT !.lm_pending = TRUE])

-----------------------------------------------------------------------------
(* virtio_forwarder_add_vf2, virtio_forwarder_bond_add *)

\* A relay with a VF refuses (or accepts the same VF again as a no-op).
add_vf2(r) ==
  Call("port", "add_vf", r,
       IF relay[r].dpdk_state = "UNINIT" THEN "af_attach" ELSE "idle", relay[r])

\* A bond first replaces the pool by a larger one.
bond_add(r) ==
  Call("port", "bond_add", r,
       IF relay[r].dpdk_state = "UNINIT" THEN "mig_alloc" ELSE "idle", relay[r])

\* cleanup_eth_dev: stop, close and remove the port, or fail on the way.
Detached(v) == [v EXCEPT !.vf_dev = "detached", !.vf_pool = "none"]
DetachFailed(v) ==
  IF "detach" \in Faults
    THEN {v, [v EXCEPT !.vf_dev = "stopped"], [v EXCEPT !.vf_dev = "closed"]} ELSE {}

\* The queues of a port are set up with the relay's pool.
Attached(v) ==
  [PoolThere(v) EXCEPT !.vf_dev = "stopped",
                       !.vf_pool = IF v.mempool = "freed" THEN "freed" ELSE "current"]

\* init_vf and dev_queue_configure: probe the port, allocate a pool if there
\* is none and set the queues up with it.  A failure keeps the pool and takes
\* the port away again, if it can.
add_vf_attach(t) ==
  \/ /\ Held(t).vf_dev = "detached"
     /\ CStep(t, "af_attach", "af_start", Attached(Held(t)))
  \/ /\ "attach" \in Faults \/ Held(t).vf_dev # "detached"
     /\ \E v \in {Held(t)} \cup DetachFailed([Held(t) EXCEPT !.vf_dev = "stopped"]) :
          \E w \in {v, PoolThere(v)} : CStep(t, "af_attach", "idle", w)

\* configure_dev_with_virtio: start the port if a VM is connected.  Its local
\* dpdk_state is published after the CPU has been found.
configure_dev_start(t) ==
  LET started == Held(t).vio_state = "READY" IN
  \/ /\ started /\ "start" \in Faults
     /\ \E v \in {Detached(Held(t))} \cup DetachFailed(Held(t)) :
          CStep(t, "af_start", "idle", v)
  \/ /\ ctl[t].pc = "af_start"
     /\ ctl' = [ctl EXCEPT
          ![t] = [ctl[t] EXCEPT !.pc = "af_cpu", !.st = IF started THEN "READY" ELSE "ADDED"]]
     /\ relay' = [relay EXCEPT
          ![ctl[t].r] = [Held(t) EXCEPT !.lm_pending = FALSE,
                           !.vf_dev = IF started THEN "started" ELSE Held(t).vf_dev]]
     /\ UNCHANGED <<need_update, worker>>

configure_dev_publish(t) ==
  \/ CStep(t, "af_state", "af_flag", [Held(t) EXCEPT !.dpdk_state = ctl[t].st])
  \/ CFlag(t, "af_flag", "idle", Held(t).vf2vio_cpu)

add_vf_body(t) ==
  \/ add_vf_attach(t) \/ configure_dev_start(t)
  \/ find_vf2virtio_cpu(t, "af_cpu", "af_cpu_pick", "af_state")
  \/ configure_dev_publish(t)

-----------------------------------------------------------------------------
(* virtio_forwarder_remove_vf2, detach_device, stop_vm2vf_thread *)

\* The branch of a relay that has no VF to remove: an error, or, for a
\* conditional request, "No action required; VF was already removed".
SaysRemoved(r) == relay[r].dpdk_state \notin {"READY", "ADDED"}

\* A wrong PCI address is refused too; without a worker there is no handshake.
remove_vf2(r) ==
  \/ Call("port", "remove_vf", r, "idle", relay[r])
  \/ /\ ~SaysRemoved(r)
     /\ Call("port", "remove_vf", r,
             IF relay[r].vf2vio_cpu = NoCpu THEN "rf_cpu" ELSE "rf_mark", relay[r])

\* A timeout ends the operation with an error.
stop_vm2vf_thread(t) ==
  \/ CStep(t, "rf_mark", "rf_wait", [Held(t) EXCEPT !.dpdk_state = "REMOVING1"])
  \/ Held(t).dpdk_state = "UNINIT" /\ CStep(t, "rf_wait", "rf_cpu", Held(t))
  \/ /\ Held(t).dpdk_state # "UNINIT" /\ "timeout" \in Faults
     /\ CStep(t, "rf_wait", "idle", Held(t))

detach_device_cpu(t) ==
  \/ /\ ctl[t].pc = "rf_cpu"
     /\ ctl' = [ctl EXCEPT ![t] = [ctl[t] EXCEPT !.pc = "rf_flag", !.cpu = Held(t).vf2vio_cpu]]
     /\ relay' = [relay EXCEPT ![ctl[t].r] = ToVfCpu(Held(t), NoCpu)]
     /\ UNCHANGED <<need_update, worker>>
  \/ CFlag(t, "rf_flag", "rf_detach", ctl[t].cpu)

\* Detach the port, then free the pool unless a VM is connected.
detach_device_port(t) ==
  \/ CStep(t, "rf_detach", "rf_pool", Detached(Held(t)))
  \/ \E v \in DetachFailed(Held(t)) : CStep(t, "rf_detach", "idle", v)
  \/ CStep(t, "rf_pool", "idle",
           IF Held(t).vio_state = "UNINIT" THEN PoolFreed(Held(t), "NULL") ELSE Held(t))

detach_device(t) ==
  stop_vm2vf_thread(t) \/ detach_device_cpu(t) \/ detach_device_port(t)

-----------------------------------------------------------------------------
(* migrate_relay_cpus.  Each half tests the state, then writes the CPU and   *)
(* flags the old worker in one step, then flags the new worker.              *)

migrate_relay_cpus(r) ==
  Call("sched", "migrate", r,
       IF relay[r].vio_state = "READY" THEN "mg_vio" ELSE "mg_dpdk_test", relay[r])

MoveCpu(t, at, old, To(_, _), flag, same) ==
  \E c \in Cpus :
    \/ old = c /\ CStep(t, at, same, Held(t))
    \/ /\ old # c /\ ctl[t].pc = at
       /\ relay' = [relay EXCEPT ![ctl[t].r] = To(Held(t), c)]
       /\ Flag(old)
       /\ ctl' = [ctl EXCEPT ![t] = [ctl[t] EXCEPT !.pc = flag, !.cpu = c]]
       /\ UNCHANGED worker

migrate_vio(t) ==
  \/ MoveCpu(t, "mg_vio", Held(t).vio2vf_cpu, ToVioCpu, "mg_vio_flag", "mg_dpdk_test")
  \/ CFlag(t, "mg_vio_flag", "mg_dpdk_test", ctl[t].cpu)

migrate_dpdk(t) ==
  \/ CStep(t, "mg_dpdk_test",
           IF Held(t).dpdk_state \in {"ADDED", "READY"} THEN "mg_dpdk" ELSE "idle", Held(t))
  \/ MoveCpu(t, "mg_dpdk", Held(t).vf2vio_cpu, ToVfCpu, "mg_dpdk_flag", "idle")
  \/ CFlag(t, "mg_dpdk_flag", "idle", ctl[t].cpu)

-----------------------------------------------------------------------------

Init ==
  /\ relay = [r \in Relays |-> InitialRelay]
  /\ need_update = [c \in Cpus |-> FALSE]
  /\ \E r \in Relays :
       /\ worker = [c \in Cpus |-> [pc |-> "head", r |-> r, active |-> {}, todo |-> {},
                                    scan |-> {}, new |-> {}]]
       /\ ctl = [t \in Threads |-> [pc |-> "idle", r |-> r, cpu |-> NoCpu, st |-> "ADDED"]]

\* A control thread begins an operation.
Request(r) ==
  \/ add_virtio(r) \/ remove_virtio("vhost", r) \/ features_changed_cb(r)
  \/ add_vf2(r) \/ bond_add(r) \/ remove_vf2(r)
  \/ remove_virtio("port", r) \/ migrate_relay_cpus(r)

\* A control thread continues its operation.
Continue(t) ==
  /\ ctl[t].pc # "idle"
  /\ \/ add_virtio_body(t) \/ remove_virtio_body(t) \/ add_vf_body(t)
     \/ detach_device(t) \/ migrate_vio(t) \/ migrate_dpdk(t)

Next ==
  \/ \E c \in Cpus : worker_func(c)
  \/ \E t \in Threads : Continue(t)
  \/ \E r \in Relays : Request(r)

Spec == Init /\ [][Next]_vars

\* Workers poll for ever and a control thread finishes what it began; nobody
\* need ask for another operation.
FairSpec ==
  /\ Spec
  /\ \A c \in Cpus : WF_vars(worker_func(c))
  /\ \A t \in Threads : WF_vars(Continue(t))

-----------------------------------------------------------------------------
(***************************************************************************)
(* Properties                                                              *)
(***************************************************************************)

WorkerLabels ==
  {"head", "scan", "next", "lock_vio", "virtio_rx", "dequeue", "dpdk_tx", "tx_burst",
   "vio_removing", "vio_alone", "vf_removing2", "free_rx", "free_tx", "unlock_vio",
   "vf2vm", "lock_dpdk", "dpdk_rx", "avail", "rx_burst", "virtio_tx", "enqueue",
   "vio_removing2", "drop_tx", "vio_uninit", "vf_removing", "vf_alone", "unlock_dpdk"}

CtlLabels ==
  {"idle", "av_pool", "mig_alloc", "mig_lock_vio", "mig_lock_dpdk", "mig_free", "mig_swap",
   "mig_unlock", "mig_queues", "av_cpu", "av_cpu_pick", "av_ready", "av_flag", "av_vf",
   "av_vf_cpu", "av_vf_cpu_pick", "av_start", "av_vf_ready", "av_vf_flag",
   "rv_mark", "rv_wait", "rv_cpu", "rv_flag", "rv_vf", "rv_vf_added", "rv_vf_flag",
   "rv_gone", "af_attach", "af_start", "af_cpu", "af_cpu_pick", "af_state", "af_flag",
   "rf_mark", "rf_wait", "rf_cpu", "rf_flag", "rf_detach", "rf_pool",
   "mg_vio", "mg_vio_flag", "mg_dpdk_test", "mg_dpdk", "mg_dpdk_flag"}

WorkerStruct ==
  [pc : WorkerLabels, r : Relays, active : SUBSET Relays,
   todo : SUBSET Relays, scan : SUBSET Relays, new : SUBSET Relays]

CtlStruct == [pc : CtlLabels, r : Relays, cpu : CpuOrNone, st : {"ADDED", "READY"}]

\* The structs and the locals of the threads are well formed: a CPU field
\* holds a worker's CPU or -1, and a worker's sets hold relays.
TypeOK ==
  /\ relay \in [Relays -> RelayStruct]
  /\ need_update \in [Cpus -> BOOLEAN]
  /\ worker \in [Cpus -> WorkerStruct]
  /\ ctl \in [Threads -> CtlStruct]

\* Worker c has relay r in its set, or will look at it: the flag is up or
\* update_thread has not passed r yet.
Knows(c, r) ==
  \/ need_update[c]
  \/ IF worker[c].pc = "scan" THEN r \in worker[c].scan \cup worker[c].new
                              ELSE r \in worker[c].active

\* Thread t, in an operation on relay r, will flag worker c: the one that has
\* the direction VM to VF, or VF to VM, when it gets there, or the one that
\* migrate_relay_cpus moved the direction to.
WillFlagVm(t, r, c) ==
  /\ ctl[t].r = r
  /\ \/ ctl[t].pc \in {"av_ready", "av_flag"} /\ relay[r].vio2vf_cpu = c
     \/ ctl[t].pc = "mg_vio_flag" /\ ctl[t].cpu = c

WillFlagVf(t, r, c) ==
  /\ ctl[t].r = r
  /\ \/ /\ ctl[t].pc \in {"av_start", "av_vf_ready", "av_vf_flag", "af_cpu", "af_state", "af_flag"}
        /\ relay[r].vf2vio_cpu = c
     \/ ctl[t].pc = "mg_dpdk_flag" /\ ctl[t].cpu = c

\* However control threads and update_thread interleave, a worker never misses
\* a direction that was given to it: if it has to take packets from the VM (or
\* the started VF), it knows of the relay or is about to be flagged.  So the
\* flag is raised after every write that update_thread reads, and cleared
\* before it reads.
ForwarderTold ==
  \A c \in Cpus, r \in Relays : LET v == relay[r] IN
    /\ v.vio_state = "READY" /\ v.vio2vf_cpu = c
         => Knows(c, r) \/ \E t \in Threads : WillFlagVm(t, r, c)
    /\ v.dpdk_state = "READY" /\ v.vf_dev = "started" /\ v.vf2vio_cpu = c
         => Knows(c, r) \/ \E t \in Threads : WillFlagVf(t, r, c)

\* The same for every relay that update_thread would count as the worker's,
\* those being removed included: without it a removal would wait for a worker
\* that never looks.
UpdateNotLost ==
  \A c \in Cpus, r \in Relays :
    Serves(c, r) => Knows(c, r) \/ \E t \in Threads : WillFlagVm(t, r, c) \/ WillFlagVf(t, r, c)

\* The assertions of migrate_mempool hold whenever they are evaluated.
MigrationAssertsHold ==
  \A t \in Threads : ctl[t].pc = "mig_alloc" => MigrationAsserts(Held(t))

\* No control thread indexes worker_threads with -1.
FlagIndexValid ==
  \A t \in Threads :
    /\ ctl[t].pc = "av_flag" => Held(t).vio2vf_cpu # NoCpu
    /\ ctl[t].pc \in {"av_vf_flag", "rv_vf_flag", "af_flag"} => Held(t).vf2vio_cpu # NoCpu
    /\ ctl[t].pc \in {"rv_flag", "rf_flag"} => ctl[t].cpu # NoCpu
    /\ ctl[t].pc = "mg_vio" => Held(t).vio2vf_cpu # NoCpu
    /\ ctl[t].pc = "mg_dpdk" => Held(t).vf2vio_cpu # NoCpu

\* A started port receives into a pool that exists.
StartedVfHasPool ==
  \A r \in Relays : relay[r].vf_dev = "started" => relay[r].vf_pool = "current"

\* A pool is freed (by migrate_mempool, remove_virtio or detach_device) only
\* when no packet of it is cached and no worker is about to take one from it:
\* whenever there are such packets, or such a worker, the relay's pool exists.
\* Packets of a pool that goes would be seen when it is freed, before another
\* takes its place.
CachedPacketsHavePool ==
  /\ \A r \in Relays : relay[r].tx_pkts \/ relay[r].rx_pkts => relay[r].mempool = "pool"
  /\ \A c \in Cpus : worker[c].pc \in {"dequeue", "rx_burst"} => Mine(c).mempool = "pool"

\* The vhost device is used (dequeue and enqueue of packets) only while it exists.
VhostDeviceAlive ==
  \A c \in Cpus : worker[c].pc \in {"dequeue", "enqueue"} => Mine(c).vio_dev

\* No control thread works on relay r.
AtRest(r) == \A t \in Threads : ctl[t].pc = "idle" \/ ctl[t].r # r

\* What the states say of a relay between two operations: a side has a worker
\* exactly when it is in use, a port is started exactly when a VM is connected
\* too, and a relay in use has a memory pool.
RestConsistent ==
  \A r \in Relays : LET v == relay[r] IN
    AtRest(r) =>
      /\ v.vio_state = IF v.vio_dev THEN "READY" ELSE "UNINIT"
      /\ v.vio_state = "READY" <=> v.vio2vf_cpu # NoCpu
      /\ v.dpdk_state # "UNINIT" <=> v.vf2vio_cpu # NoCpu
      /\ <<v.dpdk_state, v.vf_dev>> \in
           {<<"UNINIT", "detached">>,
            IF v.vio_dev THEN <<"READY", "started">> ELSE <<"ADDED", "stopped">>}
      /\ v.vio_dev \/ v.vf_dev # "detached" => v.mempool = "pool"

\* Once a VM or a VF has been marked REMOVING1, its workers take it through
\* the handshake and the control thread that waits for them returns.
RemovalsEnd ==
  \A t \in {"vhost", "port"} : ctl[t].pc \in {"rv_wait", "rf_wait"} ~> ctl[t].pc = "idle"
=============================================================================
