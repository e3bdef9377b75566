-------------------------- MODULE RelayApartProofs --------------------------
(***************************************************************************)
(* What the relays of module Relay guarantee when control operations on    *)
(* one relay come one at a time (Apart) and the workers answer in time (no *)
(* timeout), for any number of relays and workers.  The inductive          *)
(* invariant says what a relay looks like at each label of the operation   *)
(* under way (Phases) and what a worker knows at each label of a pass      *)
(* (Passes).                                                               *)
(***************************************************************************)
EXTENDS RelayProofs

-----------------------------------------------------------------------------
(* The inductive invariant *)

MigLabels ==
  {"mig_alloc", "mig_lock_vio", "mig_lock_dpdk", "mig_free", "mig_swap", "mig_unlock", "mig_queues"}
AvLabels ==
  {"av_pool", "av_cpu", "av_cpu_pick", "av_ready", "av_flag", "av_vf", "av_vf_cpu",
   "av_vf_cpu_pick", "av_start", "av_vf_ready", "av_vf_flag"}
RvLabels ==
  {"rv_mark", "rv_wait", "rv_cpu", "rv_flag", "rv_vf", "rv_vf_added", "rv_vf_flag", "rv_gone"}
AfLabels == {"af_attach", "af_start", "af_cpu", "af_cpu_pick", "af_state", "af_flag"}
RfLabels == {"rf_mark", "rf_wait", "rf_cpu", "rf_flag", "rf_detach", "rf_pool"}
MgLabels == {"mg_vio", "mg_vio_flag", "mg_dpdk_test", "mg_dpdk", "mg_dpdk_flag"}

\* The operations of each thread.
LabelsOf(t) ==
  {"idle"} \cup (IF t = "vhost" THEN AvLabels \cup MigLabels \cup RvLabels
                 ELSE IF t = "port" THEN AfLabels \cup MigLabels \cup RvLabels \cup RfLabels
                 ELSE MgLabels)

\* add_virtio before it publishes the VM.
Connecting(t, pc) ==
  pc \in {"av_pool", "av_cpu", "av_cpu_pick", "av_ready"} \/ (t = "vhost" /\ pc \in MigLabels)

\* bond_add before it attaches the port.
Bonding(t, pc) == t = "port" /\ pc \in MigLabels

\* The VM's side of relay v while thread t is at label pc.
VmUp(v) == v.vio_state = "READY" /\ v.vio_dev /\ v.vio2vf_cpu # NoCpu
VmDown(v) == v.vio_state = "UNINIT" /\ ~v.vio_dev /\ v.vio2vf_cpu = NoCpu

VmAt(t, pc, v) ==
  /\ Connecting(t, pc) =>
       v.vio_state = "UNINIT" /\ v.vio_dev /\ (v.vio2vf_cpu # NoCpu <=> pc = "av_ready")
  /\ pc \in {"av_flag", "av_vf", "av_vf_cpu", "av_vf_cpu_pick", "av_start", "av_vf_ready",
             "av_vf_flag", "rv_mark", "mg_vio", "mg_vio_flag"} => VmUp(v)
  /\ pc = "rv_wait" => v.vio_state # "READY" /\ v.vio_dev /\ v.vio2vf_cpu # NoCpu
  /\ pc \in RvLabels \ {"rv_mark", "rv_wait"} =>
       v.vio_state = "UNINIT" /\ v.vio_dev /\ (v.vio2vf_cpu # NoCpu <=> pc = "rv_cpu")
  /\ pc \in AfLabels \cup RfLabels \cup {"mg_dpdk_test", "mg_dpdk", "mg_dpdk_flag"}
       \/ Bonding(t, pc) => VmUp(v) \/ VmDown(v)

\* The VF's side; st is the local dpdk_state of configure_dev_with_virtio.
VfDown(v) == v.dpdk_state = "UNINIT" /\ v.vf2vio_cpu = NoCpu
VfUp(v) == v.dpdk_state \in {"ADDED", "READY"} /\ v.vf2vio_cpu # NoCpu
ReadyForVm(v) == v.dpdk_state = "READY" => v.vio_state = "READY"

VfAt(t, pc, st, v) ==
  /\ Connecting(t, pc) \/ pc \in {"av_flag", "av_vf", "rv_gone"} =>
       v.dpdk_state # "READY" /\ (VfDown(v) \/ VfUp(v))
  /\ pc \in {"av_vf_cpu", "av_vf_cpu_pick", "av_start", "av_vf_ready", "rv_vf_flag"} =>
       v.dpdk_state = "ADDED" /\ (v.vf2vio_cpu = NoCpu <=> pc = "av_vf_cpu_pick")
  /\ pc \in {"av_vf_flag", "rv_vf_added"} => v.dpdk_state = "READY" /\ v.vf2vio_cpu # NoCpu
  /\ pc \in {"rv_mark", "rv_wait", "rv_cpu", "rv_flag", "rv_vf"} => VfDown(v) \/ VfUp(v)
  /\ pc \in {"af_attach", "af_start", "rf_flag", "rf_detach", "rf_pool"} \/ Bonding(t, pc)
       => VfDown(v)
  /\ pc \in {"af_cpu", "af_cpu_pick", "af_state"} =>
       /\ v.dpdk_state = "UNINIT" /\ (v.vf2vio_cpu # NoCpu <=> pc = "af_state")
       /\ st = "READY" <=> v.vio_state = "READY"
  /\ pc \in {"rf_wait", "rf_cpu"} => v.dpdk_state \notin {"ADDED", "READY"} /\ v.vf2vio_cpu # NoCpu
  /\ pc = "rf_cpu" => v.dpdk_state = "UNINIT"
  /\ pc \in {"af_flag", "rf_mark", "mg_dpdk", "mg_dpdk_flag"} => VfUp(v) /\ ReadyForVm(v)
  /\ pc \in {"mg_vio", "mg_vio_flag", "mg_dpdk_test"} => (VfDown(v) \/ VfUp(v)) /\ ReadyForVm(v)

\* A VM that is connected has a memory pool; only migrate_mempool, between
\* rte_mempool_free and the store of the new pool, leaves the pointer dangling.
PoolAt(pc, v) ==
  /\ v.vio_dev /\ pc \notin {"av_pool", "mig_swap", "rv_gone"} => v.mempool = "pool"
  /\ pc # "mig_swap" => v.mempool # "freed"

\* No operation on a port goes wrong half-way.
PortsWork == Faults \cap {"start", "queues", "detach"} = {}

\* The port and its pool: in the states that workers and VMs see ...
PortFits(v) ==
  /\ <<v.dpdk_state, v.vf_dev>> \in
       {<<"UNINIT", "detached">>, <<"ADDED", "stopped">>, <<"READY", "started">>}
  /\ v.vf_dev # "detached" => v.vf_pool = "current" /\ v.mempool = "pool"

PortReady(v) == PortFits(v) /\ (v.vio_state = "READY" => v.dpdk_state # "ADDED")

\* ... and while an operation is changing them.
PortAt(t, pc, v) ==
  /\ pc \in {"av_pool", "av_cpu", "av_cpu_pick", "av_ready", "av_flag", "av_vf", "av_vf_cpu",
             "av_vf_cpu_pick", "av_start", "av_vf_flag", "rv_vf_flag", "rv_gone"} => PortFits(v)
  /\ t = "vhost" /\ pc \in MigLabels =>
       /\ <<v.dpdk_state, v.vf_dev>> \in {<<"UNINIT", "detached">>, <<"ADDED", "stopped">>}
       /\ v.vf_dev # "detached" /\ pc \notin {"mig_swap", "mig_unlock", "mig_queues"} =>
            v.vf_pool = "current"
  /\ pc \in {"av_vf_ready", "rv_vf_added", "af_start", "af_cpu", "af_cpu_pick", "af_state",
             "rf_wait", "rf_cpu", "rf_flag", "rf_detach"} =>
       v.vf_dev \in {"stopped", "started"} /\ v.vf_pool = "current" /\ v.mempool = "pool"
  /\ pc = "av_vf_ready" => v.vf_dev = "started"
  /\ pc \in {"rv_vf_added", "af_start"} => v.vf_dev = "stopped"
  /\ pc \in {"af_cpu", "af_cpu_pick", "af_state"} => (v.vf_dev = "started" <=> v.vio_state = "READY")
  /\ pc \in {"rv_mark", "rv_wait", "rv_cpu", "rv_flag", "rv_vf"} =>
       PortFits(v) /\ v.dpdk_state # "ADDED"
  /\ pc \in {"af_attach", "rf_pool"} \/ Bonding(t, pc) => v.vf_dev = "detached"
  /\ pc \in {"af_flag", "rf_mark"} \cup MgLabels => PortReady(v)

\* All of this.
At(t, pc, st, v) ==
  VmAt(t, pc, v) /\ VfAt(t, pc, st, v) /\ PoolAt(pc, v) /\ (PortsWork => PortAt(t, pc, v))

\* The same for the thread with locals w, which keeps the CPU to be flagged.
PhaseOf(t, w, v) ==
  At(t, w.pc, w.st, v) /\ (w.pc \in {"rv_flag", "rf_flag"} => w.cpu # NoCpu)

\* A relay between two operations.
Rest(v) ==
  /\ VmUp(v) \/ VmDown(v)
  /\ VfDown(v) \/ VfUp(v)
  /\ ReadyForVm(v)
  /\ v.mempool # "freed" /\ (v.vio_dev => v.mempool = "pool")
  /\ PortsWork => PortReady(v)

Phases ==
  /\ \A t \in Threads : ctl[t].pc \in LabelsOf(t)
  /\ \A t, u \in Threads : t # u /\ ctl[t].pc # "idle" /\ ctl[u].pc # "idle" => ctl[t].r # ctl[u].r
  /\ \A t \in Threads : ctl[t].pc # "idle" => PhaseOf(t, ctl[t], Held(t))
  /\ \A r \in Relays : AtRest(r) => Rest(relay[r])

\* The labels at which a worker has one of the directions in hand.
VmSection ==
  {"lock_vio", "virtio_rx", "dequeue", "dpdk_tx", "tx_burst", "vio_removing", "vio_alone",
   "vf_removing2", "free_rx", "free_tx", "unlock_vio"}
VfSection ==
  {"lock_dpdk", "dpdk_rx", "avail", "rx_burst", "virtio_tx", "enqueue", "vio_removing2",
   "drop_tx", "vio_uninit", "vf_removing", "vf_alone", "unlock_dpdk"}

\* What a worker at label at knows of its relay v.
Seen(at, v) ==
  /\ at = "dequeue" => v.vio_state \in {"READY", "REMOVING1"}
  /\ at = "enqueue" => v.vio_state # "UNINIT"
  /\ at \in {"vio_alone", "drop_tx", "vio_uninit"} => v.vio_state \in {"REMOVING2", "UNINIT"}
  /\ at \in {"vf_alone", "free_rx", "free_tx"} => v.dpdk_state \in {"REMOVING2", "UNINIT"}

\* What worker c at label at may be doing to relay v while a thread is at pc.
Meets(c, at, pc, v) ==
  /\ at \in {"vio_alone", "drop_tx", "vio_uninit"} => pc \in RvLabels
  /\ at \in {"vf_alone", "free_rx", "free_tx"} => pc \in RfLabels
  /\ pc \in {"rv_mark", "rv_wait", "rv_cpu"} =>
       /\ at \in VmSection => v.vio2vf_cpu = c
       /\ at \in VfSection => v.vf2vio_cpu = c

Passes ==
  \A c \in Cpus :
    /\ Seen(worker[c].pc, Mine(c))
    /\ \A t \in Threads : ctl[t].pc # "idle" /\ ctl[t].r = worker[c].r
                            => Meets(c, worker[c].pc, ctl[t].pc, Mine(c))

ApartInv == TypeOK /\ Phases /\ Passes

-----------------------------------------------------------------------------
(* Steps of control threads *)

\* A thread that moves to a label whose phase the relay is in, or returns and
\* leaves the relay at rest, keeps Phases.
LEMMA CtlPhases ==
  ASSUME TypeOK, Phases, NEW t \in Threads, NEW q \in Relays,
         NEW v \in RelayStruct, NEW w \in CtlStruct, w.r = q,
         ctl[t].pc # "idle" => ctl[t].r = q,
         \A u \in Threads \ {t} : ctl[u].pc = "idle" \/ ctl[u].r # q,
         relay' = [relay EXCEPT ![q] = v], ctl' = [ctl EXCEPT ![t] = w],
         w.pc \in LabelsOf(t),
         w.pc # "idle" => PhaseOf(t, w, v), w.pc = "idle" => Rest(v)
  PROVE  Phases'
<1>1. /\ \A x \in Relays \ {q} : relay'[x] = relay[x]
      /\ relay'[q] = v
      /\ \A u \in Threads \ {t} : ctl'[u] = ctl[u]
      /\ ctl'[t] = w
  BY Zenon DEF TypeOK
<1>2. \A u \in Threads : ctl[u].r \in Relays
  BY Zenon DEF TypeOK, CtlStruct
<1>3. \A u \in Threads : ctl'[u].pc \in LabelsOf(u)
  BY Zenon, <1>1 DEF Phases
<1>4. \A x, u \in Threads :
        x # u /\ ctl'[x].pc # "idle" /\ ctl'[u].pc # "idle" => ctl'[x].r # ctl'[u].r
  BY <1>1 DEF Phases
<1>5. ASSUME NEW u \in Threads, ctl'[u].pc # "idle"
      PROVE  PhaseOf(u, ctl'[u], relay'[ctl'[u].r])
  <2>1. CASE u = t
    BY <1>1, <1>5, <2>1
  <2>2. CASE u # t
    BY <1>1, <1>2, <1>5, <2>2 DEF Phases, Held
  <2> QED BY Zenon, <2>1, <2>2
<1>6. ASSUME NEW r \in Relays, \A u \in Threads : ctl'[u].pc = "idle" \/ ctl'[u].r # r
      PROVE  Rest(relay'[r])
  <2>1. CASE r = q
    BY Zenon, <1>1, <1>6, <2>1
  <2>2. CASE r # q
    <3>1. AtRest(r)
      BY Zenon, <1>1, <1>6, <2>2 DEF AtRest
    <3> QED BY Zenon, <1>1, <2>2, <3>1 DEF Phases
  <2> QED BY Zenon, <2>1, <2>2
<1> QED BY Zenon, <1>3, <1>4, <1>5, <1>6 DEF Phases, Held, AtRest

\* What a thread that goes from label pc to label l and changes its relay from
\* u to v must leave to the workers.
Kept(pc, l, u, v) ==
  \A c \in Cpus, at \in WorkerLabels :
    Seen(at, u) /\ Meets(c, at, pc, u) => Seen(at, v) /\ (l # "idle" => Meets(c, at, l, v))

\* A thread that leaves it to them keeps Passes.
LEMMA CtlPasses ==
  ASSUME TypeOK, Phases, Passes, NEW t \in Threads, NEW v \in RelayStruct,
         NEW w \in CtlStruct, w.r = ctl[t].r, ctl[t].pc # "idle",
         relay' = [relay EXCEPT ![ctl[t].r] = v], ctl' = [ctl EXCEPT ![t] = w],
         worker' = worker, Kept(ctl[t].pc, w.pc, Held(t), v)
  PROVE  Passes'
<1> DEFINE q == ctl[t].r
<1>1. /\ q \in Relays /\ \A x \in Relays \ {q} : relay'[x] = relay[x]
      /\ relay'[q] = v /\ Held(t) = relay[q]
      /\ \A u \in Threads \ {t} : ctl'[u] = ctl[u]
      /\ ctl'[t] = w
  BY Zenon DEF TypeOK, CtlStruct, Held
<1>2. \A u \in Threads \ {t} : ctl[u].pc = "idle" \/ ctl[u].r # q
  BY Zenon DEF Phases
<1> SUFFICES ASSUME NEW c \in Cpus
             PROVE  /\ Seen(worker[c].pc, relay'[worker[c].r])
                    /\ \A u \in Threads : ctl'[u].pc # "idle" /\ ctl'[u].r = worker[c].r
                          => Meets(c, worker[c].pc, ctl'[u].pc, relay'[worker[c].r])
  BY Zenon DEF Passes, Mine
<1>3. worker[c].r \in Relays /\ worker[c].pc \in WorkerLabels
  BY Zenon DEF TypeOK, WorkerStruct
<1>4. /\ Seen(worker[c].pc, relay[worker[c].r])
      /\ \A u \in Threads : ctl[u].pc # "idle" /\ ctl[u].r = worker[c].r
            => Meets(c, worker[c].pc, ctl[u].pc, relay[worker[c].r])
  BY Zenon DEF Passes, Mine
<1>5. CASE worker[c].r # q
  BY <1>1, <1>3, <1>4, <1>5
<1>6. CASE worker[c].r = q
  <2>1. Meets(c, worker[c].pc, ctl[t].pc, relay[q])
    BY Zenon, <1>4, <1>6
  <2>2. /\ Seen(worker[c].pc, v)
        /\ w.pc # "idle" => Meets(c, worker[c].pc, w.pc, v)
    BY <1>1, <1>3, <1>4, <1>6, <2>1 DEF Kept
  <2> QED BY ZenonT(30), <1>1, <1>2, <1>6, <2>2
<1> QED BY Zenon, <1>5, <1>6

\* The workers see no difference when the states and the CPUs stay and the
\* operation goes on.
LEMMA KeptSame ==
  ASSUME NEW pc, NEW l, NEW u, NEW v,
         v.vio_state = u.vio_state, v.dpdk_state = u.dpdk_state,
         l \in {"rv_mark", "rv_wait", "rv_cpu"} =>
           /\ pc \in {"rv_mark", "rv_wait", "rv_cpu"}
           /\ v.vio2vf_cpu = u.vio2vf_cpu /\ v.vf2vio_cpu = u.vf2vio_cpu,
         l # "idle" /\ pc \in RvLabels => l \in RvLabels,
         l # "idle" /\ pc \in RfLabels => l \in RfLabels
  PROVE  Kept(pc, l, u, v)
BY SMTT(30) DEF Kept, Seen, Meets

\* The phase of the operation thread t is in.
LEMMA PhaseHere ==
  ASSUME Phases, NEW t \in Threads, ctl[t].pc # "idle"
  PROVE  /\ At(t, ctl[t].pc, ctl[t].st, Held(t))
         /\ ctl[t].pc \in {"rv_flag", "rf_flag"} => ctl[t].cpu # NoCpu
         /\ \A u \in Threads \ {t} : ctl[u].pc = "idle" \/ ctl[u].r # ctl[t].r
BY Zenon DEF Phases, PhaseOf

\* Any step of an operation under way.
LEMMA StepApart ==
  ASSUME ApartInv, NEW t \in Threads, NEW at \in CtlLabels \ {"idle"}, ctl[t].pc = at,
         NEW v \in RelayStruct, NEW w \in CtlStruct, w.r = ctl[t].r,
         relay' = [relay EXCEPT ![ctl[t].r] = v], ctl' = [ctl EXCEPT ![t] = w],
         worker' = worker,
         w.pc \in LabelsOf(t),
         w.pc # "idle" => PhaseOf(t, w, v), w.pc = "idle" => Rest(v),
         Kept(at, w.pc, Held(t), v)
  PROVE  Phases' /\ Passes'
<1>1. ctl[t].r \in Relays
  BY Zenon DEF ApartInv, TypeOK, CtlStruct
<1>2. Phases'
  BY ZenonT(30), <1>1, CtlPhases, PhaseHere DEF ApartInv
<1>3. Passes'
  BY ZenonT(30), CtlPasses DEF ApartInv
<1> QED BY Zenon, <1>2, <1>3

\* Thread t goes from label at to label l and leaves its relay as v: CStep,
\* CFlag and the search for a CPU.
Moves(t, at, l, v) ==
  /\ ctl[t].pc = at /\ ctl' = [ctl EXCEPT ![t] = Locals(t, l)]
  /\ relay' = [relay EXCEPT ![ctl[t].r] = v] /\ worker' = worker

\* A step of CStep is a move.
LEMMA CStepMoves ==
  ASSUME NEW t, NEW at, NEW l, NEW v, CStep(t, at, l, v)
  PROVE  Moves(t, at, l, v)
BY Zenon DEF CStep, Moves

\* Raising a flag leaves the relay as it is.
LEMMA CFlagMoves ==
  ASSUME TypeOK, NEW t \in Threads, NEW at, NEW l, NEW c, CFlag(t, at, l, c)
  PROVE  Moves(t, at, l, Held(t))
<1>1. ctl[t].r \in Relays
  BY Zenon DEF TypeOK, CtlStruct
<1>2. relay = [relay EXCEPT ![ctl[t].r] = Held(t)]
  BY Zenon, <1>1 DEF TypeOK, Held
<1> QED BY Zenon, <1>2 DEF CFlag, Moves

\* A step that moves to the phase of its label keeps the invariant.
LEMMA MovesApart ==
  ASSUME ApartInv, NEW t \in Threads, NEW at \in CtlLabels \ {"idle"},
         NEW l \in LabelsOf(t) \ {"rv_flag", "rf_flag"}, NEW v \in RelayStruct,
         Moves(t, at, l, v),
         l # "idle" => At(t, l, ctl[t].st, v), l = "idle" => Rest(v),
         Kept(at, l, Held(t), v)
  PROVE  Phases' /\ Passes'
<1> DEFINE w == Locals(t, l)
<1>1. l \in CtlLabels
  BY Zenon DEF LabelsOf, CtlLabels, AvLabels, MigLabels, RvLabels, AfLabels, RfLabels, MgLabels
<1>2. w \in CtlStruct
  BY Zenon, <1>1, LocalsType DEF ApartInv
<1>3. w.r = ctl[t].r /\ w.pc = l /\ (l # "idle" => w.st = ctl[t].st)
  BY Zenon DEF Locals, ApartInv, TypeOK, CtlStruct
<1>4. w.pc # "idle" => PhaseOf(t, w, v)
  BY Zenon, <1>3 DEF PhaseOf
<1> QED BY ZenonT(30), <1>2, <1>3, <1>4, StepApart DEF Moves

\* The same for a step that also keeps a CPU for later.
LEMMA CpuStepApart ==
  ASSUME ApartInv, NEW t \in Threads, NEW at \in CtlLabels \ {"idle"}, ctl[t].pc = at,
         NEW l \in LabelsOf(t) \ {"idle"}, NEW c \in CpuOrNone, NEW v \in RelayStruct,
         ctl' = [ctl EXCEPT ![t] = [ctl[t] EXCEPT !.pc = l, !.cpu = c]],
         relay' = [relay EXCEPT ![ctl[t].r] = v], worker' = worker,
         At(t, l, ctl[t].st, v), l \in {"rv_flag", "rf_flag"} => c # NoCpu,
         Kept(at, l, Held(t), v)
  PROVE  Phases' /\ Passes'
<1>1. PICK w : w = [ctl[t] EXCEPT !.pc = l, !.cpu = c]
  BY Zenon
<1>2. l \in CtlLabels
  BY Zenon DEF LabelsOf, CtlLabels, AvLabels, MigLabels, RvLabels, AfLabels, RfLabels, MgLabels
<1>3. w \in CtlStruct /\ w.r = ctl[t].r /\ w.pc = l /\ w.st = ctl[t].st /\ w.cpu = c
  BY ZenonT(30), <1>1, <1>2 DEF ApartInv, TypeOK, CtlStruct
<1>4. PhaseOf(t, w, v)
  BY Zenon, <1>3 DEF PhaseOf
<1> QED BY ZenonT(30), <1>1, <1>3, <1>4, StepApart

\* An operation that begins: no worker is in a pass over its relay.
LEMMA CallApart ==
  ASSUME Apart, ApartInv, NEW t \in Threads, NEW op, NEW r \in Relays,
         NEW l \in LabelsOf(t) \ {"rv_flag", "rf_flag"}, NEW v \in RelayStruct,
         Call(t, op, r, l, v),
         l # "idle" => At(t, l, ctl[t].st, v), l = "idle" => Rest(v)
  PROVE  Phases' /\ Passes'
<1> DEFINE w == [ctl[t] EXCEPT !.pc = l, !.r = r]
<1>1. l \in CtlLabels
  BY Zenon DEF LabelsOf, CtlLabels, AvLabels, MigLabels, RvLabels, AfLabels, RfLabels, MgLabels
<1>2. w \in CtlStruct /\ w.r = r /\ w.pc = l /\ w.st = ctl[t].st
  BY ZenonT(30), <1>1 DEF ApartInv, TypeOK, CtlStruct
<1>3. /\ ctl[t].pc = "idle" /\ ctl' = [ctl EXCEPT ![t] = w] /\ Quiet(t, r)
      /\ relay' = [relay EXCEPT ![r] = v] /\ worker' = worker
  BY Zenon DEF Call
<1>4. w.pc # "idle" => PhaseOf(t, w, v)
  BY Zenon, <1>2 DEF PhaseOf
<1>5. Phases'
  BY ZenonT(30), <1>2, <1>3, <1>4, CtlPhases DEF ApartInv, Quiet
<1>6. Passes'
  <2> SUFFICES ASSUME NEW c \in Cpus
               PROVE  /\ Seen(worker[c].pc, relay'[worker[c].r])
                      /\ \A u \in Threads : ctl'[u].pc # "idle" /\ ctl'[u].r = worker[c].r
                            => Meets(c, worker[c].pc, ctl'[u].pc, relay'[worker[c].r])
    BY Zenon, <1>3 DEF Passes, Mine
  <2>1. /\ \A u \in Threads \ {t} : ctl'[u] = ctl[u]
        /\ ctl'[t] = w
        /\ worker[c].r # r => relay'[worker[c].r] = relay[worker[c].r]
    BY Zenon, <1>3 DEF ApartInv, TypeOK, WorkerStruct
  <2>2. /\ Seen(worker[c].pc, relay[worker[c].r])
        /\ \A u \in Threads : ctl[u].pc # "idle" /\ ctl[u].r = worker[c].r
              => Meets(c, worker[c].pc, ctl[u].pc, relay[worker[c].r])
    BY Zenon DEF ApartInv, Passes, Mine
  <2>3. CASE worker[c].r = r
    <3>1. worker[c].pc \in {"head", "scan", "next"}
      BY Zenon, <1>3, <2>3 DEF Quiet, InPass
    <3> QED BY Zenon, <3>1 DEF Seen, Meets, VmSection, VfSection
  <2>4. CASE worker[c].r # r
    BY ZenonT(30), <1>2, <2>1, <2>2, <2>4
  <2> QED BY Zenon, <2>3, <2>4
<1> QED BY Zenon, <1>5, <1>6

\* What a step leaves alone.
SameVm(u, v) ==
  /\ u.vio_state = v.vio_state /\ u.vio_dev = v.vio_dev
  /\ u.vio2vf_cpu = v.vio2vf_cpu
SameVf(u, v) == u.dpdk_state = v.dpdk_state /\ u.vf2vio_cpu = v.vf2vio_cpu
SamePort(u, v) == u.mempool = v.mempool /\ u.vf_dev = v.vf_dev /\ u.vf_pool = v.vf_pool

Like(u, v) == SameVm(u, v) /\ SameVf(u, v) /\ SamePort(u, v)

\* The updates of the port.
LEMMA PortChange ==
  ASSUME NEW v \in RelayStruct
  PROVE  /\ SameVm(Stopped(v), v) /\ SameVf(Stopped(v), v) /\ Stopped(v) \in RelayStruct
         /\ Stopped(v).mempool = v.mempool /\ Stopped(v).vf_pool = v.vf_pool
         /\ Stopped(v).vf_dev = IF v.vf_dev = "started" THEN "stopped" ELSE v.vf_dev
         /\ \A p \in Pools : LET u == PoolFreed(v, p) IN
              /\ SameVm(u, v) /\ SameVf(u, v) /\ u \in RelayStruct
              /\ u.vf_dev = v.vf_dev /\ u.mempool = p
              /\ v.vf_pool # "current" => u.vf_pool = v.vf_pool
<1>1. Stopped(v) \in RelayStruct /\ \A p \in Pools : PoolFreed(v, p) \in RelayStruct
  BY Zenon, DeviceTypes
<1>2. /\ SameVm(Stopped(v), v) /\ SameVf(Stopped(v), v)
      /\ Stopped(v).mempool = v.mempool /\ Stopped(v).vf_pool = v.vf_pool
      /\ Stopped(v).vf_dev = IF v.vf_dev = "started" THEN "stopped" ELSE v.vf_dev
  BY Zenon DEF Stopped, RelayStruct, SameVm, SameVf
<1>3. ASSUME NEW p \in Pools
      PROVE  /\ SameVm(PoolFreed(v, p), v) /\ SameVf(PoolFreed(v, p), v)
             /\ PoolFreed(v, p).vf_dev = v.vf_dev /\ PoolFreed(v, p).mempool = p
             /\ v.vf_pool # "current" => PoolFreed(v, p).vf_pool = v.vf_pool
  BY ZenonT(30) DEF PoolFreed, RelayStruct, SameVm, SameVf
<1> QED BY ZenonT(30), <1>1, <1>2, <1>3

\* The pool that add_virtio and dev_queue_configure make when there is none.
LEMMA PoolMade ==
  ASSUME NEW v \in RelayStruct
  PROVE  /\ PoolThere(v) \in RelayStruct /\ SameVm(PoolThere(v), v) /\ SameVf(PoolThere(v), v)
         /\ PoolThere(v).vf_dev = v.vf_dev /\ PoolThere(v).vf_pool = v.vf_pool
         /\ v.mempool # "freed" => PoolThere(v).mempool = "pool"
         /\ Attached(v) \in RelayStruct /\ SameVm(Attached(v), v) /\ SameVf(Attached(v), v)
         /\ Attached(v).vf_dev = "stopped"
         /\ v.mempool # "freed" => Attached(v).mempool = "pool" /\ Attached(v).vf_pool = "current"
<1>1. PoolThere(v) \in RelayStruct /\ Attached(v) \in RelayStruct
  BY Zenon, DeviceTypes
<1>2. /\ SameVm(PoolThere(v), v) /\ SameVf(PoolThere(v), v)
      /\ PoolThere(v).vf_dev = v.vf_dev /\ PoolThere(v).vf_pool = v.vf_pool
      /\ v.mempool # "freed" => PoolThere(v).mempool = "pool"
  BY ZenonT(30) DEF PoolThere, RelayStruct, SameVm, SameVf, Pools
<1>3. PICK m \in RelayStruct : m = PoolThere(v)
  BY Zenon, <1>1
<1>4. LET u == [m EXCEPT !.vf_dev = "stopped", !.vf_pool = IF v.mempool = "freed" THEN "freed" ELSE "current"] IN
        /\ SameVm(u, m) /\ SameVf(u, m) /\ u.vf_dev = "stopped" /\ u.mempool = m.mempool
        /\ v.mempool # "freed" => u.vf_pool = "current"
  BY ZenonT(30) DEF RelayStruct, SameVm, SameVf
<1>5. /\ SameVm(Attached(v), m) /\ SameVf(Attached(v), m) /\ Attached(v).vf_dev = "stopped"
      /\ Attached(v).mempool = m.mempool
      /\ v.mempool # "freed" => Attached(v).vf_pool = "current"
  BY ZenonT(30), <1>3, <1>4 DEF Attached
<1>6. SameVm(Attached(v), v) /\ SameVf(Attached(v), v)
  BY ZenonT(30), <1>2, <1>3, <1>5 DEF SameVm, SameVf
<1> QED BY ZenonT(30), <1>1, <1>2, <1>3, <1>5, <1>6

\* Operations that connect, attach or move see no worker in a removal; they
\* may publish a VM.
LEMMA KeptAdd ==
  ASSUME NEW pc, NEW l, NEW u, NEW v,
         pc \notin RvLabels \cup RfLabels, l \notin RvLabels \cup RfLabels,
         v.vio_state = u.vio_state \/ (u.vio_state = "UNINIT" /\ v.vio_state = "READY")
  PROVE  Kept(pc, l, u, v)
BY SMTT(30) DEF Kept, Seen, Meets, RvLabels, RfLabels

\* One step of such an operation: it has only the phase to mind.
LEMMA AddStep ==
  ASSUME ApartInv, NEW t \in Threads,
         NEW pc \in CtlLabels \ (RvLabels \cup RfLabels \cup {"idle"}),
         NEW l \in LabelsOf(t) \ (RvLabels \cup RfLabels), NEW v \in RelayStruct,
         Moves(t, pc, l, v),
         \/ v.vio_state = Held(t).vio_state
         \/ Held(t).vio_state = "UNINIT" /\ v.vio_state = "READY",
         At(t, pc, ctl[t].st, Held(t)) => IF l = "idle" THEN Rest(v) ELSE At(t, l, ctl[t].st, v)
  PROVE  Phases' /\ Passes'
<1>1. ctl[t].pc = pc
  BY Zenon DEF Moves
<1>2. At(t, pc, ctl[t].st, Held(t))
  BY Zenon, <1>1, PhaseHere DEF ApartInv
<1>3. Kept(pc, l, Held(t), v)
  BY Zenon, KeptAdd
<1>4. l \notin {"rv_flag", "rf_flag"}
  BY Zenon DEF RvLabels, RfLabels
<1> QED BY Zenon, <1>2, <1>3, <1>4, MovesApart

\* The updates of operations that only add, attach or move: they leave the VM's
\* state alone, or publish it.
Mild(v, u) ==
  /\ u \in RelayStruct
  /\ u.vio_state = v.vio_state \/ (v.vio_state = "UNINIT" /\ u.vio_state = "READY")

MildRows(v) ==
  /\ Mild(v, v)
  /\ \A b \in BOOLEAN : Mild(v, [v EXCEPT !.vio_dev = b])
  /\ Mild(v, PoolFreed(v, "freed")) /\ Mild(v, [v EXCEPT !.mempool = "pool"])
  /\ Mild(v, PoolThere(v)) /\ Mild(v, Attached(v))
  /\ \A c \in CpuOrNone : Mild(v, ToVioCpu(v, c)) /\ Mild(v, ToVfCpu(v, c))
  /\ v.vio_state = "UNINIT" => Mild(v, [v EXCEPT !.vio_state = "READY"])
  /\ \A s \in {"ADDED", "READY"} : Mild(v, [v EXCEPT !.dpdk_state = s])
  /\ Mild(v, [v EXCEPT !.vf_dev = "started", !.lm_pending = FALSE])
  /\ Mild(v, [v EXCEPT !.vio_sl = TRUE]) /\ Mild(v, [v EXCEPT !.dpdk_sl = TRUE])
  /\ Mild(v, [v EXCEPT !.dpdk_sl = FALSE, !.vio_sl = FALSE])
  /\ Mild(v, Stopped(v))

\* Each of these updates is mild.
LEMMA MildUpdates ==
  ASSUME NEW v \in RelayStruct
  PROVE  MildRows(v)
<1> USE DEF Mild, RelayStruct
<1>1. Mild(v, v)
  BY Zenon
<1>2. \A b \in BOOLEAN : Mild(v, [v EXCEPT !.vio_dev = b])
  BY ZenonT(30)
<1>3. \A c \in CpuOrNone : Mild(v, ToVioCpu(v, c)) /\ Mild(v, ToVfCpu(v, c))
  BY Zenon DEF ToVioCpu, ToVfCpu
<1>4. v.vio_state = "UNINIT" => Mild(v, [v EXCEPT !.vio_state = "READY"])
  BY Zenon
<1>5. \A s \in {"ADDED", "READY"} : Mild(v, [v EXCEPT !.dpdk_state = s])
  BY Zenon
<1>6. /\ Mild(v, [v EXCEPT !.vf_dev = "started", !.lm_pending = FALSE])
      /\ Mild(v, [v EXCEPT !.mempool = "pool"])
  BY ZenonT(30) DEF Pools
<1>7. /\ Mild(v, [v EXCEPT !.vio_sl = TRUE]) /\ Mild(v, [v EXCEPT !.dpdk_sl = TRUE])
      /\ Mild(v, [v EXCEPT !.dpdk_sl = FALSE, !.vio_sl = FALSE])
  BY ZenonT(30)
<1>8. Mild(v, Stopped(v))
  BY Zenon DEF Stopped
<1> HIDE DEF RelayStruct
<1>9. Mild(v, PoolFreed(v, "freed")) /\ Mild(v, PoolThere(v)) /\ Mild(v, Attached(v))
  BY ZenonT(30), PortChange, PoolMade DEF SameVm, Pools
<1> HIDE DEF Mild
<1> QED BY Zenon, <1>1, <1>2, <1>3, <1>4, <1>5, <1>6, <1>7, <1>8, <1>9 DEF MildRows

\* The phases of migrate_mempool, label by label.
MigRows(t, st, v) ==
  LET A(pc, u) == At(t, pc, st, u)
      next == AfterMigration(t)
  IN
  /\ A("mig_alloc", v) => A(next, v)
  /\ A("mig_alloc", v) => A("mig_lock_vio", IF v.dpdk_state = "ADDED" THEN Stopped(v) ELSE v)
  /\ A("mig_lock_vio", v) => A("mig_lock_dpdk", [v EXCEPT !.vio_sl = TRUE])
  /\ A("mig_lock_dpdk", v) => A("mig_free", [v EXCEPT !.dpdk_sl = TRUE])
  /\ A("mig_free", v) => A("mig_swap", IF v.mempool = "NULL" THEN v ELSE PoolFreed(v, "freed"))
  /\ A("mig_swap", v) => A("mig_unlock", [v EXCEPT !.mempool = "pool"])
  /\ A("mig_unlock", v) => A("mig_queues", [v EXCEPT !.dpdk_sl = FALSE, !.vio_sl = FALSE])
  /\ A("mig_queues", v) =>
       /\ A(next, [v EXCEPT !.vf_pool = IF v.dpdk_state = "ADDED" THEN "current" ELSE v.vf_pool])
       /\ "queues" \in Faults => A(next, v) /\ A(next, [v EXCEPT !.vf_dev = "closed"])

\* The steps of migrate_mempool lead from phase to phase.
LEMMA MigTable ==
  ASSUME NEW v \in RelayStruct, NEW st, NEW t \in {"vhost", "port"}
  PROVE  MigRows(t, st, v)
<1> DEFINE A(pc, u) == At(t, pc, st, u)
           next == AfterMigration(t)
<1> USE DEF At, VmAt, VfAt, PoolAt, PortAt, PortFits, PortReady, Connecting, Bonding, MigLabels,
            AvLabels, RvLabels, AfLabels, RfLabels, MgLabels, Rest, AfterMigration,
            VmUp, VmDown, VfUp, VfDown, ReadyForVm, RelayStruct
<1>1. A("mig_alloc", v) => A(next, v)
  BY Zenon
<1>2. A("mig_alloc", v) => A("mig_lock_vio", IF v.dpdk_state = "ADDED" THEN Stopped(v) ELSE v)
  BY ZenonT(30) DEF Stopped
<1>3. A("mig_lock_vio", v) => A("mig_lock_dpdk", [v EXCEPT !.vio_sl = TRUE])
  BY Zenon
<1>4. A("mig_lock_dpdk", v) => A("mig_free", [v EXCEPT !.dpdk_sl = TRUE])
  BY Zenon
<1>5. /\ A("mig_free", v) => A("mig_swap", v) /\ A("mig_swap", PoolFreed(v, "freed"))
      /\ A("mig_swap", v) => A("mig_unlock", [v EXCEPT !.mempool = "pool"])
  BY ZenonT(30) DEF PoolFreed
<1>6. A("mig_unlock", v) => A("mig_queues", [v EXCEPT !.dpdk_sl = FALSE, !.vio_sl = FALSE])
  BY ZenonT(30)
<1>7. A("mig_queues", v) =>
        A(next, [v EXCEPT !.vf_pool = IF v.dpdk_state = "ADDED" THEN "current" ELSE v.vf_pool])
  BY ZenonT(30)
<1>8. A("mig_queues", v) /\ "queues" \in Faults =>
        A(next, v) /\ A(next, [v EXCEPT !.vf_dev = "closed"])
  BY ZenonT(30) DEF PortsWork
<1> HIDE DEF At
<1> QED BY Zenon, <1>1, <1>2, <1>3, <1>4, <1>5, <1>6, <1>7, <1>8 DEF MigRows

\* The search for a CPU gives a direction to one, in one step or by way of -1.
LEMMA FindVioMoves ==
  ASSUME TypeOK, NEW t \in Threads, NEW find, NEW pick, NEW done,
         find_virtio2vf_cpu(t, find, pick, done)
  PROVE  \/ Moves(t, find, pick, ToVioCpu(Held(t), NoCpu))
         \/ \E c \in Cpus : \/ Moves(t, find, done, ToVioCpu(Held(t), c))
                          \/ Moves(t, pick, done, ToVioCpu(Held(t), c))
<1>1. ConfCpu[ctl[t].r].vio2vf \in CpuOrNone
  BY Zenon, ConfAssumption DEF TypeOK, CtlStruct
<1>2. \/ /\ ConfCpu[ctl[t].r].vio2vf # NoCpu
         /\ Moves(t, find, done, ToVioCpu(Held(t), ConfCpu[ctl[t].r].vio2vf))
      \/ Moves(t, find, pick, ToVioCpu(Held(t), NoCpu))
      \/ \E c \in Cpus : Moves(t, pick, done, ToVioCpu(Held(t), c))
  BY Zenon DEF find_virtio2vf_cpu, FindCpu, CStep, Moves
<1> QED BY Zenon, <1>1, <1>2 DEF CpuOrNone

\* find_vf2virtio_cpu moves likewise: it returns a worker or goes on to pick one.
LEMMA FindVfMoves ==
  ASSUME TypeOK, NEW t \in Threads, NEW find, NEW pick, NEW done,
         find_vf2virtio_cpu(t, find, pick, done)
  PROVE  \/ Moves(t, find, pick, ToVfCpu(Held(t), NoCpu))
         \/ \E c \in Cpus : \/ Moves(t, find, done, ToVfCpu(Held(t), c))
                          \/ Moves(t, pick, done, ToVfCpu(Held(t), c))
<1>1. ConfCpu[ctl[t].r].vf2vio \in CpuOrNone
  BY Zenon, ConfAssumption DEF TypeOK, CtlStruct
<1>2. \/ /\ ConfCpu[ctl[t].r].vf2vio # NoCpu
         /\ Moves(t, find, done, ToVfCpu(Held(t), ConfCpu[ctl[t].r].vf2vio))
      \/ Moves(t, find, pick, ToVfCpu(Held(t), NoCpu))
      \/ \E c \in Cpus : Moves(t, pick, done, ToVfCpu(Held(t), c))
  BY ZenonT(30) DEF find_vf2virtio_cpu, FindCpu, CStep, Moves
<1> QED BY Zenon, <1>1, <1>2 DEF CpuOrNone

\* The phases of add_virtio, label by label.
AvRows(st, v) ==
  LET A(pc, u) == At("vhost", pc, st, u) IN
  /\ A("av_pool", v) => Rest([v EXCEPT !.vio_dev = FALSE])
  /\ A("av_pool", v) => A("av_cpu", PoolThere(v))
  /\ A("av_pool", v) /\ v.mempool # "NULL" => A("mig_alloc", v)
  /\ \A c \in Cpus, pc \in {"av_cpu", "av_cpu_pick"} : A(pc, v) => A("av_ready", ToVioCpu(v, c))
  /\ A("av_cpu", v) => A("av_cpu_pick", ToVioCpu(v, NoCpu))
  /\ A("av_ready", v) => A("av_flag", [v EXCEPT !.vio_state = "READY"])
  /\ A("av_flag", v) => A("av_vf", v)
  /\ A("av_vf", v) => IF v.dpdk_state = "ADDED" THEN A("av_vf_cpu", v) ELSE Rest(v)
  /\ \A c \in Cpus, pc \in {"av_vf_cpu", "av_vf_cpu_pick"} : A(pc, v) => A("av_start", ToVfCpu(v, c))
  /\ A("av_vf_cpu", v) => A("av_vf_cpu_pick", ToVfCpu(v, NoCpu))
  /\ A("av_start", v) /\ ("start" \in Faults \/ v.vf_dev \in {"detached", "closed"}) => Rest(v)
  /\ A("av_start", v) => A("av_vf_ready", [v EXCEPT !.vf_dev = "started", !.lm_pending = FALSE])
  /\ A("av_vf_ready", v) => A("av_vf_flag", [v EXCEPT !.dpdk_state = "READY"])
  /\ A("av_vf_flag", v) => Rest(v)

\* The steps of virtio_add_sock_dev lead from phase to phase.
LEMMA AvTable ==
  ASSUME NEW v \in RelayStruct, NEW st
  PROVE  AvRows(st, v)
<1> DEFINE A(pc, u) == At("vhost", pc, st, u)
<1>p. PICK u : u = PoolThere(v)
  BY Zenon
<1>q. /\ SameVm(u, v) /\ SameVf(u, v) /\ u.vf_dev = v.vf_dev /\ u.vf_pool = v.vf_pool
      /\ v.mempool # "freed" => u.mempool = "pool"
  BY ZenonT(30), <1>p, PoolMade
<1> USE DEF At, VmAt, VfAt, PoolAt, PortAt, PortFits, PortReady, Connecting, Bonding, MigLabels,
            AvLabels, RvLabels, AfLabels, RfLabels, MgLabels, Rest,
            VmUp, VmDown, VfUp, VfDown, ReadyForVm, RelayStruct
<1>1. A("av_pool", v) => Rest([v EXCEPT !.vio_dev = FALSE])
  BY ZenonT(30)
<1>2. A("av_pool", v) => A("av_cpu", PoolThere(v))
  <2>1. A("av_pool", v) => A("av_cpu", u)
    BY ZenonT(30), <1>q DEF SameVm, SameVf
  <2> HIDE DEF At
  <2> QED BY Zenon, <1>p, <2>1
<1>3. A("av_pool", v) /\ v.mempool # "NULL" => A("mig_alloc", v)
  BY ZenonT(30) DEF Pools
<1>4. /\ \A c \in Cpus, pc \in {"av_cpu", "av_cpu_pick"} : A(pc, v) => A("av_ready", ToVioCpu(v, c))
      /\ A("av_cpu", v) => A("av_cpu_pick", ToVioCpu(v, NoCpu))
  BY CpuAssumption DEF ToVioCpu
<1>5. A("av_ready", v) => A("av_flag", [v EXCEPT !.vio_state = "READY"])
  BY Zenon
<1>6. A("av_flag", v) => A("av_vf", v)
  BY Zenon
<1>7. A("av_vf", v) => IF v.dpdk_state = "ADDED" THEN A("av_vf_cpu", v) ELSE Rest(v)
  BY Zenon
<1>8. /\ \A c \in Cpus, pc \in {"av_vf_cpu", "av_vf_cpu_pick"} : A(pc, v) => A("av_start", ToVfCpu(v, c))
      /\ A("av_vf_cpu", v) => A("av_vf_cpu_pick", ToVfCpu(v, NoCpu))
  BY CpuAssumption DEF ToVfCpu
<1>9. A("av_start", v) /\ ("start" \in Faults \/ v.vf_dev \in {"detached", "closed"}) => Rest(v)
  BY Zenon DEF PortsWork
<1>10. A("av_start", v) => A("av_vf_ready", [v EXCEPT !.vf_dev = "started", !.lm_pending = FALSE])
  BY Zenon
<1>11. A("av_vf_ready", v) => A("av_vf_flag", [v EXCEPT !.dpdk_state = "READY"])
  BY Zenon
<1>12. A("av_vf_flag", v) => Rest(v)
  BY Zenon
<1> HIDE DEF At, Rest
<1> QED BY ZenonT(30), <1>1, <1>2, <1>3, <1>4, <1>5, <1>6, <1>7, <1>8, <1>9, <1>10, <1>11, <1>12 DEF AvRows

\* The same for remove_virtio,
RvRows(t, st, v) ==
  LET A(pc, u) == At(t, pc, st, u) IN
  /\ A("rv_mark", v) => A("rv_wait", [v EXCEPT !.vio_state = "REMOVING1"])
  /\ A("rv_wait", v) /\ v.vio_state = "UNINIT" => A("rv_cpu", v)
  /\ A("rv_cpu", v) => A("rv_flag", ToVioCpu(v, NoCpu)) /\ v.vio2vf_cpu # NoCpu
  /\ A("rv_flag", v) => A("rv_vf", v)
  /\ A("rv_vf", v) /\ v.dpdk_state = "READY" => A("rv_vf_added", Stopped(v))
  /\ A("rv_vf", v) /\ v.dpdk_state # "READY" => A("rv_gone", PoolFreed(v, "NULL"))
  /\ A("rv_vf_added", v) => A("rv_vf_flag", [v EXCEPT !.dpdk_state = "ADDED"])
  /\ A("rv_vf_flag", v) => A("rv_gone", v)
  /\ A("rv_gone", v) => Rest(DeviceGone(v))

\* The steps of virtio_remove_sock_dev lead from phase to phase.
LEMMA RvTable ==
  ASSUME NEW v \in RelayStruct, NEW st, NEW t \in {"vhost", "port"}
  PROVE  RvRows(t, st, v)
<1> DEFINE A(pc, u) == At(t, pc, st, u)
<1> USE DEF At, VmAt, VfAt, PoolAt, PortAt, PortFits, PortReady, Connecting, Bonding, MigLabels,
            AvLabels, RvLabels, AfLabels, RfLabels, MgLabels, Rest,
            VmUp, VmDown, VfUp, VfDown, ReadyForVm, RelayStruct
<1>1. A("rv_mark", v) => A("rv_wait", [v EXCEPT !.vio_state = "REMOVING1"])
  BY ZenonT(30)
<1>2. A("rv_wait", v) /\ v.vio_state = "UNINIT" => A("rv_cpu", v)
  BY Zenon
<1>3. A("rv_cpu", v) => A("rv_flag", ToVioCpu(v, NoCpu)) /\ v.vio2vf_cpu # NoCpu
  BY ZenonT(30) DEF ToVioCpu
<1>4. A("rv_flag", v) => A("rv_vf", v)
  BY Zenon
<1>5. A("rv_vf", v) /\ v.dpdk_state = "READY" => A("rv_vf_added", Stopped(v))
  BY ZenonT(30) DEF Stopped
<1>6. A("rv_vf", v) /\ v.dpdk_state # "READY" => A("rv_gone", PoolFreed(v, "NULL"))
  BY ZenonT(30) DEF PoolFreed, Pools
<1>7. A("rv_vf_added", v) => A("rv_vf_flag", [v EXCEPT !.dpdk_state = "ADDED"])
  BY Zenon
<1>8. A("rv_vf_flag", v) => A("rv_gone", v)
  BY ZenonT(30)
<1>9. A("rv_gone", v) => Rest(DeviceGone(v))
  BY Zenon DEF DeviceGone
<1> HIDE DEF At, Rest
<1> QED BY Zenon, <1>1, <1>2, <1>3, <1>4, <1>5, <1>6, <1>7, <1>8, <1>9 DEF RvRows

\* A port that could not be taken away.
LEMMA DetachChange ==
  ASSUME NEW v \in RelayStruct, NEW u \in DetachFailed(v)
  PROVE  /\ ~PortsWork /\ u \in RelayStruct
         /\ SameVm(u, v) /\ SameVf(u, v) /\ u.mempool = v.mempool
<1>1. "detach" \in Faults /\ u \in {v, [v EXCEPT !.vf_dev = "stopped"], [v EXCEPT !.vf_dev = "closed"]}
  BY Zenon DEF DetachFailed
<1>2. ~PortsWork
  BY Zenon, <1>1 DEF PortsWork
<1>3. u \in RelayStruct /\ SameVm(u, v) /\ SameVf(u, v) /\ u.mempool = v.mempool
  BY ZenonT(30), <1>1 DEF RelayStruct, SameVm, SameVf
<1> QED BY Zenon, <1>2, <1>3

\* add_vf,
AfRows(st, v) ==
  LET A(pc, u) == At("port", pc, st, u) IN
  /\ A("af_attach", v) =>
       A("af_start", Attached(v))
  /\ A("af_attach", v) =>
       \A u \in {v} \cup DetachFailed([v EXCEPT !.vf_dev = "stopped"]) : Rest(u) /\ Rest(PoolThere(u))
  /\ A("af_start", v) /\ "start" \in Faults => \A u \in {Detached(v)} \cup DetachFailed(v) : Rest(u)
  /\ A("af_start", v) => At("port", "af_cpu", IF v.vio_state = "READY" THEN "READY" ELSE "ADDED",
       [v EXCEPT !.lm_pending = FALSE, !.vf_dev = IF v.vio_state = "READY" THEN "started" ELSE v.vf_dev])
  /\ \A c \in Cpus, pc \in {"af_cpu", "af_cpu_pick"} : A(pc, v) => A("af_state", ToVfCpu(v, c))
  /\ A("af_cpu", v) => A("af_cpu_pick", ToVfCpu(v, NoCpu))
  /\ A("af_state", v) => A("af_flag", [v EXCEPT !.dpdk_state = st])
  /\ A("af_flag", v) => Rest(v)

\* The steps of virtio_forwarder_add_vf2 lead from phase to phase.
LEMMA AfTable ==
  ASSUME NEW v \in RelayStruct, NEW st \in {"ADDED", "READY"}
  PROVE  AfRows(st, v)
<1> DEFINE A(pc, u) == At("port", pc, st, u)
<1>a. PICK a : a = Attached(v)
  BY Zenon
<1>b. /\ SameVm(a, v) /\ SameVf(a, v) /\ a.vf_dev = "stopped"
      /\ v.mempool # "freed" => a.mempool = "pool" /\ a.vf_pool = "current"
  BY ZenonT(30), <1>a, PoolMade
<1>q. ASSUME NEW x \in RelayStruct, Rest(x) PROVE Rest(PoolThere(x))
  <2>1. PICK u : u = PoolThere(x)
    BY Zenon
  <2>2. /\ SameVm(u, x) /\ SameVf(u, x) /\ u.vf_dev = x.vf_dev /\ u.vf_pool = x.vf_pool
        /\ x.mempool # "freed" => u.mempool = "pool"
    BY ZenonT(30), <2>1, PoolMade
  <2>3. Rest(u)
    BY ZenonT(30), <1>q, <2>2
       DEF Rest, SameVm, SameVf, PortReady, PortFits, VmUp, VmDown, VfUp, VfDown, ReadyForVm
  <2> QED BY Zenon, <2>1, <2>3
<1> USE DEF At, VmAt, VfAt, PoolAt, PortAt, PortFits, PortReady, Connecting, Bonding, MigLabels,
            AvLabels, RvLabels, AfLabels, RfLabels, MgLabels, Rest,
            VmUp, VmDown, VfUp, VfDown, ReadyForVm, RelayStruct
<1>1. A("af_attach", v) => A("af_start", Attached(v))
  <2>1. A("af_attach", v) => A("af_start", a)
    BY ZenonT(30), <1>b DEF SameVm, SameVf
  <2> HIDE DEF At
  <2> QED BY Zenon, <1>a, <2>1
<1>2. A("af_attach", v) =>
        \A u \in {v} \cup DetachFailed([v EXCEPT !.vf_dev = "stopped"]) : Rest(u) /\ Rest(PoolThere(u))
  <2> SUFFICES ASSUME A("af_attach", v), NEW u \in {v} \cup DetachFailed([v EXCEPT !.vf_dev = "stopped"])
               PROVE  Rest(u) /\ Rest(PoolThere(u))
    BY ZenonT(30)
  <2>1. CASE u = v
    <3>1. Rest(u)
      BY ZenonT(30), <2>1
    <3> HIDE DEF Rest, RelayStruct
    <3> QED BY ZenonT(30), <1>q, <2>1, <3>1
  <2>2. CASE u \in DetachFailed([v EXCEPT !.vf_dev = "stopped"])
    <3>1. [v EXCEPT !.vf_dev = "stopped"] \in RelayStruct
      BY Zenon
    <3>2. /\ ~PortsWork /\ SameVm(u, v) /\ SameVf(u, v) /\ u.mempool = v.mempool
          /\ u \in RelayStruct
      BY SMTT(30), <2>2, <3>1, DetachChange DEF SameVm, SameVf
    <3>3. Rest(u)
      BY ZenonT(30), <3>2 DEF SameVm, SameVf
    <3> HIDE DEF Rest, RelayStruct
    <3> QED BY ZenonT(30), <1>q, <3>2, <3>3
  <2> QED BY ZenonT(30), <2>1, <2>2
<1>3. A("af_start", v) /\ "start" \in Faults => \A u \in {Detached(v)} \cup DetachFailed(v) : Rest(u)
  <2> SUFFICES ASSUME A("af_start", v), "start" \in Faults, NEW u \in {Detached(v)} \cup DetachFailed(v)
               PROVE  Rest(u)
    BY Zenon
  <2>1. ~PortsWork
    BY DEF PortsWork
  <2>2. SameVm(u, v) /\ SameVf(u, v) /\ u.mempool = v.mempool
    <3>1. CASE u = Detached(v)
      BY ZenonT(30), <3>1 DEF Detached, SameVm, SameVf
    <3>2. CASE u \in DetachFailed(v)
      BY ZenonT(30), <3>2, DetachChange
    <3> QED BY ZenonT(30), <3>1, <3>2
  <2> QED BY ZenonT(30), <2>1, <2>2 DEF SameVm, SameVf
<1>4. A("af_start", v) => At("port", "af_cpu", IF v.vio_state = "READY" THEN "READY" ELSE "ADDED",
        [v EXCEPT !.lm_pending = FALSE, !.vf_dev = IF v.vio_state = "READY" THEN "started" ELSE v.vf_dev])
  OBVIOUS
<1>5. \A c \in Cpus, pc \in {"af_cpu", "af_cpu_pick"} : A(pc, v) => A("af_state", ToVfCpu(v, c))
  BY CpuAssumption DEF ToVfCpu
<1>6. A("af_cpu", v) => A("af_cpu_pick", ToVfCpu(v, NoCpu))
  BY ZenonT(30) DEF ToVfCpu
<1>7. A("af_state", v) => A("af_flag", [v EXCEPT !.dpdk_state = st])
  BY ZenonT(30)
<1>8. A("af_flag", v) => Rest(v)
  BY Zenon
<1> HIDE DEF At, Rest
<1> QED BY ZenonT(30), <1>1, <1>2, <1>3, <1>4, <1>5, <1>6, <1>7, <1>8 DEF AfRows

\* remove_vf
RfRows(st, v) ==
  LET A(pc, u) == At("port", pc, st, u) IN
  /\ A("rf_mark", v) => A("rf_wait", [v EXCEPT !.dpdk_state = "REMOVING1"])
  /\ A("rf_wait", v) /\ v.dpdk_state = "UNINIT" => A("rf_cpu", v)
  /\ A("rf_cpu", v) => A("rf_flag", ToVfCpu(v, NoCpu)) /\ v.vf2vio_cpu # NoCpu
  /\ A("rf_flag", v) => A("rf_detach", v)
  /\ A("rf_detach", v) => A("rf_pool", Detached(v))
  /\ A("rf_detach", v) => \A u \in DetachFailed(v) : Rest(u)
  /\ A("rf_pool", v) => Rest(IF v.vio_state = "UNINIT" THEN PoolFreed(v, "NULL") ELSE v)

\* The steps of virtio_forwarder_remove_vf2 lead from phase to phase.
LEMMA RfTable ==
  ASSUME NEW v \in RelayStruct, NEW st
  PROVE  RfRows(st, v)
<1> DEFINE A(pc, u) == At("port", pc, st, u)
<1>p. PICK f : f = PoolFreed(v, "NULL")
  BY Zenon
<1>q. SameVm(f, v) /\ SameVf(f, v) /\ f.vf_dev = v.vf_dev /\ f.mempool = "NULL"
  BY ZenonT(30), <1>p, PortChange DEF Pools
<1> USE DEF At, VmAt, VfAt, PoolAt, PortAt, PortFits, PortReady, Connecting, Bonding, MigLabels,
            AvLabels, RvLabels, AfLabels, RfLabels, MgLabels, Rest,
            VmUp, VmDown, VfUp, VfDown, ReadyForVm, RelayStruct
<1>1. A("rf_mark", v) => A("rf_wait", [v EXCEPT !.dpdk_state = "REMOVING1"])
  BY ZenonT(30)
<1>2. A("rf_wait", v) /\ v.dpdk_state = "UNINIT" => A("rf_cpu", v)
  BY Zenon
<1>3. A("rf_cpu", v) => A("rf_flag", ToVfCpu(v, NoCpu)) /\ v.vf2vio_cpu # NoCpu
  BY ZenonT(30) DEF ToVfCpu
<1>4. A("rf_flag", v) => A("rf_detach", v)
  BY ZenonT(30)
<1>5. A("rf_detach", v) => A("rf_pool", Detached(v))
  BY ZenonT(30) DEF Detached
<1>6. A("rf_detach", v) => \A u \in DetachFailed(v) : Rest(u)
  BY DEF DetachFailed, PortsWork
<1>7. A("rf_pool", v) => Rest(IF v.vio_state = "UNINIT" THEN PoolFreed(v, "NULL") ELSE v)
  <2>1. A("rf_pool", v) => IF v.vio_state = "UNINIT" THEN Rest(f) ELSE Rest(v)
    BY ZenonT(30), <1>q DEF SameVm, SameVf
  <2> HIDE DEF At, Rest
  <2> QED BY Zenon, <1>p, <2>1
<1> HIDE DEF At, Rest
<1> QED BY Zenon, <1>1, <1>2, <1>3, <1>4, <1>5, <1>6, <1>7 DEF RfRows

\* and migrate_relay_cpus.
MgRows(st, v) ==
  LET A(pc, u) == At("sched", pc, st, u) IN
  /\ \A c \in Cpus : A("mg_vio", v) => A("mg_vio_flag", ToVioCpu(v, c))
  /\ \A pc \in {"mg_vio", "mg_vio_flag"} : A(pc, v) => A("mg_dpdk_test", v)
  /\ A("mg_dpdk_test", v) => IF v.dpdk_state \in {"ADDED", "READY"} THEN A("mg_dpdk", v) ELSE Rest(v)
  /\ \A c \in Cpus : A("mg_dpdk", v) => A("mg_dpdk_flag", ToVfCpu(v, c))
  /\ \A pc \in {"mg_dpdk", "mg_dpdk_flag"} : A(pc, v) => Rest(v)

\* The steps of the worker migration lead from phase to phase.
LEMMA MgTable ==
  ASSUME NEW v \in RelayStruct, NEW st
  PROVE  MgRows(st, v)
<1> DEFINE A(pc, u) == At("sched", pc, st, u)
<1> USE DEF At, VmAt, VfAt, PoolAt, PortAt, PortFits, PortReady, Connecting, Bonding, MigLabels,
            AvLabels, RvLabels, AfLabels, RfLabels, MgLabels, Rest,
            VmUp, VmDown, VfUp, VfDown, ReadyForVm, RelayStruct
<1>1. \A c \in Cpus : A("mg_vio", v) => A("mg_vio_flag", ToVioCpu(v, c))
  BY SMTT(30), CpuAssumption DEF ToVioCpu
<1>2. \A pc \in {"mg_vio", "mg_vio_flag"} : A(pc, v) => A("mg_dpdk_test", v)
  BY SMTT(30)
<1>3. A("mg_dpdk_test", v) => IF v.dpdk_state \in {"ADDED", "READY"} THEN A("mg_dpdk", v) ELSE Rest(v)
  BY ZenonT(30)
<1>4. \A c \in Cpus : A("mg_dpdk", v) => A("mg_dpdk_flag", ToVfCpu(v, c))
  BY SMTT(30), CpuAssumption DEF ToVfCpu
<1>5. \A pc \in {"mg_dpdk", "mg_dpdk_flag"} : A(pc, v) => Rest(v)
  OBVIOUS
<1> HIDE DEF At, Rest
<1> QED BY ZenonT(30), <1>1, <1>2, <1>3, <1>4, <1>5 DEF MgRows

\* Every operation begins in the phase of its first label.
FirstRows(st, v) ==
  /\ Rest(v) /\ ~v.vio_dev => v.vio_state = "UNINIT" /\ At("vhost", "av_pool", st, [v EXCEPT !.vio_dev = TRUE])
  /\ Rest(v) /\ v.vio_dev => v.vio_state = "READY" /\ \A t \in {"vhost", "port"} : At(t, "rv_mark", st, v)
  /\ Rest(v) => Rest([v EXCEPT !.lm_pending = TRUE])
  /\ Rest(v) /\ v.dpdk_state = "UNINIT" => At("port", "af_attach", st, v) /\ At("port", "mig_alloc", st, v)
  /\ Rest(v) /\ v.dpdk_state \in {"READY", "ADDED"} => v.vf2vio_cpu # NoCpu /\ At("port", "rf_mark", st, v)
  /\ Rest(v) => At("sched", IF v.vio_state = "READY" THEN "mg_vio" ELSE "mg_dpdk_test", st, v)

\* An operation begins in the phase of its first label.
LEMMA FirstTable ==
  ASSUME NEW v \in RelayStruct, NEW st
  PROVE  FirstRows(st, v)
<1> USE DEF At, VmAt, VfAt, PoolAt, PortAt, PortFits, PortReady, Connecting, Bonding, MigLabels,
            AvLabels, RvLabels, AfLabels, RfLabels, MgLabels, Rest,
            VmUp, VmDown, VfUp, VfDown, ReadyForVm, RelayStruct
<1>1. Rest(v) /\ ~v.vio_dev => v.vio_state = "UNINIT" /\ At("vhost", "av_pool", st, [v EXCEPT !.vio_dev = TRUE])
  BY ZenonT(30)
<1>2. Rest(v) /\ v.vio_dev => v.vio_state = "READY" /\ \A t \in {"vhost", "port"} : At(t, "rv_mark", st, v)
  BY ZenonT(30)
<1>3. Rest(v) => Rest([v EXCEPT !.lm_pending = TRUE])
  BY ZenonT(30)
<1>4. Rest(v) /\ v.dpdk_state = "UNINIT" => At("port", "af_attach", st, v) /\ At("port", "mig_alloc", st, v)
  BY ZenonT(30)
<1>5. Rest(v) /\ v.dpdk_state \in {"READY", "ADDED"} => v.vf2vio_cpu # NoCpu /\ At("port", "rf_mark", st, v)
  BY ZenonT(30)
<1>6. Rest(v) => At("sched", IF v.vio_state = "READY" THEN "mg_vio" ELSE "mg_dpdk_test", st, v)
  BY ZenonT(30)
<1> HIDE DEF At, Rest
<1> QED BY Zenon, <1>1, <1>2, <1>3, <1>4, <1>5, <1>6 DEF FirstRows

\* What the steps of the removals leave to the workers.
RemoveRows(v) ==
  LET K(pc, l, u) == u \in RelayStruct /\ Kept(pc, l, v, u) IN
  /\ v.vio_state = "READY" => K("rv_mark", "rv_wait", [v EXCEPT !.vio_state = "REMOVING1"])
  /\ K("rv_wait", "rv_cpu", v) /\ K("rv_cpu", "rv_flag", ToVioCpu(v, NoCpu)) /\ K("rv_flag", "rv_vf", v)
  /\ K("rv_vf", "rv_vf_added", Stopped(v))
  /\ K("rv_vf", "rv_gone", PoolFreed(v, "NULL"))
  /\ v.dpdk_state = "READY" => K("rv_vf_added", "rv_vf_flag", [v EXCEPT !.dpdk_state = "ADDED"])
  /\ K("rv_vf_flag", "rv_gone", v) /\ K("rv_gone", "idle", DeviceGone(v))
  /\ v.dpdk_state \in {"ADDED", "READY"} => K("rf_mark", "rf_wait", [v EXCEPT !.dpdk_state = "REMOVING1"])
  /\ K("rf_wait", "rf_cpu", v) /\ K("rf_cpu", "rf_flag", ToVfCpu(v, NoCpu)) /\ K("rf_flag", "rf_detach", v)
  /\ K("rf_detach", "rf_pool", Detached(v)) /\ \A u \in DetachFailed(v) : K("rf_detach", "idle", u)
  /\ K("rf_pool", "idle", IF v.vio_state = "UNINIT" THEN PoolFreed(v, "NULL") ELSE v)

\* The steps of the removals that need the phase they start in.
LEMMA RemoveTable ==
  ASSUME NEW v \in RelayStruct
  PROVE  RemoveRows(v)
<1> DEFINE K(pc, l, u) == u \in RelayStruct /\ Kept(pc, l, v, u)
<1>1. ASSUME v.vio_state = "READY" PROVE K("rv_mark", "rv_wait", [v EXCEPT !.vio_state = "REMOVING1"])
  BY SMTT(30), <1>1 DEF RelayStruct, Kept, Seen, Meets, RvLabels, RfLabels
<1>2. ASSUME v.dpdk_state = "READY"
      PROVE  K("rv_vf_added", "rv_vf_flag", [v EXCEPT !.dpdk_state = "ADDED"])
  BY SMTT(30), <1>2 DEF RelayStruct, Kept, Seen, Meets, RvLabels, RfLabels
<1>3. ASSUME v.dpdk_state \in {"ADDED", "READY"}
      PROVE  K("rf_mark", "rf_wait", [v EXCEPT !.dpdk_state = "REMOVING1"])
  BY SMTT(30), <1>3 DEF RelayStruct, Kept, Seen, Meets, RvLabels, RfLabels
<1>4. ASSUME NEW pc, NEW l, NEW u \in RelayStruct,
             u.vio_state = v.vio_state, u.dpdk_state = v.dpdk_state,
             \/ pc \in RvLabels /\ l \in {"rv_flag", "rv_vf", "rv_vf_added", "rv_vf_flag", "rv_gone", "idle"}
             \/ pc \in RfLabels /\ l \in RfLabels \cup {"idle"}
             \/ pc = "rv_wait" /\ l = "rv_cpu" /\ u = v
      PROVE  K(pc, l, u)
  BY Zenon, <1>4, KeptSame DEF RvLabels, RfLabels
<1>5. \A u \in {v, ToVioCpu(v, NoCpu), ToVfCpu(v, NoCpu), Stopped(v), DeviceGone(v), Detached(v)} \cup DetachFailed(v) :
        u \in RelayStruct /\ u.vio_state = v.vio_state /\ u.dpdk_state = v.dpdk_state
  <2>1. \A u \in DetachFailed(v) :
          u \in RelayStruct /\ u.vio_state = v.vio_state /\ u.dpdk_state = v.dpdk_state
    BY Zenon, DetachChange DEF SameVm, SameVf
  <2>2. \A u \in {ToVioCpu(v, NoCpu), ToVfCpu(v, NoCpu)} :
          u \in RelayStruct /\ u.vio_state = v.vio_state /\ u.dpdk_state = v.dpdk_state
    BY DEF RelayStruct, ToVioCpu, ToVfCpu, CpuOrNone
  <2>3. \A u \in {DeviceGone(v), Detached(v)} :
          u \in RelayStruct /\ u.vio_state = v.vio_state /\ u.dpdk_state = v.dpdk_state
    BY ZenonT(30) DEF RelayStruct, DeviceGone, Detached
  <2>4. Stopped(v) \in RelayStruct /\ SameVm(Stopped(v), v) /\ SameVf(Stopped(v), v)
    BY Zenon, PortChange
  <2> QED BY ZenonT(30), <2>1, <2>2, <2>3, <2>4 DEF SameVm, SameVf
<1>6. LET u == PoolFreed(v, "NULL") IN
        u \in RelayStruct /\ u.vio_state = v.vio_state /\ u.dpdk_state = v.dpdk_state
  BY ZenonT(30), PortChange DEF SameVm, SameVf, Pools
<1> HIDE DEF K
<1>7. /\ K("rv_wait", "rv_cpu", v) /\ K("rv_cpu", "rv_flag", ToVioCpu(v, NoCpu)) /\ K("rv_flag", "rv_vf", v)
      /\ K("rv_vf", "rv_vf_added", Stopped(v))
      /\ K("rv_vf", "rv_gone", PoolFreed(v, "NULL"))
      /\ K("rv_vf_flag", "rv_gone", v) /\ K("rv_gone", "idle", DeviceGone(v))
  BY ZenonT(30), <1>4, <1>5, <1>6 DEF RvLabels
<1>8. /\ K("rf_wait", "rf_cpu", v) /\ K("rf_cpu", "rf_flag", ToVfCpu(v, NoCpu)) /\ K("rf_flag", "rf_detach", v)
      /\ K("rf_detach", "rf_pool", Detached(v)) /\ \A u \in DetachFailed(v) : K("rf_detach", "idle", u)
      /\ K("rf_pool", "idle", IF v.vio_state = "UNINIT" THEN PoolFreed(v, "NULL") ELSE v)
  BY ZenonT(30), <1>4, <1>5, <1>6 DEF RfLabels
<1> QED BY ZenonT(30), <1>1, <1>2, <1>3, <1>7, <1>8 DEF RemoveRows, K

-----------------------------------------------------------------------------
(* The operations *)

\* migrate_mempool.
LEMMA MigrateMempoolApart ==
  ASSUME ApartInv, NEW t \in Threads, migrate_mempool(t)
  PROVE  Phases' /\ Passes'
<1> DEFINE v == Held(t)
           st == ctl[t].st
           next == AfterMigration(t)
<1>1. v \in RelayStruct
  BY Zenon, HeldType DEF ApartInv
<1>2. t \in {"vhost", "port"}
  BY Zenon DEF migrate_mempool, migrate_mempool_alloc, migrate_mempool_lock, migrate_mempool_swap,
         migrate_mempool_queues, CStep, ApartInv, Phases, LabelsOf, MgLabels, Threads
<1>3. ASSUME NEW pc \in MigLabels, NEW l \in MigLabels \cup {next}, NEW u, Mild(v, u),
             Moves(t, pc, l, u), At(t, pc, st, v) => At(t, l, st, u)
      PROVE  Phases' /\ Passes'
  <2>1. l \in LabelsOf(t) \ (RvLabels \cup RfLabels) /\ l # "idle"
    BY Zenon, <1>2 DEF LabelsOf, MigLabels, AvLabels, AfLabels, RvLabels, RfLabels, AfterMigration
  <2>2. pc \in CtlLabels \ (RvLabels \cup RfLabels \cup {"idle"})
    BY ZenonT(30) DEF MigLabels, RvLabels, RfLabels, CtlLabels
  <2> QED BY ZenonT(30), <1>3, <2>1, <2>2, AddStep DEF Mild
<1>4. MigLabels = {"mig_alloc", "mig_lock_vio", "mig_lock_dpdk", "mig_free", "mig_swap", "mig_unlock",
                   "mig_queues"}
  BY Zenon DEF MigLabels
<1> HIDE DEF v, st
<1>5. MigRows(t, st, v) /\ MildRows(v)
  BY Zenon, <1>1, <1>2, MigTable, MildUpdates
<1>6. CASE migrate_mempool_alloc(t)
  <2>1. \/ Moves(t, "mig_alloc", next, v)
        \/ Moves(t, "mig_alloc", "mig_lock_vio", IF v.dpdk_state = "ADDED" THEN Stopped(v) ELSE v)
    BY ZenonT(30), <1>6, CStepMoves DEF migrate_mempool_alloc, v
  <2> QED BY Zenon, <1>3, <1>4, <1>5, <2>1 DEF MigRows, MildRows
<1>7. CASE migrate_mempool_lock(t)
  <2>1. \/ Moves(t, "mig_lock_vio", "mig_lock_dpdk", [v EXCEPT !.vio_sl = TRUE])
        \/ Moves(t, "mig_lock_dpdk", "mig_free", [v EXCEPT !.dpdk_sl = TRUE])
    BY ZenonT(30), <1>7, CStepMoves DEF migrate_mempool_lock, v
  <2> QED BY Zenon, <1>3, <1>4, <1>5, <2>1 DEF MigRows, MildRows
<1>8. CASE migrate_mempool_swap(t)
  <2>1. \/ Moves(t, "mig_free", "mig_swap", IF v.mempool = "NULL" THEN v ELSE PoolFreed(v, "freed"))
        \/ Moves(t, "mig_swap", "mig_unlock", [v EXCEPT !.mempool = "pool"])
        \/ Moves(t, "mig_unlock", "mig_queues", [v EXCEPT !.dpdk_sl = FALSE, !.vio_sl = FALSE])
    BY ZenonT(30), <1>8, CStepMoves DEF migrate_mempool_swap, v
  <2> QED BY Zenon, <1>3, <1>4, <1>5, <2>1 DEF MigRows, MildRows
<1>9. CASE migrate_mempool_queues(t)
  <2>1. PICK u : /\ Moves(t, "mig_queues", next, u)
                 /\ \/ u = [v EXCEPT !.vf_pool = IF v.dpdk_state = "ADDED" THEN "current" ELSE v.vf_pool]
                    \/ "queues" \in Faults /\ u \in {v, [v EXCEPT !.vf_dev = "closed"]}
    BY ZenonT(30), <1>9, CStepMoves DEF migrate_mempool_queues, v
  <2>2. Mild(v, u)
    BY <1>1, <2>1 DEF RelayStruct, Mild
  <2>3. At(t, "mig_queues", st, v) => At(t, next, st, u)
    BY Zenon, <1>5, <2>1 DEF MigRows
  <2> QED BY ZenonT(30), <1>3, <1>4, <2>1, <2>2, <2>3
<1> QED BY Zenon, <1>6, <1>7, <1>8, <1>9 DEF migrate_mempool

\* The connection of a VM.
LEMMA AddVirtioApart ==
  ASSUME ApartInv, NEW t \in Threads, add_virtio_body(t)
  PROVE  Phases' /\ Passes'
<1>1. CASE migrate_mempool(t)
  BY Zenon, <1>1, MigrateMempoolApart
<1>2. ASSUME ~migrate_mempool(t) PROVE Phases' /\ Passes'
  <2> DEFINE v == Held(t)
             st == ctl[t].st
  <2>1. v \in RelayStruct /\ TypeOK
    BY Zenon, HeldType DEF ApartInv
  <2>2. ctl[t].pc \in AvLabels
    BY ZenonT(30), <1>2 DEF add_virtio_body, add_virtio_pool, add_virtio_ready, add_virtio_start,
       add_virtio_vf_ready, find_virtio2vf_cpu, find_vf2virtio_cpu, FindCpu, CStep, CFlag, AvLabels
  <2>3. t = "vhost"
    BY ZenonT(30), <2>2 DEF ApartInv, Phases, LabelsOf, AvLabels, MigLabels, RvLabels, AfLabels, RfLabels,
       MgLabels, Threads
  <2>4. ASSUME NEW pc \in AvLabels, NEW l \in AvLabels \cup {"idle", "mig_alloc"},
               NEW u, Mild(v, u), Moves(t, pc, l, u),
               At("vhost", pc, st, v) => IF l = "idle" THEN Rest(u) ELSE At("vhost", l, st, u)
        PROVE  Phases' /\ Passes'
    <3>1. pc \in CtlLabels \ (RvLabels \cup RfLabels \cup {"idle"})
      BY DEF AvLabels, CtlLabels, RvLabels, RfLabels
    <3>2. l \in LabelsOf(t) \ (RvLabels \cup RfLabels)
      BY Zenon, <2>3 DEF AvLabels, LabelsOf, RvLabels, RfLabels, MigLabels
    <3> QED BY ZenonT(30), <2>3, <2>4, <3>1, <3>2, AddStep DEF Mild
  <2>5. AvLabels = {"av_pool", "av_cpu", "av_cpu_pick", "av_ready", "av_flag", "av_vf", "av_vf_cpu",
                    "av_vf_cpu_pick", "av_start", "av_vf_ready", "av_vf_flag"}
    BY Zenon DEF AvLabels
  <2> HIDE DEF v, st
  <2>6. AvRows(st, v) /\ MildRows(v)
    BY Zenon, <2>1, AvTable, MildUpdates
  <2>7. CASE add_virtio_pool(t)
    <3>1. \/ Moves(t, "av_pool", "idle", [v EXCEPT !.vio_dev = FALSE])
          \/ Moves(t, "av_pool", "av_cpu", PoolThere(v))
          \/ v.mempool # "NULL" /\ Moves(t, "av_pool", "mig_alloc", v)
      BY Zenon, <2>7, CStepMoves DEF add_virtio_pool, v
    <3> QED BY ZenonT(30), <2>4, <2>5, <2>6, <3>1 DEF AvRows, MildRows
  <2>8. CASE add_virtio_ready(t)
    <3>1. \/ Moves(t, "av_ready", "av_flag", [v EXCEPT !.vio_state = "READY"])
          \/ Moves(t, "av_flag", "av_vf", v)
          \/ Moves(t, "av_vf", IF v.dpdk_state = "ADDED" THEN "av_vf_cpu" ELSE "idle", v)
      BY ZenonT(30), <2>1, <2>8, CStepMoves, CFlagMoves DEF add_virtio_ready, v
    <3>2. ctl[t].pc = "av_ready" => v.vio_state = "UNINIT"
      BY Zenon, PhaseHere DEF ApartInv, At, VmAt, Connecting, v
    <3>3. Moves(t, "av_ready", "av_flag", [v EXCEPT !.vio_state = "READY"]) => ctl[t].pc = "av_ready"
      BY ZenonT(30) DEF Moves
    <3> QED BY Zenon, <2>4, <2>5, <2>6, <3>1, <3>2, <3>3 DEF AvRows, MildRows
  <2>9. CASE add_virtio_start(t)
    <3>1. \/ /\ "start" \in Faults \/ v.vf_dev \in {"detached", "closed"}
             /\ Moves(t, "av_start", "idle", v)
          \/ Moves(t, "av_start", "av_vf_ready", [v EXCEPT !.vf_dev = "started", !.lm_pending = FALSE])
      BY ZenonT(30), <2>9, CStepMoves DEF add_virtio_start, v
    <3> QED BY Zenon, <2>4, <2>5, <2>6, <3>1 DEF AvRows, MildRows
  <2>10. CASE add_virtio_vf_ready(t)
    <3>1. \/ Moves(t, "av_vf_ready", "av_vf_flag", [v EXCEPT !.dpdk_state = "READY"])
          \/ Moves(t, "av_vf_flag", "idle", v)
      BY ZenonT(30), <2>1, <2>10, CStepMoves, CFlagMoves DEF add_virtio_vf_ready, v
    <3> QED BY ZenonT(30), <2>4, <2>5, <2>6, <3>1 DEF AvRows, MildRows
  <2>11. CASE find_virtio2vf_cpu(t, "av_cpu", "av_cpu_pick", "av_ready")
    <3>1. \/ Moves(t, "av_cpu", "av_cpu_pick", ToVioCpu(v, NoCpu))
          \/ \E c \in Cpus : \/ Moves(t, "av_cpu", "av_ready", ToVioCpu(v, c))
                           \/ Moves(t, "av_cpu_pick", "av_ready", ToVioCpu(v, c))
      BY ZenonT(30), <2>1, <2>11, FindVioMoves DEF v
    <3> QED BY Zenon, <2>4, <2>5, <2>6, <3>1 DEF AvRows, MildRows, CpuOrNone
  <2>12. CASE find_vf2virtio_cpu(t, "av_vf_cpu", "av_vf_cpu_pick", "av_start")
    <3>1. \/ Moves(t, "av_vf_cpu", "av_vf_cpu_pick", ToVfCpu(v, NoCpu))
          \/ \E c \in Cpus : \/ Moves(t, "av_vf_cpu", "av_start", ToVfCpu(v, c))
                           \/ Moves(t, "av_vf_cpu_pick", "av_start", ToVfCpu(v, c))
      BY ZenonT(30), <2>1, <2>12, FindVfMoves DEF v
    <3> QED BY ZenonT(30), <2>4, <2>5, <2>6, <3>1 DEF AvRows, MildRows, CpuOrNone
  <2> QED BY ZenonT(30), <1>2, <2>7, <2>8, <2>9, <2>10, <2>11, <2>12 DEF add_virtio_body
<1> QED BY ZenonT(30), <1>1, <1>2

\* The removal of a VM.
LEMMA RemoveVirtioApart ==
  ASSUME ApartInv, "timeout" \notin Faults, NEW t \in Threads, remove_virtio_body(t)
  PROVE  Phases' /\ Passes'
<1> DEFINE v == Held(t)
           st == ctl[t].st
<1>1. v \in RelayStruct /\ TypeOK
  BY Zenon, HeldType DEF ApartInv
<1>2. ctl[t].pc \in RvLabels
  BY Zenon DEF remove_virtio_body, remove_virtio_wait, remove_virtio_cpu, remove_virtio_vf, CStep, CFlag, RvLabels
<1>3. t \in {"vhost", "port"}
  BY ZenonT(30), <1>2 DEF ApartInv, Phases, LabelsOf, RvLabels, MgLabels, Threads
<1>4. At(t, ctl[t].pc, st, v)
  BY Zenon, <1>2, PhaseHere DEF ApartInv, RvLabels
<1>5. ASSUME NEW pc \in RvLabels, NEW l \in (RvLabels \ {"rv_flag"}) \cup {"idle"},
             NEW u \in RelayStruct, Moves(t, pc, l, u), Kept(pc, l, v, u),
             At(t, pc, st, v) => IF l = "idle" THEN Rest(u) ELSE At(t, l, st, u)
      PROVE  Phases' /\ Passes'
  <2>1. pc \in CtlLabels \ {"idle"} /\ l \in LabelsOf(t) \ {"rv_flag", "rf_flag"}
    BY <1>3 DEF RvLabels, CtlLabels, LabelsOf
  <2>2. ctl[t].pc = pc
    BY Zenon, <1>5 DEF Moves
  <2> QED BY ZenonT(30), <1>4, <1>5, <2>1, <2>2, MovesApart
<1>6. RvLabels = {"rv_mark", "rv_wait", "rv_cpu", "rv_flag", "rv_vf", "rv_vf_added", "rv_vf_flag", "rv_gone"}
  BY Zenon DEF RvLabels
<1>7. v.vio_state = "READY" \/ ctl[t].pc # "rv_mark"
  BY Zenon, <1>4 DEF At, VmAt, VmUp
<1>8. v.dpdk_state = "READY" \/ ctl[t].pc # "rv_vf_added"
  BY Zenon, <1>4 DEF At, VfAt
<1> HIDE DEF v, st
<1>9. RvRows(t, st, v) /\ RemoveRows(v)
  BY ZenonT(30), <1>1, <1>3, RvTable, RemoveTable
<1>10. CASE remove_virtio_wait(t)
  <2>1. \/ /\ Moves(t, "rv_mark", "rv_wait", [v EXCEPT !.vio_state = "REMOVING1"])
           /\ v.vio_state = "READY"
        \/ v.vio_state = "UNINIT" /\ Moves(t, "rv_wait", "rv_cpu", v)
    BY Zenon, <1>7, <1>10, CStepMoves DEF remove_virtio_wait, v, CStep
  <2> QED BY ZenonT(30), <1>5, <1>6, <1>9, <2>1 DEF RvRows, RemoveRows
<1>11. CASE remove_virtio_cpu(t)
  <2>1. CASE CFlag(t, "rv_flag", "rv_vf", ctl[t].cpu)
    <3>1. Moves(t, "rv_flag", "rv_vf", v)
      BY ZenonT(30), <1>1, <2>1, CFlagMoves DEF v
    <3> QED BY Zenon, <1>5, <1>6, <1>9, <3>1 DEF RvRows, RemoveRows
  <2>2. CASE /\ ctl[t].pc = "rv_cpu"
             /\ ctl' = [ctl EXCEPT ![t] = [ctl[t] EXCEPT !.pc = "rv_flag", !.cpu = v.vio2vf_cpu]]
             /\ relay' = [relay EXCEPT ![ctl[t].r] = ToVioCpu(v, NoCpu)]
             /\ worker' = worker
    <3>1. At(t, "rv_flag", st, ToVioCpu(v, NoCpu)) /\ v.vio2vf_cpu # NoCpu
      BY ZenonT(30), <1>4, <1>9, <2>2 DEF RvRows
    <3>2. ToVioCpu(v, NoCpu) \in RelayStruct /\ Kept("rv_cpu", "rv_flag", v, ToVioCpu(v, NoCpu))
      BY Zenon, <1>9 DEF RemoveRows
    <3>3. v.vio2vf_cpu \in CpuOrNone
      BY Zenon, <1>1 DEF RelayStruct
    <3>4. "rv_cpu" \in CtlLabels \ {"idle"} /\ "rv_flag" \in LabelsOf(t) \ {"idle"}
      BY ZenonT(30), <1>3 DEF CtlLabels, LabelsOf, RvLabels
    <3> QED BY ZenonT(30), <2>2, <3>1, <3>2, <3>3, <3>4, CpuStepApart DEF v, st
  <2> QED BY ZenonT(30), <1>11, <2>1, <2>2 DEF remove_virtio_cpu, v
<1>12. CASE remove_virtio_vf(t)
  <2>1. \/ /\ v.dpdk_state = "READY"
           /\ Moves(t, "rv_vf", "rv_vf_added", Stopped(v))
        \/ /\ v.dpdk_state # "READY"
           /\ Moves(t, "rv_vf", "rv_gone", PoolFreed(v, "NULL"))
        \/ /\ Moves(t, "rv_vf_added", "rv_vf_flag", [v EXCEPT !.dpdk_state = "ADDED"])
           /\ v.dpdk_state = "READY"
        \/ Moves(t, "rv_vf_flag", "rv_gone", v)
        \/ Moves(t, "rv_gone", "idle", DeviceGone(v))
    BY ZenonT(30), <1>1, <1>8, <1>12, CStepMoves, CFlagMoves DEF remove_virtio_vf, v, CStep
  <2> QED BY <1>5, <1>6, <1>9, <2>1 DEF RvRows, RemoveRows
<1> QED BY Zenon, <1>10, <1>11, <1>12 DEF remove_virtio_body

\* The removal of a VF.
LEMMA DetachApart ==
  ASSUME ApartInv, "timeout" \notin Faults, NEW t \in Threads, detach_device(t)
  PROVE  Phases' /\ Passes'
<1> DEFINE v == Held(t)
           st == ctl[t].st
<1>1. v \in RelayStruct /\ TypeOK
  BY Zenon, HeldType DEF ApartInv
<1>2. ctl[t].pc \in RfLabels
  BY Zenon DEF detach_device, stop_vm2vf_thread, detach_device_cpu, detach_device_port, CStep, CFlag, RfLabels
<1>3. t = "port"
  BY Zenon, <1>2 DEF ApartInv, Phases, LabelsOf, RfLabels, RvLabels, AvLabels, MigLabels, MgLabels, Threads
<1>4. At("port", ctl[t].pc, st, v)
  BY ZenonT(30), <1>2, <1>3, PhaseHere DEF ApartInv, RfLabels
<1>5. ASSUME NEW pc \in RfLabels, NEW l \in (RfLabels \ {"rf_flag"}) \cup {"idle"},
             NEW u \in RelayStruct, Moves(t, pc, l, u), Kept(pc, l, v, u),
             At("port", pc, st, v) => IF l = "idle" THEN Rest(u) ELSE At("port", l, st, u)
      PROVE  Phases' /\ Passes'
  <2>1. pc \in CtlLabels \ {"idle"} /\ l \in LabelsOf(t) \ {"rv_flag", "rf_flag"}
    BY <1>3 DEF RfLabels, CtlLabels, LabelsOf
  <2>2. ctl[t].pc = pc
    BY Zenon, <1>5 DEF Moves
  <2> QED BY ZenonT(30), <1>3, <1>4, <1>5, <2>1, <2>2, MovesApart
<1>6. RfLabels = {"rf_mark", "rf_wait", "rf_cpu", "rf_flag", "rf_detach", "rf_pool"}
  BY Zenon DEF RfLabels
<1>7. v.dpdk_state \in {"ADDED", "READY"} \/ ctl[t].pc # "rf_mark"
  BY Zenon, <1>4 DEF At, VfAt, VfUp
<1> HIDE DEF v, st
<1>8. RfRows(st, v) /\ RemoveRows(v)
  BY Zenon, <1>1, RfTable, RemoveTable
<1>9. CASE stop_vm2vf_thread(t)
  <2>1. \/ /\ Moves(t, "rf_mark", "rf_wait", [v EXCEPT !.dpdk_state = "REMOVING1"])
           /\ v.dpdk_state \in {"ADDED", "READY"}
        \/ v.dpdk_state = "UNINIT" /\ Moves(t, "rf_wait", "rf_cpu", v)
    BY Zenon, <1>7, <1>9, CStepMoves DEF stop_vm2vf_thread, v, CStep
  <2> QED BY ZenonT(30), <1>5, <1>6, <1>8, <2>1 DEF RfRows, RemoveRows
<1>10. CASE detach_device_cpu(t)
  <2>1. CASE CFlag(t, "rf_flag", "rf_detach", ctl[t].cpu)
    <3>1. Moves(t, "rf_flag", "rf_detach", v)
      BY ZenonT(30), <1>1, <2>1, CFlagMoves DEF v
    <3> QED BY Zenon, <1>5, <1>6, <1>8, <3>1 DEF RfRows, RemoveRows
  <2>2. CASE /\ ctl[t].pc = "rf_cpu"
             /\ ctl' = [ctl EXCEPT ![t] = [ctl[t] EXCEPT !.pc = "rf_flag", !.cpu = v.vf2vio_cpu]]
             /\ relay' = [relay EXCEPT ![ctl[t].r] = ToVfCpu(v, NoCpu)]
             /\ worker' = worker
    <3>1. At("port", "rf_flag", st, ToVfCpu(v, NoCpu)) /\ v.vf2vio_cpu # NoCpu
      BY ZenonT(30), <1>4, <1>8, <2>2 DEF RfRows
    <3>2. ToVfCpu(v, NoCpu) \in RelayStruct /\ Kept("rf_cpu", "rf_flag", v, ToVfCpu(v, NoCpu))
      BY Zenon, <1>8 DEF RemoveRows
    <3>3. v.vf2vio_cpu \in CpuOrNone
      BY Zenon, <1>1 DEF RelayStruct
    <3>4. "rf_cpu" \in CtlLabels \ {"idle"} /\ "rf_flag" \in LabelsOf(t) \ {"idle"}
      BY Zenon, <1>3 DEF CtlLabels, LabelsOf, RfLabels
    <3> QED BY ZenonT(30), <1>3, <2>2, <3>1, <3>2, <3>3, <3>4, CpuStepApart DEF v, st
  <2> QED BY ZenonT(30), <1>10, <2>1, <2>2 DEF detach_device_cpu, v
<1>11. CASE detach_device_port(t)
  <2>1. \/ Moves(t, "rf_detach", "rf_pool", Detached(v))
        \/ \E u \in DetachFailed(v) : Moves(t, "rf_detach", "idle", u)
        \/ Moves(t, "rf_pool", "idle", IF v.vio_state = "UNINIT" THEN PoolFreed(v, "NULL") ELSE v)
    BY Zenon, <1>11, CStepMoves DEF detach_device_port, v
  <2> QED BY ZenonT(30), <1>5, <1>6, <1>8, <2>1 DEF RfRows, RemoveRows
<1> QED BY Zenon, <1>9, <1>10, <1>11 DEF detach_device

\* The attachment of a VF.
LEMMA AddVfApart ==
  ASSUME ApartInv, NEW t \in Threads, add_vf_body(t)
  PROVE  Phases' /\ Passes'
<1> DEFINE v == Held(t)
           st == ctl[t].st
<1>1. v \in RelayStruct /\ TypeOK /\ st \in {"ADDED", "READY"}
  BY Zenon, HeldType DEF ApartInv, TypeOK, CtlStruct
<1>2. ctl[t].pc \in AfLabels
  BY ZenonT(30) DEF add_vf_body, add_vf_attach, configure_dev_start, configure_dev_publish,
     find_vf2virtio_cpu, FindCpu, CStep, CFlag, AfLabels
<1>3. t = "port"
  BY Zenon, <1>2 DEF ApartInv, Phases, LabelsOf, AfLabels, RvLabels, AvLabels, MigLabels, MgLabels, Threads
<1>4. At("port", ctl[t].pc, st, v)
  BY ZenonT(30), <1>2, <1>3, PhaseHere DEF ApartInv, AfLabels
<1>5. ASSUME NEW pc \in AfLabels, NEW l \in AfLabels \cup {"idle"}, NEW u, Mild(v, u),
             Moves(t, pc, l, u),
             At("port", pc, st, v) => IF l = "idle" THEN Rest(u) ELSE At("port", l, st, u)
      PROVE  Phases' /\ Passes'
  <2>1. pc \in CtlLabels \ (RvLabels \cup RfLabels \cup {"idle"})
    BY ZenonT(30) DEF AfLabels, CtlLabels, RvLabels, RfLabels
  <2>2. l \in LabelsOf(t) \ (RvLabels \cup RfLabels)
    BY Zenon, <1>3 DEF AfLabels, LabelsOf, RvLabels, RfLabels
  <2> QED BY Zenon, <1>3, <1>5, <2>1, <2>2, AddStep DEF Mild
<1>6. AfLabels = {"af_attach", "af_start", "af_cpu", "af_cpu_pick", "af_state", "af_flag"}
  BY Zenon DEF AfLabels
<1> HIDE DEF v, st
<1>7. AfRows(st, v) /\ MildRows(v)
  BY Zenon, <1>1, AfTable, MildUpdates
<1>8. CASE add_vf_attach(t)
  <2>1. CASE Moves(t, "af_attach", "af_start", Attached(v))
    BY ZenonT(30), <1>5, <1>6, <1>7, <2>1 DEF AfRows, MildRows
  <2>2. ASSUME NEW x \in {v} \cup DetachFailed([v EXCEPT !.vf_dev = "stopped"]), NEW u \in {x, PoolThere(x)},
               Moves(t, "af_attach", "idle", u)
        PROVE  Phases' /\ Passes'
    <3>1. At("port", "af_attach", st, v) => Rest(u)
      BY ZenonT(30), <1>7 DEF AfRows
    <3>2. [v EXCEPT !.vf_dev = "stopped"] \in RelayStruct /\ SameVm([v EXCEPT !.vf_dev = "stopped"], v)
      BY Zenon, <1>1 DEF RelayStruct, SameVm
    <3>3. x \in RelayStruct /\ SameVm(x, v)
      BY ZenonT(30), <1>1, <3>2, DetachChange DEF SameVm
    <3>4. Mild(x, u)
      BY ZenonT(30), <3>3, MildUpdates DEF MildRows
    <3>5. Mild(v, u)
      BY Zenon, <3>3, <3>4 DEF Mild, SameVm
    <3> QED BY Zenon, <1>5, <1>6, <2>2, <3>1, <3>5
  <2>3. \/ Moves(t, "af_attach", "af_start", Attached(v))
        \/ \E x \in {v} \cup DetachFailed([v EXCEPT !.vf_dev = "stopped"]) :
             \E u \in {x, PoolThere(x)} : Moves(t, "af_attach", "idle", u)
    BY ZenonT(30), <1>8, CStepMoves DEF add_vf_attach, v
  <2> QED BY ZenonT(30), <2>1, <2>2, <2>3
<1>9. CASE configure_dev_start(t)
  <2> DEFINE ready == IF v.vio_state = "READY" THEN "READY" ELSE "ADDED"
             dev == IF v.vio_state = "READY" THEN "started" ELSE v.vf_dev
             u == [v EXCEPT !.lm_pending = FALSE, !.vf_dev = dev]
  <2>1. ASSUME "start" \in Faults, NEW x \in {Detached(v)} \cup DetachFailed(v),
               Moves(t, "af_start", "idle", x)
        PROVE  Phases' /\ Passes'
    <3>1. At("port", "af_start", st, v) => Rest(x)
      BY Zenon, <1>7, <2>1 DEF AfRows
    <3>2. x \in RelayStruct /\ SameVm(x, v)
      <4>1. CASE x \in DetachFailed(v)
        BY Zenon, <1>1, <4>1, DetachChange
      <4>2. CASE x = Detached(v)
        BY ZenonT(30), <1>1, <4>2 DEF Detached, RelayStruct, SameVm
      <4> QED BY ZenonT(30), <2>1, <4>1, <4>2
    <3> QED BY ZenonT(30), <1>5, <1>6, <2>1, <3>1, <3>2 DEF Mild, SameVm
  <2>2. CASE /\ ctl[t].pc = "af_start"
             /\ ctl' = [ctl EXCEPT ![t] = [ctl[t] EXCEPT !.pc = "af_cpu", !.st = ready]]
             /\ relay' = [relay EXCEPT ![ctl[t].r] = u]
             /\ worker' = worker
    <3>1. PICK w : w = [ctl[t] EXCEPT !.pc = "af_cpu", !.st = ready]
      BY Zenon
    <3>2. w \in CtlStruct /\ w.r = ctl[t].r /\ w.pc = "af_cpu" /\ w.st = ready
      <4>1. ctl[t] \in CtlStruct /\ "af_cpu" \in CtlLabels /\ ready \in {"ADDED", "READY"}
        BY Zenon, <1>1 DEF TypeOK, CtlLabels
      <4> HIDE DEF ready
      <4> QED BY ZenonT(30), <3>1, <4>1 DEF CtlStruct
    <3>3. At("port", "af_cpu", ready, u)
      BY Zenon, <1>4, <1>7, <2>2 DEF AfRows
    <3>4. PhaseOf(t, w, u)
      BY Zenon, <1>3, <3>2, <3>3 DEF PhaseOf
    <3>5. Mild(v, u)
      BY ZenonT(30), <1>1 DEF Mild, RelayStruct
    <3>6. Kept("af_start", "af_cpu", v, u)
      BY ZenonT(30), <3>5, KeptAdd DEF Mild, RvLabels, RfLabels
    <3>7. "af_start" \in CtlLabels \ {"idle"} /\ "af_cpu" \in LabelsOf(t) \ {"idle"}
      BY Zenon, <1>3 DEF CtlLabels, LabelsOf, AfLabels
    <3>8. u \in RelayStruct
      BY Zenon, <3>5 DEF Mild
    <3> HIDE DEF u, ready
    <3> QED BY ZenonT(30), <2>2, <3>1, <3>2, <3>4, <3>6, <3>7, <3>8, StepApart DEF v
  <2>3. \/ /\ "start" \in Faults
           /\ \E x \in {Detached(v)} \cup DetachFailed(v) : Moves(t, "af_start", "idle", x)
        \/ /\ ctl[t].pc = "af_start"
           /\ ctl' = [ctl EXCEPT ![t] = [ctl[t] EXCEPT !.pc = "af_cpu", !.st = ready]]
           /\ relay' = [relay EXCEPT ![ctl[t].r] = u]
           /\ worker' = worker
    BY Zenon, <1>9, CStepMoves DEF configure_dev_start, v
  <2> QED BY Zenon, <2>1, <2>2, <2>3
<1>10. CASE configure_dev_publish(t)
  <2>1. \/ Moves(t, "af_state", "af_flag", [v EXCEPT !.dpdk_state = st])
        \/ Moves(t, "af_flag", "idle", v)
    BY ZenonT(30), <1>1, <1>10, CStepMoves, CFlagMoves DEF configure_dev_publish, v, st
  <2> QED BY Zenon, <1>1, <1>5, <1>6, <1>7, <2>1 DEF AfRows, MildRows
<1>11. CASE find_vf2virtio_cpu(t, "af_cpu", "af_cpu_pick", "af_state")
  <2>1. \/ Moves(t, "af_cpu", "af_cpu_pick", ToVfCpu(v, NoCpu))
        \/ \E c \in Cpus : \/ Moves(t, "af_cpu", "af_state", ToVfCpu(v, c))
                         \/ Moves(t, "af_cpu_pick", "af_state", ToVfCpu(v, c))
    BY ZenonT(30), <1>1, <1>11, FindVfMoves DEF v
  <2> QED BY Zenon, <1>5, <1>6, <1>7, <2>1 DEF AfRows, MildRows, CpuOrNone
<1> QED BY ZenonT(30), <1>8, <1>9, <1>10, <1>11 DEF add_vf_body

\* The moves between CPUs.
LEMMA MigrateApart ==
  ASSUME ApartInv, NEW t \in Threads, migrate_vio(t) \/ migrate_dpdk(t)
  PROVE  Phases' /\ Passes'
<1> DEFINE v == Held(t)
           st == ctl[t].st
<1>1. v \in RelayStruct /\ TypeOK
  BY Zenon, HeldType DEF ApartInv
<1>2. ctl[t].pc \in MgLabels
  BY ZenonT(30) DEF migrate_vio, migrate_dpdk, MoveCpu, CStep, CFlag, MgLabels
<1>3. t = "sched"
  BY ZenonT(30), <1>2 DEF ApartInv, Phases, LabelsOf, AfLabels, RvLabels, RfLabels, AvLabels, MigLabels, MgLabels, Threads
<1>4. At("sched", ctl[t].pc, st, v)
  BY Zenon, <1>2, <1>3, PhaseHere DEF ApartInv, MgLabels
<1>5. ASSUME NEW pc \in MgLabels, NEW l \in MgLabels \cup {"idle"}, Moves(t, pc, l, v),
             At("sched", pc, st, v) => IF l = "idle" THEN Rest(v) ELSE At("sched", l, st, v)
      PROVE  Phases' /\ Passes'
  <2>1. pc \in CtlLabels \ (RvLabels \cup RfLabels \cup {"idle"})
    BY ZenonT(30) DEF MgLabels, CtlLabels, RvLabels, RfLabels
  <2>2. l \in LabelsOf(t) \ (RvLabels \cup RfLabels)
    BY Zenon, <1>3 DEF MgLabels, LabelsOf, RvLabels, RfLabels
  <2> QED BY ZenonT(30), <1>1, <1>3, <1>5, <2>1, <2>2, AddStep
<1>6. MgLabels = {"mg_vio", "mg_vio_flag", "mg_dpdk_test", "mg_dpdk", "mg_dpdk_flag"}
  BY Zenon DEF MgLabels
<1> HIDE DEF v, st
<1>7. MgRows(st, v) /\ MildRows(v)
  BY Zenon, <1>1, MgTable, MildUpdates
<1>8. ASSUME NEW c \in Cpus, NEW pc \in {"mg_vio", "mg_dpdk"}, NEW l \in {"mg_vio_flag", "mg_dpdk_flag"},
             NEW u, Mild(v, u), At("sched", pc, st, v) => At("sched", l, st, u), ctl[t].pc = pc,
             relay' = [relay EXCEPT ![ctl[t].r] = u], worker' = worker,
             ctl' = [ctl EXCEPT ![t] = [ctl[t] EXCEPT !.pc = l, !.cpu = c]]
      PROVE  Phases' /\ Passes'
  <2>1. pc \in CtlLabels \ {"idle"} /\ l \in LabelsOf(t) \ {"idle"} /\ l \notin {"rv_flag", "rf_flag"}
    BY ZenonT(30), <1>3 DEF CtlLabels, LabelsOf, MgLabels
  <2>2. Kept(pc, l, v, u)
    BY Zenon, <1>8, KeptAdd DEF Mild, RvLabels, RfLabels
  <2>3. c \in CpuOrNone /\ u \in RelayStruct
    BY Zenon, <1>8 DEF CpuOrNone, Mild
  <2> QED BY ZenonT(30), <1>3, <1>4, <1>8, <2>1, <2>2, <2>3, CpuStepApart DEF v, st
<1>9. CASE migrate_vio(t)
  <2>1. ASSUME NEW c \in Cpus, ctl[t].pc = "mg_vio",
               relay' = [relay EXCEPT ![ctl[t].r] = ToVioCpu(v, c)], worker' = worker,
               ctl' = [ctl EXCEPT ![t] = [ctl[t] EXCEPT !.pc = "mg_vio_flag", !.cpu = c]]
        PROVE  Phases' /\ Passes'
    BY ZenonT(30), <1>7, <1>8, <2>1 DEF MgRows, MildRows, CpuOrNone
  <2>2. \/ Moves(t, "mg_vio", "mg_dpdk_test", v)
        \/ Moves(t, "mg_vio_flag", "mg_dpdk_test", v)
        \/ \E c \in Cpus :
             /\ ctl[t].pc = "mg_vio" /\ relay' = [relay EXCEPT ![ctl[t].r] = ToVioCpu(v, c)]
             /\ ctl' = [ctl EXCEPT ![t] = [ctl[t] EXCEPT !.pc = "mg_vio_flag", !.cpu = c]]
             /\ worker' = worker
    BY ZenonT(30), <1>1, <1>9, CStepMoves, CFlagMoves DEF migrate_vio, MoveCpu, v
  <2> QED BY ZenonT(30), <1>5, <1>6, <1>7, <2>1, <2>2 DEF MgRows
<1>10. CASE migrate_dpdk(t)
  <2>1. ASSUME NEW c \in Cpus, ctl[t].pc = "mg_dpdk",
               relay' = [relay EXCEPT ![ctl[t].r] = ToVfCpu(v, c)], worker' = worker,
               ctl' = [ctl EXCEPT ![t] = [ctl[t] EXCEPT !.pc = "mg_dpdk_flag", !.cpu = c]]
        PROVE  Phases' /\ Passes'
    BY ZenonT(30), <1>7, <1>8, <2>1 DEF MgRows, MildRows, CpuOrNone
  <2>2. \/ Moves(t, "mg_dpdk_test", IF v.dpdk_state \in {"ADDED", "READY"} THEN "mg_dpdk" ELSE "idle", v)
        \/ Moves(t, "mg_dpdk", "idle", v)
        \/ Moves(t, "mg_dpdk_flag", "idle", v)
        \/ \E c \in Cpus :
             /\ ctl[t].pc = "mg_dpdk" /\ relay' = [relay EXCEPT ![ctl[t].r] = ToVfCpu(v, c)]
             /\ ctl' = [ctl EXCEPT ![t] = [ctl[t] EXCEPT !.pc = "mg_dpdk_flag", !.cpu = c]]
             /\ worker' = worker
    BY ZenonT(30), <1>1, <1>10, CStepMoves, CFlagMoves DEF migrate_dpdk, MoveCpu, v
  <2> QED BY ZenonT(30), <1>5, <1>6, <1>7, <2>1, <2>2 DEF MgRows
<1> QED BY Zenon, <1>9, <1>10

\* The operations begin.
LEMMA RequestApart ==
  ASSUME Apart, ApartInv, NEW r \in Relays, Request(r)
  PROVE  Phases' /\ Passes'
<1> DEFINE v == relay[r]
<1>1. v \in RelayStruct
  BY Zenon DEF ApartInv, TypeOK
<1>2. \A t \in Threads : \A op, l, u : Call(t, op, r, l, u) => Rest(v)
  <2> SUFFICES ASSUME NEW t \in Threads, NEW op, NEW l, NEW u, Call(t, op, r, l, u)
               PROVE  Rest(v)
    BY Zenon
  <2>1. AtRest(r)
    BY Zenon DEF Call, Quiet, AtRest
  <2> QED BY Zenon, <2>1 DEF ApartInv, Phases
<1>3. \A b \in BOOLEAN : [v EXCEPT !.vio_dev = b] \in RelayStruct /\ [v EXCEPT !.lm_pending = b] \in RelayStruct
  BY ZenonT(30), <1>1 DEF RelayStruct
<1> HIDE DEF v
<1>4. \A st : FirstRows(st, v)
  BY Zenon, <1>1, FirstTable
<1>5. /\ {"idle", "av_pool", "rv_mark"} \subseteq LabelsOf("vhost")
      /\ {"idle", "af_attach", "mig_alloc", "rv_mark", "rf_mark"} \subseteq LabelsOf("port")
      /\ {"mg_vio", "mg_dpdk_test"} \subseteq LabelsOf("sched")
  BY Zenon DEF LabelsOf, AvLabels, RvLabels, AfLabels, MigLabels, RfLabels, MgLabels
<1>6. ASSUME NEW t \in Threads, NEW op, NEW l \in LabelsOf(t), l \notin {"rv_flag", "rf_flag"},
             NEW u \in RelayStruct, Call(t, op, r, l, u),
             Rest(v) => IF l = "idle" THEN Rest(u) ELSE At(t, l, ctl[t].st, u)
      PROVE  Phases' /\ Passes'
  BY ZenonT(30), <1>2, <1>6, CallApart
<1>7. {"vhost", "port", "sched"} \subseteq Threads
  BY Zenon DEF Threads
<1>8. CASE add_virtio(r)
  <2>1. /\ ~v.vio_dev
        /\ \/ v.vio_state = "UNINIT" /\ Call("vhost", "add_virtio", r, "av_pool", [v EXCEPT !.vio_dev = TRUE])
           \/ Call("vhost", "add_virtio", r, "idle", v)
    BY Zenon, <1>8 DEF add_virtio, v
  <2> QED BY ZenonT(30), <1>1, <1>3, <1>4, <1>5, <1>6, <1>7, <2>1 DEF FirstRows
<1>9. ASSUME NEW t \in {"vhost", "port"}, remove_virtio(t, r)
      PROVE  Phases' /\ Passes'
  <2>1. PICK op : /\ v.vio_dev
                  /\ \/ v.vio_state = "READY" /\ Call(t, op, r, "rv_mark", v)
                     \/ v.vio_state # "READY" /\ Call(t, op, r, "idle", DeviceGone(v))
    BY Zenon, <1>9 DEF remove_virtio, v
  <2>2. v.vio_state = "READY"
    BY ZenonT(30), <1>2, <1>4, <1>7, <2>1 DEF FirstRows
  <2> QED BY ZenonT(30), <1>1, <1>4, <1>5, <1>6, <1>7, <2>1, <2>2 DEF FirstRows
<1>10. CASE features_changed_cb(r)
  <2>1. Call("vhost", "features_changed", r, "idle", [v EXCEPT !.lm_pending = TRUE])
    BY ZenonT(30), <1>10 DEF features_changed_cb, v
  <2> QED BY ZenonT(30), <1>3, <1>4, <1>5, <1>6, <1>7, <2>1 DEF FirstRows
<1>11. CASE add_vf2(r)
  <2>1. Call("port", "add_vf", r, IF v.dpdk_state = "UNINIT" THEN "af_attach" ELSE "idle", v)
    BY ZenonT(30), <1>11 DEF add_vf2, v
  <2> QED BY ZenonT(30), <1>1, <1>4, <1>5, <1>6, <1>7, <2>1 DEF FirstRows
<1>12. CASE bond_add(r)
  <2>1. Call("port", "bond_add", r, IF v.dpdk_state = "UNINIT" THEN "mig_alloc" ELSE "idle", v)
    BY ZenonT(30), <1>12 DEF bond_add, v
  <2> QED BY Zenon, <1>1, <1>4, <1>5, <1>6, <1>7, <2>1 DEF FirstRows
<1>13. CASE remove_vf2(r)
  <2>1. \/ Call("port", "remove_vf", r, "idle", v)
        \/ /\ v.dpdk_state \in {"READY", "ADDED"}
           /\ Call("port", "remove_vf", r, IF v.vf2vio_cpu = NoCpu THEN "rf_cpu" ELSE "rf_mark", v)
    BY ZenonT(30), <1>13 DEF remove_vf2, SaysRemoved, v
  <2>2. v.dpdk_state \in {"READY", "ADDED"} => v.vf2vio_cpu # NoCpu
    BY Zenon, <1>2, <1>4, <1>7, <2>1 DEF FirstRows
  <2> QED BY Zenon, <1>1, <1>4, <1>5, <1>6, <1>7, <2>1, <2>2 DEF FirstRows
<1>14. CASE migrate_relay_cpus(r)
  <2>1. Call("sched", "migrate", r, IF v.vio_state = "READY" THEN "mg_vio" ELSE "mg_dpdk_test", v)
    BY Zenon, <1>14 DEF migrate_relay_cpus, v
  <2> QED BY ZenonT(30), <1>1, <1>4, <1>5, <1>6, <1>7, <2>1 DEF FirstRows
<1> QED BY ZenonT(30), <1>8, <1>9, <1>10, <1>11, <1>12, <1>13, <1>14 DEF Request

-----------------------------------------------------------------------------
(* Steps of workers *)

\* The packets and the spinlocks are none of the phases' and the other
\* workers' business.
LEMMA LikeAll ==
  ASSUME NEW u, NEW v, Like(u, v)
  PROVE  /\ \A t, pc, st : At(t, pc, st, v) => At(t, pc, st, u)
         /\ Rest(v) => Rest(u)
         /\ \A at : Seen(at, v) => Seen(at, u)
         /\ \A c, at, pc : Meets(c, at, pc, v) => Meets(c, at, pc, u)
<1> USE DEF Like, SameVm, SameVf, SamePort
<1>1. ASSUME NEW t, NEW pc, NEW st, At(t, pc, st, v)
      PROVE  At(t, pc, st, u)
  <2>1. VmAt(t, pc, u)
    BY ZenonT(30), <1>1 DEF At, VmAt, VmUp, VmDown
  <2>2. VfAt(t, pc, st, u)
    <3>1. (VfUp(v) => VfUp(u)) /\ (VfDown(v) => VfDown(u)) /\ (ReadyForVm(v) => ReadyForVm(u))
      BY ZenonT(30) DEF VfUp, VfDown, ReadyForVm
    <3> QED BY ZenonT(30), <1>1, <3>1 DEF At, VfAt
  <2>3. PoolAt(pc, u)
    BY ZenonT(30), <1>1 DEF At, PoolAt
  <2>4. ASSUME PortsWork PROVE PortAt(t, pc, u)
    BY ZenonT(30), <1>1, <2>4 DEF At, PortAt, PortFits, PortReady
  <2> QED BY ZenonT(30), <2>1, <2>2, <2>3, <2>4 DEF At
<1>2. Rest(v) => Rest(u)
  BY ZenonT(30) DEF Rest, PortFits, PortReady, VmUp, VmDown, VfUp, VfDown, ReadyForVm
<1>3. \A at : Seen(at, v) => Seen(at, u)
  BY Zenon DEF Seen
<1>4. \A c, at, pc : Meets(c, at, pc, v) => Meets(c, at, pc, u)
  BY ZenonT(30) DEF Meets
<1> QED BY ZenonT(30), <1>1, <1>2, <1>3, <1>4

\* A step of worker c that leaves its relay as u.
LEMMA WorkerApart ==
  ASSUME ApartInv, NEW c \in Cpus, NEW at, NEW l \in WorkerLabels, NEW u \in RelayStruct,
         WStep(c, at, l, u), Rest(Mine(c)) => Rest(u), Seen(l, u),
         \A t \in Threads : ctl[t].pc # "idle" /\ ctl[t].r = worker[c].r =>
           /\ At(t, ctl[t].pc, ctl[t].st, Mine(c)) => At(t, ctl[t].pc, ctl[t].st, u)
           /\ Meets(c, l, ctl[t].pc, u),
         \A d \in Cpus \ {c} : worker[d].r = worker[c].r =>
           /\ Seen(worker[d].pc, u)
           /\ \A t \in Threads : ctl[t].pc # "idle" /\ ctl[t].r = worker[c].r =>
                Meets(d, worker[d].pc, ctl[t].pc, u)
  PROVE  Phases' /\ Passes'
<1> DEFINE q == worker[c].r
<1>1. /\ q \in Relays /\ \A x \in Relays \ {q} : relay'[x] = relay[x]
      /\ relay'[q] = u /\ Mine(c) = relay[q] /\ ctl' = ctl
      /\ \A d \in Cpus \ {c} : worker'[d] = worker[d]
      /\ worker'[c].pc = l /\ worker'[c].r = q
  BY Zenon DEF WStep, ApartInv, TypeOK, WorkerStruct, Mine
<1>2. \A t \in Threads : ctl[t].r \in Relays
  BY Zenon DEF ApartInv, TypeOK, CtlStruct
<1>3. \A d \in Cpus : worker[d].r \in Relays
  BY ZenonT(30) DEF ApartInv, TypeOK, WorkerStruct
<1>4. Phases'
  <2>1. \A t \in Threads : ctl[t].pc # "idle" => PhaseOf(t, ctl[t], relay'[ctl[t].r])
    <3> SUFFICES ASSUME NEW t \in Threads, ctl[t].pc # "idle"
                 PROVE  PhaseOf(t, ctl[t], relay'[ctl[t].r])
      BY Zenon
    <3>1. PhaseOf(t, ctl[t], relay[ctl[t].r])
      BY ZenonT(30) DEF ApartInv, Phases, Held
    <3>2. CASE ctl[t].r = q
      BY ZenonT(30), <1>1, <3>1, <3>2 DEF PhaseOf
    <3>3. CASE ctl[t].r # q
      BY ZenonT(30), <1>1, <1>2, <3>1, <3>3
    <3> QED BY ZenonT(30), <3>2, <3>3
  <2>2. \A r \in Relays : AtRest(r) => Rest(relay'[r])
    BY ZenonT(30), <1>1 DEF ApartInv, Phases
  <2> QED BY ZenonT(30), <1>1, <2>1, <2>2 DEF ApartInv, Phases, Held, AtRest
<1>5. Passes'
  <2> SUFFICES ASSUME NEW d \in Cpus
               PROVE  /\ Seen(worker'[d].pc, relay'[worker'[d].r])
                      /\ \A t \in Threads : ctl[t].pc # "idle" /\ ctl[t].r = worker'[d].r
                            => Meets(d, worker'[d].pc, ctl[t].pc, relay'[worker'[d].r])
    BY ZenonT(30), <1>1 DEF Passes, Mine
  <2>1. CASE d = c
    BY Zenon, <1>1, <2>1
  <2>2. CASE d # c /\ worker[d].r = q
    BY ZenonT(30), <1>1, <2>2
  <2>3. CASE d # c /\ worker[d].r # q
    <3>1. /\ Seen(worker[d].pc, relay[worker[d].r])
          /\ \A t \in Threads : ctl[t].pc # "idle" /\ ctl[t].r = worker[d].r
                => Meets(d, worker[d].pc, ctl[t].pc, relay[worker[d].r])
      BY ZenonT(30) DEF ApartInv, Passes, Mine
    <3> QED BY ZenonT(30), <1>1, <1>3, <2>3, <3>1
  <2> QED BY ZenonT(30), <2>1, <2>2, <2>3
<1> QED BY Zenon, <1>4, <1>5

\* A side that is being removed waits in its handshake.
LEMMA InHandshake ==
  ASSUME NEW t \in Threads, NEW pc \in LabelsOf(t) \ {"idle"}, NEW st, NEW v \in RelayStruct, At(t, pc, st, v)
  PROVE  /\ v.vio_state \in {"REMOVING1", "REMOVING2"} => pc = "rv_wait"
         /\ v.dpdk_state \in {"REMOVING1", "REMOVING2"} => pc = "rf_wait"
<1> USE DEF At, Connecting, Bonding, MigLabels, AvLabels, RvLabels, AfLabels, RfLabels, MgLabels, LabelsOf, Threads
<1>1. v.vio_state \in {"REMOVING1", "REMOVING2"} => pc = "rv_wait"
  BY ZenonT(30) DEF VmAt, VmUp, VmDown
<1>2. v.dpdk_state \in {"REMOVING1", "REMOVING2"} => pc = "rf_wait"
  BY Zenon DEF VfAt, VfUp, VfDown
<1> QED BY Zenon, <1>1, <1>2

\* What worker c and the thread that works on its relay know of each other.
LEMMA WorkerMeets ==
  ASSUME ApartInv, NEW c \in Cpus
  PROVE  /\ Mine(c) \in RelayStruct /\ Seen(worker[c].pc, Mine(c))
         /\ \A t \in Threads : ctl[t].pc # "idle" /\ ctl[t].r = worker[c].r =>
              /\ Meets(c, worker[c].pc, ctl[t].pc, Mine(c))
              /\ ctl[t].pc \in LabelsOf(t) /\ At(t, ctl[t].pc, ctl[t].st, Mine(c))
              /\ Mine(c).vio_state \in {"REMOVING1", "REMOVING2"} => ctl[t].pc = "rv_wait"
              /\ Mine(c).dpdk_state \in {"REMOVING1", "REMOVING2"} => ctl[t].pc = "rf_wait"
<1>1. Mine(c) \in RelayStruct
  BY Zenon, MineType DEF ApartInv
<1>2. /\ Seen(worker[c].pc, Mine(c))
      /\ \A t \in Threads : ctl[t].pc # "idle" /\ ctl[t].r = worker[c].r =>
              Meets(c, worker[c].pc, ctl[t].pc, Mine(c))
  BY ZenonT(30) DEF ApartInv, Passes
<1>3. ASSUME NEW t \in Threads, ctl[t].pc # "idle", ctl[t].r = worker[c].r
      PROVE  ctl[t].pc \in LabelsOf(t) /\ At(t, ctl[t].pc, ctl[t].st, Mine(c))
  BY Zenon, <1>3 DEF ApartInv, Phases, PhaseOf, Held, Mine
<1> QED BY ZenonT(30), <1>1, <1>2, <1>3, InHandshake

\* A worker that goes from label at to label l on relay v takes a direction in
\* hand only if it is its own, and a removal only if one is under way.
Enters(c, at, l, v) ==
  /\ l \in VmSection => at \in VmSection \/ v.vio2vf_cpu = c
  /\ l \in VfSection => at \in VfSection \/ v.vf2vio_cpu = c
  /\ l \in {"vio_alone", "drop_tx", "vio_uninit"} =>
       at \in {"vio_alone", "drop_tx", "vio_uninit"} \/ v.vio_state = "REMOVING2"
  /\ l \in {"vf_alone", "free_rx", "free_tx"} =>
       at \in {"vf_alone", "free_rx", "free_tx"} \/ v.dpdk_state = "REMOVING2"

\* A step that touches only packets and spinlocks.
LEMMA QuietStep ==
  ASSUME ApartInv, NEW c \in Cpus, NEW at, NEW l \in WorkerLabels, NEW u,
         WStep(c, at, l, u), u \in RelayStruct /\ Like(u, Mine(c)),
         Seen(at, Mine(c)) => Seen(l, Mine(c)), Enters(c, at, l, Mine(c))
  PROVE  Phases' /\ Passes'
<1> DEFINE v == Mine(c)
<1>1. worker[c].pc = at
  BY Zenon DEF WStep
<1>2. Seen(l, u)
  BY ZenonT(30), <1>1, WorkerMeets, LikeAll
<1>3. ASSUME NEW t \in Threads, ctl[t].pc # "idle", ctl[t].r = worker[c].r
      PROVE  Meets(c, l, ctl[t].pc, u)
  <2>1. Meets(c, at, ctl[t].pc, v)
    BY ZenonT(30), <1>1, <1>3, WorkerMeets
  <2>2. /\ v.vio_state \in {"REMOVING1", "REMOVING2"} => ctl[t].pc = "rv_wait"
        /\ v.dpdk_state \in {"REMOVING1", "REMOVING2"} => ctl[t].pc = "rf_wait"
    BY Zenon, <1>3, WorkerMeets
  <2>3. Meets(c, l, ctl[t].pc, v)
    BY ZenonT(30), <2>1, <2>2 DEF Meets, Enters, RvLabels, RfLabels
  <2> QED BY Zenon, <2>3, LikeAll
<1>4. ASSUME NEW d \in Cpus \ {c}, worker[d].r = worker[c].r
      PROVE  /\ Seen(worker[d].pc, u)
             /\ \A t \in Threads : ctl[t].pc # "idle" /\ ctl[t].r = worker[c].r =>
                  Meets(d, worker[d].pc, ctl[t].pc, u)
  <2>1. Mine(d) = v
    BY ZenonT(30), <1>4 DEF Mine
  <2> QED BY ZenonT(30), <1>4, <2>1, WorkerMeets, LikeAll
<1>5. /\ Rest(v) => Rest(u)
      /\ \A t \in Threads : At(t, ctl[t].pc, ctl[t].st, v) => At(t, ctl[t].pc, ctl[t].st, u)
  BY Zenon, LikeAll
<1> QED BY ZenonT(30), <1>2, <1>3, <1>4, <1>5, WorkerApart

\* The updates of packets and spinlocks.
LikeRows(v) ==
  LET L(u) == u \in RelayStruct /\ Like(u, v) IN
  /\ L(v)
  /\ \A b \in BOOLEAN : /\ L([v EXCEPT !.vio_sl = b]) /\ L([v EXCEPT !.dpdk_sl = b])
                       /\ L([v EXCEPT !.tx_pkts = b]) /\ L([v EXCEPT !.rx_pkts = b])
  /\ L([v EXCEPT !.rx_pkts = FALSE, !.dpdk_sl = FALSE])
  /\ L([v EXCEPT !.rx_pkts = FALSE, !.vio_sl = TRUE])
  /\ L([v EXCEPT !.tx_pkts = FALSE, !.vio_sl = FALSE])

\* Each of these updates leaves both sides and the port as they are.
LEMMA LikeUpdates ==
  ASSUME NEW v \in RelayStruct
  PROVE  LikeRows(v)
<1> USE DEF Like, SameVm, SameVf, SamePort, RelayStruct
<1> DEFINE L(u) == u \in RelayStruct /\ Like(u, v)
<1>1. L(v)
  BY ZenonT(30)
<1>2. \A b \in BOOLEAN : L([v EXCEPT !.vio_sl = b]) /\ L([v EXCEPT !.dpdk_sl = b])
  BY ZenonT(30)
<1>3. \A b \in BOOLEAN : L([v EXCEPT !.tx_pkts = b]) /\ L([v EXCEPT !.rx_pkts = b])
  OBVIOUS
<1>4. /\ L([v EXCEPT !.rx_pkts = FALSE, !.dpdk_sl = FALSE])
      /\ L([v EXCEPT !.rx_pkts = FALSE, !.vio_sl = TRUE])
      /\ L([v EXCEPT !.tx_pkts = FALSE, !.vio_sl = FALSE])
  BY ZenonT(30)
<1> HIDE DEF L, RelayStruct
<1> QED BY <1>1, <1>2, <1>3, <1>4 DEF LikeRows, L

\* The steps from the VM to the VF that touch only packets and spinlocks,
LEMMA QuietVm ==
  ASSUME ApartInv, NEW c \in Cpus,
         \/ worker_trylock_vio(c) \/ virtio_rx(c) \/ virtio_rx_dequeue(c) \/ dpdk_tx(c)
         \/ dpdk_tx_burst(c) \/ worker_remove_vf_lock(c) \/ worker_unlock_vio(c)
  PROVE  Phases' /\ Passes'
<1> DEFINE v == Mine(c)
           G(at, l) == l \in WorkerLabels /\ (Seen(at, v) => Seen(l, v)) /\ Enters(c, at, l, v)
<1>1. v \in RelayStruct
  BY ZenonT(30), WorkerMeets
<1>2. ASSUME NEW at, NEW l, NEW u, WStep(c, at, l, u), u \in RelayStruct /\ Like(u, v), G(at, l)
      PROVE  Phases' /\ Passes'
  BY Zenon, <1>2, QuietStep
<1> HIDE DEF v
<1>3. LikeRows(v)
  BY ZenonT(30), <1>1, LikeUpdates
<1>4. /\ G("lock_vio", "vf2vm") /\ G("lock_vio", "virtio_rx")
      /\ G("virtio_rx", "dpdk_tx") /\ G("virtio_rx", "vio_removing")
      /\ v.vio_state = "READY" => G("virtio_rx", "dequeue")
      /\ \A at \in {"dequeue", "dpdk_tx", "tx_burst"} : G(at, "vio_removing")
      /\ G("dequeue", "dpdk_tx") /\ G("dpdk_tx", "tx_burst")
      /\ v.dpdk_state = "REMOVING2" => G("vf_removing2", "free_rx")
      /\ G("vf_removing2", "unlock_vio") /\ G("unlock_vio", "vf2vm")
  BY ZenonT(30) DEF Seen, Enters, VmSection, VfSection, WorkerLabels
<1> HIDE DEF G
<1>5. CASE worker_trylock_vio(c)
  BY ZenonT(30), <1>2, <1>3, <1>4, <1>5 DEF worker_trylock_vio, v, LikeRows
<1>6. CASE virtio_rx(c)
  BY <1>2, <1>3, <1>4, <1>6 DEF virtio_rx, v, LikeRows
<1>7. CASE virtio_rx_dequeue(c)
  BY ZenonT(30), <1>2, <1>3, <1>4, <1>7 DEF virtio_rx_dequeue, v, LikeRows
<1>8. CASE dpdk_tx(c)
  BY ZenonT(30), <1>2, <1>3, <1>4, <1>8 DEF dpdk_tx, v, LikeRows
<1>9. CASE dpdk_tx_burst(c)
  BY ZenonT(30), <1>2, <1>3, <1>4, <1>9 DEF dpdk_tx_burst, v, LikeRows
<1>10. CASE worker_remove_vf_lock(c)
  BY ZenonT(30), <1>2, <1>3, <1>4, <1>10 DEF worker_remove_vf_lock, v, LikeRows
<1>11. CASE worker_unlock_vio(c)
  BY ZenonT(30), <1>2, <1>3, <1>4, <1>11 DEF worker_unlock_vio, v, LikeRows
<1> QED BY Zenon, <1>5, <1>6, <1>7, <1>8, <1>9, <1>10, <1>11

\* and those from the VF to the VM.
LEMMA QuietVf ==
  ASSUME ApartInv, NEW c \in Cpus,
         \/ worker_func_vf2vm(c) \/ worker_trylock_dpdk(c) \/ dpdk_rx(c) \/ dpdk_rx_burst(c)
         \/ virtio_tx(c) \/ virtio_tx_enqueue(c) \/ worker_remove_virtio_lock(c)
         \/ worker_unlock_dpdk(c)
  PROVE  Phases' /\ Passes'
<1> DEFINE v == Mine(c)
           G(at, l) == l \in WorkerLabels /\ (Seen(at, v) => Seen(l, v)) /\ Enters(c, at, l, v)
<1>1. v \in RelayStruct
  BY Zenon, WorkerMeets
<1>2. ASSUME NEW at, NEW l, NEW u, WStep(c, at, l, u), u \in RelayStruct /\ Like(u, v), G(at, l)
      PROVE  Phases' /\ Passes'
  BY ZenonT(30), <1>2, QuietStep
<1> HIDE DEF v
<1>3. LikeRows(v)
  BY Zenon, <1>1, LikeUpdates
<1>4. /\ v.vf2vio_cpu = c => G("vf2vm", "lock_dpdk")
      /\ \A at \in {"vf2vm", "lock_dpdk", "unlock_dpdk"} : G(at, "next")
      /\ G("lock_dpdk", "dpdk_rx") /\ G("dpdk_rx", "virtio_tx") /\ G("dpdk_rx", "rx_burst")
      /\ G("dpdk_rx", "avail")
      /\ G("avail", "rx_burst") /\ G("rx_burst", "virtio_tx")
      /\ v.vio_state = "READY" => G("virtio_tx", "enqueue")
      /\ \A at \in {"dpdk_rx", "rx_burst", "virtio_tx", "enqueue"} : G(at, "vio_removing2")
      /\ v.vio_state = "REMOVING2" => G("vio_removing2", "drop_tx")
      /\ G("vio_removing2", "vf_removing")
  BY ZenonT(30) DEF Seen, Enters, VmSection, VfSection, WorkerLabels
<1> HIDE DEF G
<1>5. CASE worker_func_vf2vm(c)
  BY ZenonT(30), <1>2, <1>3, <1>4, <1>5 DEF worker_func_vf2vm, v, LikeRows
<1>6. CASE worker_trylock_dpdk(c)
  BY ZenonT(30), <1>2, <1>3, <1>4, <1>6 DEF worker_trylock_dpdk, v, LikeRows
<1>7. CASE dpdk_rx(c)
  BY ZenonT(30), <1>2, <1>3, <1>4, <1>7 DEF dpdk_rx, v, LikeRows
<1>8. CASE dpdk_rx_burst(c)
  BY ZenonT(30), <1>2, <1>3, <1>4, <1>8 DEF dpdk_rx_burst, v, LikeRows
<1>9. CASE virtio_tx(c)
  BY ZenonT(30), <1>2, <1>3, <1>4, <1>9 DEF virtio_tx, v, LikeRows
<1>10. CASE virtio_tx_enqueue(c)
  BY ZenonT(30), <1>2, <1>3, <1>4, <1>10 DEF virtio_tx_enqueue, v, LikeRows
<1>11. CASE worker_remove_virtio_lock(c)
  BY <1>2, <1>3, <1>4, <1>11 DEF worker_remove_virtio_lock, v, LikeRows
<1>12. CASE worker_unlock_dpdk(c)
  BY ZenonT(30), <1>2, <1>3, <1>4, <1>12 DEF worker_unlock_dpdk, v, LikeRows
<1> QED BY SMTT(30), <1>5, <1>6, <1>7, <1>8, <1>9, <1>10, <1>11, <1>12

\* The handshakes move on while the control thread waits.
LEMMA WaitTable ==
  ASSUME NEW v \in RelayStruct, NEW t, NEW st, NEW s \in {"REMOVING2", "UNINIT"}
  PROVE  /\ At(t, "rv_wait", st, v) => At(t, "rv_wait", st, [v EXCEPT !.vio_state = s])
         /\ At(t, "rf_wait", st, v) => At(t, "rf_wait", st, [v EXCEPT !.dpdk_state = s])
<1> USE DEF At, VmAt, VfAt, PoolAt, PortAt, PortFits, PortReady, Connecting, Bonding, MigLabels,
            AvLabels, RvLabels, AfLabels, RfLabels, MgLabels,
            VmUp, VmDown, VfUp, VfDown, ReadyForVm, RelayStruct
<1>1. At(t, "rv_wait", st, v) => At(t, "rv_wait", st, [v EXCEPT !.vio_state = s])
  BY ZenonT(30)
<1>2. At(t, "rf_wait", st, v) => At(t, "rf_wait", st, [v EXCEPT !.dpdk_state = s])
  BY ZenonT(30)
<1> QED BY SMTT(30), <1>1, <1>2

\* The relay of a worker that is being removed is in the hands of a thread.
LEMMA SomebodyWaits ==
  ASSUME ApartInv, NEW c \in Cpus,
         \/ Mine(c).vio_state \in {"REMOVING1", "REMOVING2"}
         \/ Mine(c).dpdk_state \in {"REMOVING1", "REMOVING2"}
  PROVE  ~Rest(Mine(c)) /\ \E t \in Threads : ctl[t].pc # "idle" /\ ctl[t].r = worker[c].r
<1>1. ~Rest(Mine(c))
  BY Zenon DEF Rest, VmUp, VmDown, VfUp, VfDown
<1>2. worker[c].r \in Relays
  BY ZenonT(30) DEF ApartInv, TypeOK, WorkerStruct
<1> QED BY Zenon, <1>1, <1>2 DEF ApartInv, Phases, AtRest, Mine

\* A worker takes the removal of a VM one state on.  No other worker has a
\* packet of the VM in hand: the one that dequeues makes the first step itself,
\* and the one that enqueues makes the second, unless there is none.
LEMMA VmRemovalStep ==
  ASSUME ApartInv, NEW c \in Cpus, NEW at, NEW l \in WorkerLabels, NEW s,
         WStep(c, at, l, [Mine(c) EXCEPT !.vio_state = s]),
         \/ s = "REMOVING2" /\ Mine(c).vio_state = "REMOVING1" /\ at = "vio_removing" /\ l = "vio_alone"
         \/ /\ s = "UNINIT" /\ Mine(c).vio_state = "REMOVING2"
            /\ \/ at = "vio_uninit" /\ l = "vf_removing"
               \/ at = "vio_alone" /\ l = "vf_removing2" /\ Mine(c).vf2vio_cpu = NoCpu
  PROVE  Phases' /\ Passes'
<1> DEFINE v == Mine(c)
<1>1. v \in RelayStruct /\ worker[c].pc = at
  BY ZenonT(30), WorkerMeets DEF WStep
<1>2. PICK u : u = [v EXCEPT !.vio_state = s]
  BY Zenon
<1>3. /\ u \in RelayStruct /\ u.vio_state = s /\ u.dpdk_state = v.dpdk_state
      /\ u.vio2vf_cpu = v.vio2vf_cpu /\ u.vf2vio_cpu = v.vf2vio_cpu
  BY ZenonT(30), <1>1, <1>2 DEF RelayStruct
<1> HIDE DEF v
<1>4. ASSUME NEW t \in Threads, ctl[t].pc # "idle", ctl[t].r = worker[c].r
      PROVE  /\ ctl[t].pc = "rv_wait" /\ Meets(c, at, "rv_wait", v)
             /\ At(t, "rv_wait", ctl[t].st, u)
  <2>1. ctl[t].pc = "rv_wait" /\ Meets(c, at, "rv_wait", v) /\ At(t, "rv_wait", ctl[t].st, v)
    BY ZenonT(30), <1>1, <1>4, WorkerMeets DEF v
  <2> QED BY ZenonT(30), <1>1, <1>2, <2>1, WaitTable
<1>5. PICK t0 \in Threads : ctl[t0].pc # "idle" /\ ctl[t0].r = worker[c].r
  BY Zenon, SomebodyWaits
<1>6. Seen(l, u)
  BY ZenonT(30), <1>3 DEF Seen
<1>7. Meets(c, at, "rv_wait", v) => Meets(c, l, "rv_wait", u)
  BY Zenon, <1>3 DEF Meets, VmSection, VfSection, RvLabels
<1>8. ASSUME NEW d \in Cpus \ {c}, worker[d].r = worker[c].r
      PROVE  Seen(worker[d].pc, u) /\ Meets(d, worker[d].pc, "rv_wait", u)
  <2>1. Mine(d) = v
    BY Zenon, <1>8 DEF Mine, v
  <2>2. Seen(worker[d].pc, v) /\ Meets(d, worker[d].pc, "rv_wait", v)
    BY ZenonT(30), <1>4, <1>5, <1>8, <2>1, WorkerMeets
  <2>3. Meets(c, at, "rv_wait", v)
    BY Zenon, <1>4, <1>5
  <2>4. d # NoCpu /\ d # c
    BY ZenonT(30), CpuAssumption
  <2>5. Seen(worker[d].pc, u)
    BY ZenonT(30), <1>3, <2>2, <2>3, <2>4 DEF Seen, Meets, VmSection, VfSection, v
  <2>6. Meets(d, worker[d].pc, "rv_wait", u)
    BY ZenonT(30), <1>3, <2>2 DEF Meets
  <2> QED BY ZenonT(30), <2>5, <2>6
<1>9. ~Rest(Mine(c))
  BY Zenon, SomebodyWaits
<1>10. WStep(c, at, l, u)
  BY ZenonT(30), <1>2 DEF v
<1> QED BY ZenonT(30), <1>3, <1>4, <1>6, <1>7, <1>8, <1>9, <1>10, WorkerApart

\* The same for a VF.
LEMMA VfRemovalStep ==
  ASSUME ApartInv, NEW c \in Cpus, NEW at, NEW l \in WorkerLabels, NEW s, NEW u \in RelayStruct,
         WStep(c, at, l, u), Like(u, [Mine(c) EXCEPT !.dpdk_state = s]),
         \/ s = "REMOVING2" /\ Mine(c).dpdk_state = "REMOVING1" /\ at = "vf_removing" /\ l = "vf_alone"
         \/ /\ s = "UNINIT" /\ Mine(c).dpdk_state = "REMOVING2"
            /\ \/ at = "free_tx" /\ l = "unlock_vio"
               \/ at = "vf_alone" /\ l = "unlock_dpdk"
  PROVE  Phases' /\ Passes'
<1> DEFINE v == Mine(c)
<1>1. v \in RelayStruct /\ worker[c].pc = at
  BY Zenon, WorkerMeets DEF WStep
<1>2. PICK x : x = [v EXCEPT !.dpdk_state = s]
  BY Zenon
<1>3. /\ x.vio_state = v.vio_state /\ x.dpdk_state = s
      /\ x.vio2vf_cpu = v.vio2vf_cpu /\ x.vf2vio_cpu = v.vf2vio_cpu
  BY ZenonT(30), <1>1, <1>2 DEF RelayStruct
<1> HIDE DEF v
<1>4. /\ u.vio_state = v.vio_state /\ u.dpdk_state = s
      /\ u.vio2vf_cpu = v.vio2vf_cpu /\ u.vf2vio_cpu = v.vf2vio_cpu
  BY Zenon, <1>2, <1>3 DEF Like, SameVm, SameVf, v
<1>5. ASSUME NEW t \in Threads, ctl[t].pc # "idle", ctl[t].r = worker[c].r
      PROVE  /\ ctl[t].pc = "rf_wait" /\ Meets(c, at, "rf_wait", v)
             /\ At(t, "rf_wait", ctl[t].st, u)
  <2>1. ctl[t].pc = "rf_wait" /\ Meets(c, at, "rf_wait", v) /\ At(t, "rf_wait", ctl[t].st, v)
    BY ZenonT(30), <1>1, <1>5, WorkerMeets DEF v
  <2>2. At(t, "rf_wait", ctl[t].st, x)
    BY ZenonT(30), <1>1, <1>2, <2>1, WaitTable
  <2> QED BY ZenonT(30), <1>2, <2>1, <2>2, LikeAll DEF v
<1>6. Seen(l, u)
  BY Zenon, <1>4 DEF Seen
<1>7. Meets(c, at, "rf_wait", v) => Meets(c, l, "rf_wait", u)
  BY ZenonT(30), <1>4 DEF Meets, VmSection, VfSection, RfLabels
<1>8. ASSUME NEW d \in Cpus \ {c}, worker[d].r = worker[c].r
      PROVE  /\ Seen(worker[d].pc, u)
             /\ Meets(d, worker[d].pc, "rf_wait", v) => Meets(d, worker[d].pc, "rf_wait", u)
  <2>1. Mine(d) = v
    BY ZenonT(30), <1>8 DEF Mine, v
  <2>2. Seen(worker[d].pc, v)
    BY Zenon, <1>8, <2>1, WorkerMeets
  <2> QED BY Zenon, <1>4, <2>2 DEF Seen, Meets
<1>9. ~Rest(Mine(c))
  BY ZenonT(30), SomebodyWaits
<1>10. ASSUME NEW d \in Cpus \ {c}, worker[d].r = worker[c].r, NEW t \in Threads,
              ctl[t].pc # "idle", ctl[t].r = worker[c].r
       PROVE  Meets(d, worker[d].pc, ctl[t].pc, v)
  <2>1. Mine(d) = v
    BY ZenonT(30), <1>10 DEF Mine, v
  <2> QED BY ZenonT(30), <1>10, <2>1, WorkerMeets
<1> QED BY SMTT(30), <1>5, <1>6, <1>7, <1>8, <1>9, <1>10, WorkerApart

\* The steps of the removals.
LEMMA RemovalPass ==
  ASSUME ApartInv, NEW c \in Cpus,
         \/ vm2vf_signal(c) \/ vm2vf_alone(c) \/ worker_remove_vf_free(c)
         \/ worker_remove_virtio_free(c) \/ vf2vm_signal(c) \/ vf2vm_alone(c)
  PROVE  Phases' /\ Passes'
<1> DEFINE v == Mine(c)
           G(at, l) == l \in WorkerLabels /\ (Seen(at, v) => Seen(l, v)) /\ Enters(c, at, l, v)
<1>1. v \in RelayStruct /\ Seen(worker[c].pc, v)
  BY ZenonT(30), WorkerMeets
<1>2. ASSUME NEW at, NEW l, NEW u, WStep(c, at, l, u), u \in RelayStruct /\ Like(u, v), G(at, l)
      PROVE  Phases' /\ Passes'
  BY Zenon, <1>2, QuietStep
<1> HIDE DEF v
<1>3. LikeRows(v)
  BY ZenonT(30), <1>1, LikeUpdates
<1>4. /\ G("vio_removing", "vf_removing2") /\ G("vio_alone", "vf_removing2")
      /\ G("free_rx", "free_tx") /\ G("free_tx", "unlock_vio")
      /\ G("drop_tx", "vio_uninit") /\ G("vio_uninit", "vf_removing")
      /\ G("vf_removing", "unlock_dpdk") /\ G("vf_alone", "unlock_dpdk")
  BY ZenonT(30) DEF Seen, Enters, VmSection, VfSection, WorkerLabels
<1>5. {"vio_alone", "vf_removing2", "unlock_vio", "vf_removing", "vf_alone", "unlock_dpdk"} \subseteq WorkerLabels
  BY Zenon DEF WorkerLabels
<1>6. /\ worker[c].pc \in {"vio_alone", "vio_uninit"} => v.vio_state \in {"REMOVING2", "UNINIT"}
      /\ worker[c].pc \in {"vf_alone", "free_tx"} => v.dpdk_state \in {"REMOVING2", "UNINIT"}
  BY ZenonT(30), <1>1 DEF Seen
<1>7. \A s \in {"REMOVING2", "UNINIT"} :
        /\ [v EXCEPT !.vio_state = s] \in RelayStruct /\ [v EXCEPT !.dpdk_state = s] \in RelayStruct
        /\ v.vio_state = s => Like([v EXCEPT !.vio_state = s], v)
        /\ v.dpdk_state = s => Like([v EXCEPT !.dpdk_state = s], v)
  BY ZenonT(30), <1>1 DEF Like, SameVm, SameVf, SamePort, RelayStruct
<1> HIDE DEF G
<1>8. CASE vm2vf_signal(c)
  <2>1. \/ v.vio_state = "REMOVING1" /\ WStep(c, "vio_removing", "vio_alone", [v EXCEPT !.vio_state = "REMOVING2"])
        \/ WStep(c, "vio_removing", "vf_removing2", v)
    BY ZenonT(30), <1>8 DEF vm2vf_signal, v
  <2>2. CASE WStep(c, "vio_removing", "vf_removing2", v)
    BY ZenonT(30), <1>2, <1>3, <1>4, <2>2 DEF LikeRows
  <2> QED BY ZenonT(30), <1>5, <2>1, <2>2, VmRemovalStep DEF v
<1>9. CASE vm2vf_alone(c)
  <2>1. \/ v.vf2vio_cpu = NoCpu /\ WStep(c, "vio_alone", "vf_removing2", [v EXCEPT !.vio_state = "UNINIT"])
        \/ WStep(c, "vio_alone", "vf_removing2", [v EXCEPT !.vio_state = v.vio_state])
    BY Zenon, <1>9 DEF vm2vf_alone, v
  <2>2. CASE WStep(c, "vio_alone", "vf_removing2", [v EXCEPT !.vio_state = v.vio_state])
    <3>1. [v EXCEPT !.vio_state = v.vio_state] = v
      BY Zenon, <1>1 DEF RelayStruct
    <3> QED BY <1>2, <1>3, <1>4, <2>2, <3>1 DEF LikeRows
  <2>3. CASE /\ v.vio_state = "UNINIT"
             /\ WStep(c, "vio_alone", "vf_removing2", [v EXCEPT !.vio_state = "UNINIT"])
    BY Zenon, <1>2, <1>4, <1>7, <2>3
  <2>4. CASE /\ v.vio_state = "REMOVING2" /\ v.vf2vio_cpu = NoCpu
             /\ WStep(c, "vio_alone", "vf_removing2", [v EXCEPT !.vio_state = "UNINIT"])
    BY ZenonT(30), <1>5, <2>4, VmRemovalStep DEF v
  <2>5. worker[c].pc = "vio_alone"
    BY Zenon, <2>1 DEF WStep
  <2> QED BY ZenonT(30), <1>6, <2>1, <2>2, <2>3, <2>4, <2>5
<1>10. CASE worker_remove_vf_free(c)
  <2>1. CASE WStep(c, "free_rx", "free_tx", [v EXCEPT !.rx_pkts = FALSE, !.dpdk_sl = FALSE])
    BY ZenonT(30), <1>2, <1>3, <1>4, <2>1 DEF LikeRows
  <2>2. CASE WStep(c, "free_tx", "unlock_vio", [v EXCEPT !.tx_pkts = FALSE, !.dpdk_state = "UNINIT"])
    <3>1. PICK u : u = [v EXCEPT !.tx_pkts = FALSE, !.dpdk_state = "UNINIT"]
      BY Zenon
    <3>2. /\ u \in RelayStruct /\ Like(u, [v EXCEPT !.dpdk_state = "UNINIT"])
          /\ v.dpdk_state = "UNINIT" => Like(u, v)
      BY ZenonT(30), <1>1, <3>1 DEF Like, SameVm, SameVf, SamePort, RelayStruct
    <3>3. worker[c].pc = "free_tx"
      BY Zenon, <2>2 DEF WStep
    <3>4. CASE v.dpdk_state = "UNINIT"
      BY <1>2, <1>4, <2>2, <3>1, <3>2, <3>4
    <3>5. CASE v.dpdk_state = "REMOVING2"
      BY ZenonT(30), <1>5, <2>2, <3>1, <3>2, <3>5, VfRemovalStep DEF v
    <3> QED BY ZenonT(30), <1>6, <3>3, <3>4, <3>5
  <2> QED BY <1>10, <2>1, <2>2 DEF worker_remove_vf_free, v
<1>11. CASE worker_remove_virtio_free(c)
  <2>1. CASE WStep(c, "drop_tx", "vio_uninit", [v EXCEPT !.tx_pkts = FALSE, !.vio_sl = FALSE])
    BY ZenonT(30), <1>2, <1>3, <1>4, <2>1 DEF LikeRows
  <2>2. CASE WStep(c, "vio_uninit", "vf_removing", [v EXCEPT !.vio_state = "UNINIT"])
    <3>1. worker[c].pc = "vio_uninit"
      BY Zenon, <2>2 DEF WStep
    <3>2. CASE v.vio_state = "UNINIT"
      BY <1>2, <1>4, <1>7, <2>2, <3>2
    <3>3. CASE v.vio_state = "REMOVING2"
      BY ZenonT(30), <1>5, <2>2, <3>3, VmRemovalStep DEF v
    <3> QED BY ZenonT(30), <1>6, <3>1, <3>2, <3>3
  <2> QED BY ZenonT(30), <1>11, <2>1, <2>2 DEF worker_remove_virtio_free, v
<1>12. CASE vf2vm_signal(c)
  <2>1. \/ v.dpdk_state = "REMOVING1" /\ WStep(c, "vf_removing", "vf_alone", [v EXCEPT !.dpdk_state = "REMOVING2"])
        \/ WStep(c, "vf_removing", "unlock_dpdk", v)
    BY Zenon, <1>12 DEF vf2vm_signal, v
  <2>2. CASE WStep(c, "vf_removing", "unlock_dpdk", v)
    BY ZenonT(30), <1>2, <1>3, <1>4, <2>2 DEF LikeRows
  <2>3. Like([v EXCEPT !.dpdk_state = "REMOVING2"], [v EXCEPT !.dpdk_state = "REMOVING2"])
    BY Zenon DEF Like, SameVm, SameVf, SamePort
  <2> QED BY ZenonT(30), <1>5, <1>7, <2>1, <2>2, <2>3, VfRemovalStep DEF v
<1>13. CASE vf2vm_alone(c)
  <2>1. \/ WStep(c, "vf_alone", "unlock_dpdk", [v EXCEPT !.dpdk_state = "UNINIT"])
        \/ WStep(c, "vf_alone", "unlock_dpdk", [v EXCEPT !.dpdk_state = v.dpdk_state])
    BY Zenon, <1>13 DEF vf2vm_alone, v
  <2>2. CASE WStep(c, "vf_alone", "unlock_dpdk", [v EXCEPT !.dpdk_state = v.dpdk_state])
    <3>1. [v EXCEPT !.dpdk_state = v.dpdk_state] = v
      BY Zenon, <1>1 DEF RelayStruct
    <3> QED BY <1>2, <1>3, <1>4, <2>2, <3>1 DEF LikeRows
  <2>3. CASE /\ v.dpdk_state = "UNINIT"
             /\ WStep(c, "vf_alone", "unlock_dpdk", [v EXCEPT !.dpdk_state = "UNINIT"])
    BY Zenon, <1>2, <1>4, <1>7, <2>3
  <2>4. CASE /\ v.dpdk_state = "REMOVING2"
             /\ WStep(c, "vf_alone", "unlock_dpdk", [v EXCEPT !.dpdk_state = "UNINIT"])
    <3>1. Like([v EXCEPT !.dpdk_state = "UNINIT"], [v EXCEPT !.dpdk_state = "UNINIT"])
      BY ZenonT(30) DEF Like, SameVm, SameVf, SamePort
    <3> QED BY ZenonT(30), <1>5, <1>7, <2>4, <3>1, VfRemovalStep DEF v
  <2>5. worker[c].pc = "vf_alone"
    BY Zenon, <2>1 DEF WStep
  <2> QED BY ZenonT(30), <1>6, <2>1, <2>2, <2>3, <2>4, <2>5
<1> QED BY ZenonT(30), <1>8, <1>9, <1>10, <1>11, <1>12, <1>13

\* The loop of worker_func changes nothing but the worker's locals; it takes a
\* direction in hand only if the CPU field names the worker.
LEMMA LoopSteps ==
  ASSUME TypeOK, NEW c \in Cpus,
         worker_func_head(c) \/ update_thread(c) \/ worker_func_next(c)
  PROVE  \E w : /\ worker' = [worker EXCEPT ![c] = w] /\ relay' = relay /\ ctl' = ctl
               /\ worker[c].pc \in {"head", "scan", "next"}
               /\ \/ w.pc \in {"head", "scan", "next", "vf2vm"}
                  \/ w.pc = "lock_vio" /\ relay[w.r].vio2vf_cpu = c
<1> DEFINE x == worker[c]
<1>1. x \in WorkerStruct
  BY Zenon DEF TypeOK
<1>2. CASE worker_func_head(c)
  <2>1. PICK w : /\ worker' = [worker EXCEPT ![c] = w]
                 /\ \/ w = [[x EXCEPT !.todo = x.active] EXCEPT !.pc = "scan", !.scan = Relays]
                    \/ w = [[x EXCEPT !.todo = x.active] EXCEPT !.pc = "next"]
    BY ZenonT(30), <1>2 DEF worker_func_head
  <2>2. w.pc \in {"scan", "next"}
    BY ZenonT(30), <1>1, <2>1 DEF WorkerStruct
  <2> QED BY ZenonT(30), <1>2, <2>1, <2>2 DEF worker_func_head
<1>3. CASE update_thread(c)
  <2>1. PICK w : /\ WLocal(c, w) /\ x.pc = "scan"
                 /\ \/ \E r \in x.scan : w = [x EXCEPT !.scan = x.scan \ {r},
                                           !.new = x.new \cup {y \in {r} : Serves(c, y)}]
                    \/ w = [x EXCEPT !.active = x.new, !.new = {}, !.pc = "next"]
    BY ZenonT(30), <1>3 DEF update_thread
  <2>2. w.pc \in {"scan", "next"}
    BY ZenonT(30), <1>1, <2>1 DEF WorkerStruct
  <2> QED BY ZenonT(30), <2>1, <2>2 DEF WLocal
<1>4. CASE worker_func_next(c)
  <2>1. PICK w : /\ WLocal(c, w) /\ x.pc = "next"
                 /\ \/ w = [x EXCEPT !.pc = "head"]
                    \/ \E r \in x.todo :
                         w = [x EXCEPT !.r = r, !.todo = x.todo \ {r},
                                       !.pc = IF relay[r].vio2vf_cpu = c THEN "lock_vio" ELSE "vf2vm"]
    BY ZenonT(30), <1>4 DEF worker_func_next
  <2>2. \/ w.pc \in {"head", "vf2vm"}
        \/ w.pc = "lock_vio" /\ relay[w.r].vio2vf_cpu = c
    BY ZenonT(30), <1>1, <2>1 DEF WorkerStruct
  <2> QED BY ZenonT(30), <2>1, <2>2 DEF WLocal
<1> QED BY ZenonT(30), <1>2, <1>3, <1>4

\* So it keeps the invariant.
LEMMA LoopApart ==
  ASSUME ApartInv, NEW c \in Cpus,
         worker_func_head(c) \/ update_thread(c) \/ worker_func_next(c)
  PROVE  Phases' /\ Passes'
<1>1. PICK w : /\ worker' = [worker EXCEPT ![c] = w] /\ relay' = relay /\ ctl' = ctl
               /\ \/ w.pc \in {"head", "scan", "next", "vf2vm"}
                  \/ w.pc = "lock_vio" /\ relay[w.r].vio2vf_cpu = c
  BY LoopSteps DEF ApartInv
<1>2. Phases'
  BY ZenonT(30), <1>1 DEF ApartInv, Phases, Held, AtRest
<1>3. Passes'
  <2> SUFFICES ASSUME NEW d \in Cpus
               PROVE  /\ Seen(worker'[d].pc, relay[worker'[d].r])
                      /\ \A t \in Threads : ctl[t].pc # "idle" /\ ctl[t].r = worker'[d].r
                            => Meets(d, worker'[d].pc, ctl[t].pc, relay[worker'[d].r])
    BY ZenonT(30), <1>1 DEF Passes, Mine
  <2>1. CASE d = c
    <3>1. worker'[d] = w
      BY Zenon, <1>1, <2>1 DEF ApartInv, TypeOK
    <3>2. Seen(w.pc, relay[w.r])
      BY Zenon, <1>1 DEF Seen
    <3>3. \A pc : Meets(c, w.pc, pc, relay[w.r])
      BY ZenonT(30), <1>1 DEF Meets, VmSection, VfSection
    <3> QED BY Zenon, <2>1, <3>1, <3>2, <3>3
  <2>2. CASE d # c
    <3>1. worker'[d] = worker[d]
      BY ZenonT(30), <1>1, <2>2 DEF ApartInv, TypeOK
    <3> QED BY Zenon, <3>1 DEF ApartInv, Passes, Mine
  <2> QED BY ZenonT(30), <2>1, <2>2
<1> QED BY Zenon, <1>2, <1>3

-----------------------------------------------------------------------------
(* The invariant and what follows from it *)

\* The initial states satisfy the invariant.
LEMMA ApartInit == Init => ApartInv
<1> SUFFICES ASSUME Init PROVE ApartInv
  BY ZenonT(30)
<1>1. TypeOK
  BY Zenon, TypeInit
<1>2. /\ \A r \in Relays : relay[r] = InitialRelay
      /\ \A c \in Cpus : worker[c].pc = "head"
      /\ \A t \in Threads : ctl[t].pc = "idle"
  BY DEF Init
<1>3. Rest(InitialRelay)
  BY ZenonT(30) DEF InitialRelay, Rest, VmUp, VmDown, VfUp, VfDown, ReadyForVm, PortReady, PortFits
<1>4. Phases
  BY ZenonT(30), <1>2, <1>3 DEF Phases, LabelsOf
<1>5. Passes
  BY Zenon, <1>2 DEF Passes, Seen
<1> QED BY ZenonT(30), <1>1, <1>4, <1>5 DEF ApartInv

\* Every step keeps the invariant.
LEMMA ApartStep ==
  ASSUME Apart, "timeout" \notin Faults
  PROVE  ApartInv /\ [Next]_vars => ApartInv'
<1> SUFFICES ASSUME ApartInv, [Next]_vars PROVE ApartInv'
  BY Zenon
<1>1. ASSUME NEW c \in Cpus, worker_func(c) PROVE Phases' /\ Passes'
  BY ZenonT(30), <1>1, LoopApart, QuietVm, QuietVf, RemovalPass
     DEF worker_func, relay_vm2vf_traffic, relay_vf2vm_traffic
<1>2. ASSUME NEW t \in Threads, Continue(t) PROVE Phases' /\ Passes'
  BY ZenonT(30), <1>2, AddVirtioApart, RemoveVirtioApart, AddVfApart, DetachApart, MigrateApart DEF Continue
<1>3. ASSUME NEW r \in Relays, Request(r) PROVE Phases' /\ Passes'
  BY Zenon, <1>3, RequestApart
<1>4. CASE UNCHANGED vars
  <2>1. relay' = relay /\ worker' = worker /\ ctl' = ctl
    BY Zenon, <1>4 DEF vars
  <2>2. Phases'
    BY ZenonT(30), <2>1 DEF ApartInv, Phases, Held, AtRest
  <2>3. Passes'
    BY ZenonT(30), <2>1 DEF ApartInv, Passes, Mine
  <2> QED BY ZenonT(30), <2>2, <2>3, TypeStep DEF ApartInv
<1>5. TypeOK'
  BY ZenonT(30), TypeStep DEF ApartInv
<1> QED BY Zenon, <1>1, <1>2, <1>3, <1>4, <1>5 DEF Next, ApartInv

\* While operations on a relay come one at a time and the workers answer in
\* time, a relay is in the phase of its operation, or at rest, and the workers
\* know what their label says, whatever else fails.
THEOREM ApartCorrect ==
  ASSUME Apart, "timeout" \notin Faults
  PROVE  Spec => []ApartInv
<1>1. Init => ApartInv
  BY ZenonT(30), ApartInit
<1>2. ApartInv /\ [Next]_vars => ApartInv'
  BY ZenonT(30), ApartStep
<1> QED BY ZenonT(60), <1>1, <1>2, PTL DEF Spec

\* A relay is at rest or in the hands of one thread.
LEMMA RestOrPhase ==
  ASSUME ApartInv, NEW r \in Relays
  PROVE  \/ AtRest(r) /\ Rest(relay[r])
         \/ \E t \in Threads : /\ ctl[t].pc \in LabelsOf(t) \ {"idle"}
                              /\ At(t, ctl[t].pc, ctl[t].st, relay[r])
BY ZenonT(30) DEF ApartInv, Phases, PhaseOf, AtRest, Held

\* The device of a VM that is not UNINIT exists.
LEMMA DeviceThere ==
  ASSUME ApartInv, NEW r \in Relays, relay[r].vio_state # "UNINIT"
  PROVE  relay[r].vio_dev
<1> USE DEF At, VmAt, VmUp, VmDown, Connecting, Bonding, MigLabels, AvLabels, RvLabels, AfLabels,
            RfLabels, MgLabels, LabelsOf, Threads
<1>1. CASE Rest(relay[r])
  BY ZenonT(30), <1>1 DEF Rest
<1>2. ASSUME NEW t \in Threads, NEW pc \in LabelsOf(t) \ {"idle"}, VmAt(t, pc, relay[r])
      PROVE  relay[r].vio_dev
  BY ZenonT(30), <1>2
<1> HIDE DEF VmAt, LabelsOf
<1> QED BY ZenonT(30), <1>1, <1>2, RestOrPhase

\* A worker that dequeues or enqueues packets uses a vhost device that exists:
\* virtio_rx and virtio_tx look at the state once, and the removal waits for
\* the worker before the device goes.
THEOREM VhostDeviceAliveCorrect ==
  ASSUME Apart, "timeout" \notin Faults
  PROVE  Spec => []VhostDeviceAlive
<1>1. ApartInv => VhostDeviceAlive
  <2> SUFFICES ASSUME ApartInv, NEW c \in Cpus, worker[c].pc \in {"dequeue", "enqueue"}
               PROVE  Mine(c).vio_dev
    BY Zenon DEF VhostDeviceAlive
  <2>1. Mine(c).vio_state # "UNINIT"
    BY Zenon DEF ApartInv, Passes, Seen
  <2>2. worker[c].r \in Relays
    BY SMTT(30) DEF ApartInv, TypeOK, WorkerStruct
  <2> QED BY ZenonT(30), <2>1, <2>2, DeviceThere DEF Mine
<1> QED BY ZenonT(60), <1>1, ApartCorrect, PTL

\* No operation indexes worker_threads with -1.
THEOREM FlagIndexValidCorrect ==
  ASSUME Apart, "timeout" \notin Faults
  PROVE  Spec => []FlagIndexValid
<1>1. ApartInv => FlagIndexValid
  <2> SUFFICES ASSUME ApartInv, NEW t \in Threads
               PROVE  /\ ctl[t].pc = "av_flag" => Held(t).vio2vf_cpu # NoCpu
                      /\ ctl[t].pc \in {"av_vf_flag", "rv_vf_flag", "af_flag"} => Held(t).vf2vio_cpu # NoCpu
                      /\ ctl[t].pc \in {"rv_flag", "rf_flag"} => ctl[t].cpu # NoCpu
                      /\ ctl[t].pc = "mg_vio" => Held(t).vio2vf_cpu # NoCpu
                      /\ ctl[t].pc = "mg_dpdk" => Held(t).vf2vio_cpu # NoCpu
    BY Zenon DEF FlagIndexValid
  <2> QED BY ZenonT(30), PhaseHere DEF ApartInv, At, VmAt, VfAt, VmUp, VfUp
<1> QED BY ZenonT(60), <1>1, ApartCorrect, PTL

\* Between two operations the states, the CPUs, the port and the pool of a
\* relay agree, provided no operation on a port fails half-way.
THEOREM RestConsistentCorrect ==
  ASSUME Apart, "timeout" \notin Faults, PortsWork
  PROVE  Spec => []RestConsistent
<1>1. ApartInv => RestConsistent
  <2> SUFFICES ASSUME ApartInv, NEW r \in Relays, NEW v \in RelayStruct, v = relay[r], AtRest(r)
               PROVE  /\ v.vio_state = IF v.vio_dev THEN "READY" ELSE "UNINIT"
                      /\ v.vio_state = "READY" <=> v.vio2vf_cpu # NoCpu
                      /\ v.dpdk_state # "UNINIT" <=> v.vf2vio_cpu # NoCpu
                      /\ <<v.dpdk_state, v.vf_dev>> \in
                           {<<"UNINIT", "detached">>,
                            IF v.vio_dev THEN <<"READY", "started">> ELSE <<"ADDED", "stopped">>}
                      /\ v.vio_dev \/ v.vf_dev # "detached" => v.mempool = "pool"
    BY ZenonT(30) DEF RestConsistent, ApartInv, TypeOK
  <2>1. Rest(v)
    BY Zenon DEF ApartInv, Phases
  <2> QED BY Zenon, <2>1 DEF Rest, VmUp, VmDown, VfUp, VfDown, ReadyForVm, PortReady, PortFits
<1> QED BY ZenonT(60), <1>1, ApartCorrect, PTL

\* Under the same conditions a started port receives into a pool that exists:
\* no operation frees or replaces the pool of a port before it has stopped it.
THEOREM StartedVfHasPoolCorrect ==
  ASSUME Apart, "timeout" \notin Faults, PortsWork
  PROVE  Spec => []StartedVfHasPool
<1>1. ASSUME NEW t \in Threads, NEW pc \in LabelsOf(t) \ {"idle"}, NEW v, PortAt(t, pc, v), v.vf_dev = "started"
      PROVE  v.vf_pool = "current"
  BY Zenon, <1>1 DEF PortAt, PortFits, PortReady, Bonding, MigLabels, AvLabels, RvLabels, AfLabels,
              RfLabels, MgLabels, LabelsOf, Threads
<1>2. ASSUME NEW v, Rest(v), v.vf_dev = "started"
      PROVE  v.vf_pool = "current"
  BY ZenonT(30), <1>2 DEF Rest, PortReady, PortFits
<1>3. ApartInv => StartedVfHasPool
  <2> SUFFICES ASSUME ApartInv, NEW r \in Relays, relay[r].vf_dev = "started"
               PROVE  relay[r].vf_pool = "current"
    BY Zenon DEF StartedVfHasPool
  <2> QED BY ZenonT(30), <1>1, <1>2, RestOrPhase DEF At
<1> QED BY ZenonT(60), <1>3, ApartCorrect, PTL

=============================================================================
