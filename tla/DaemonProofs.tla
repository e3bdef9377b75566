---------------------------- MODULE DaemonProofs ----------------------------
(***************************************************************************)
(* Proofs about Daemon, for any CPUs, queue pairs and services in use: the *)
(* order in which main stops threads, sockets and workers leaves no thread *)
(* waiting for a worker that has ended, and nothing in service.            *)
(***************************************************************************)
EXTENDS Daemon, TLAPS

MainLabels ==
  {"init", "eal", "launch", "sockets", "start", "run", "stop", "remove_virtio", "wait_virtio",
   "stop_virtio", "remove_vf", "wait_vf", "close", "wait_close", "stop_close", "shutdown", "join",
   "done", "exited"}

MainStruct == [pc : MainLabels, s : Services, todo : SUBSET Cpus]

WorkerStruct ==
  [pc : {"off", "launched", "started", "loop", "virtio_rx", "next_queue", "dpdk_tx", "removals",
         "ended"},
   running : BOOLEAN, must_stop : BOOLEAN]

VhostStruct == [sock : BOOLEAN, dev : BOOLEAN, pc : {"idle", "starting", "wait", "stopping"}]

RelayStruct ==
  [vio : {"UNINIT", "READY", "REMOVING"}, dpdk : {"UNINIT", "ADDED", "READY", "REMOVING"},
   vio2vf : BOOLEAN, vf2vio : BOOLEAN, tx_q_bitmap : SUBSET Pairs, tx_q_rr : Pairs,
   tx_pkts : BOOLEAN, overlap : BOOLEAN]

ThreadStates == {"none", "up", "starting", "adding", "busy", "ended"}

\* The part of the type invariant that the proofs need.
Types ==
  /\ main \in MainStruct
  /\ th \in [Services -> ThreadStates]
  /\ vhost \in VhostStruct
  /\ relay \in RelayStruct
  /\ worker \in [Cpus -> WorkerStruct]

Stopping == {"shutdown", "join", "done"}
AfterClose == {"wait_close", "stop_close"} \cup Stopping
AfterVf == {"wait_vf", "close"} \cup AfterClose
AfterServices == {"remove_virtio", "wait_virtio", "stop_virtio", "remove_vf"} \cup AfterVf

\* main's place says what can still happen.  The workers are told to stop at
\* the very end ...
WorkersLast ==
  \A c \in Cpus : worker[c].must_stop \/ worker[c].pc = "ended" => main.pc \in Stopping

\* ... after the sockets were closed with no callback under way ...
SocketsClosed ==
  main.pc \in AfterClose => ~vhost.sock /\ vhost.pc = "idle" /\ relay.vio # "READY"

\* ... after the VF was removed: nothing in service is left, and no callback
\* that could put it there ...
VfRemoved == main.pc \in AfterVf => relay.overlap \/ (~InService /\ ~Window)

\* ... and after the thread that adds VFs was stopped.
PortsStopped ==
  main.pc \in AfterServices \/ (main.pc = "stop" /\ main.s \in {"stats", "config"})
    => th["ports"] \notin {"up", "starting", "adding", "busy"}

Order == WorkersLast /\ SocketsClosed /\ PortsStopped

\* Without an overlap a VF in service has a worker to ask, and whoever is about
\* to store a state after a test still finds the VF in service.
VfKept ==
  /\ VfRemoved
  /\ InService => relay.vf2vio \/ relay.overlap
  /\ Window => relay.overlap \/ InService
  /\ main.pc = "stop_virtio" => InService
  /\ main.pc = "stop_close" => relay.overlap

\* A change of fields of one worker.
LEMMA WorkerField ==
  ASSUME Types, NEW c \in Cpus, NEW w \in WorkerStruct,
         worker' = [worker EXCEPT ![c] = w]
  PROVE  worker' \in [Cpus -> WorkerStruct]
BY Zenon DEF Types

\* What the removals and additions store keeps the type of the relay.
LEMMA RelayStores ==
  ASSUME Types, AskVirtio \/ ClearVirtio \/ StopVf \/ AskVf \/ ClearVf \/ Publish("READY")
                  \/ Publish("ADDED")
  PROVE  relay' \in RelayStruct
<1>1. (relay.overlap \/ Window) \in BOOLEAN /\ (relay.vf2vio /\ relay.dpdk # "UNINIT") \in BOOLEAN
  BY Zenon DEF Types, RelayStruct
<1>2. CASE AskVirtio \/ ClearVirtio \/ StopVf
  BY Zenon, <1>2 DEF AskVirtio, ClearVirtio, StopVf, Types, RelayStruct
<1>3. CASE AskVf \/ ClearVf
  BY Zenon, <1>1, <1>3 DEF AskVf, ClearVf, Types, RelayStruct
<1>4. CASE Publish("READY") \/ Publish("ADDED")
  BY Zenon, <1>4 DEF Publish, Types, RelayStruct
<1> QED BY Zenon, <1>2, <1>3, <1>4

\* A jump of a worker changes its label only.
LEMMA WorkerJump ==
  ASSUME Types, NEW c \in Cpus, NEW at,
         NEW pc \in {"loop", "started", "virtio_rx", "next_queue", "dpdk_tx", "removals"}, Worker(c, at, pc)
  PROVE  /\ worker' \in [Cpus -> WorkerStruct]
         /\ worker'[c].pc = pc /\ worker'[c].must_stop = worker[c].must_stop
         /\ \A d \in Cpus : d # c => worker'[d] = worker[d]
<1>1. worker[c] \in WorkerStruct
  BY Zenon DEF Types
<1> DEFINE w == [worker[c] EXCEPT !.pc = pc]
<1>2. w \in WorkerStruct /\ w.pc = pc /\ w.must_stop = worker[c].must_stop
  BY Zenon, <1>1 DEF WorkerStruct
<1>3. worker' = [worker EXCEPT ![c] = w]
  BY Zenon DEF Worker
<1> HIDE DEF w
<1> QED BY Zenon, <1>2, <1>3 DEF Types

\* A worker that begins or ends: what its record becomes.
LEMMA WorkerEnds ==
  ASSUME Types, NEW c \in Cpus,
         worker_func_start(c) \/ (worker[c].must_stop /\ worker_func_loop(c))
  PROVE  /\ worker' \in [Cpus -> WorkerStruct] /\ relay' = relay
         /\ worker'[c].must_stop \/ worker'[c].pc = "ended" => worker[c].must_stop
         /\ \A d \in Cpus : d # c => worker'[d] = worker[d]
<1>1. worker[c] \in WorkerStruct
  BY Zenon DEF Types
<1> DEFINE S == {[worker[c] EXCEPT !.pc = "started", !.running = TRUE],
                 [worker[c] EXCEPT !.pc = "loop", !.must_stop = FALSE],
                 [worker[c] EXCEPT !.pc = "ended", !.running = FALSE]}
<1>2. \A w \in S : w \in WorkerStruct
  BY Zenon, <1>1 DEF WorkerStruct
<1>3. \A w \in S : w.must_stop => worker[c].must_stop
  BY ZenonT(30), <1>1 DEF WorkerStruct
<1>4. \A w \in S : w.pc = "ended" => w = [worker[c] EXCEPT !.pc = "ended", !.running = FALSE]
  BY ZenonT(30), <1>1 DEF WorkerStruct
<1>5. PICK w \in S : worker' = [worker EXCEPT ![c] = w] /\ relay' = relay
                      /\ (w = [worker[c] EXCEPT !.pc = "ended", !.running = FALSE] => worker[c].must_stop)
  <2>1. CASE worker[c].pc = "launched" /\ worker_func_start(c)
    <3>1. [worker[c] EXCEPT !.pc = "started", !.running = TRUE]
            # [worker[c] EXCEPT !.pc = "ended", !.running = FALSE]
      BY <1>1 DEF WorkerStruct
    <3> QED BY Zenon, <2>1, <3>1 DEF worker_func_start
  <2>2. CASE worker[c].pc = "started" /\ worker_func_start(c)
    <3>1. [worker[c] EXCEPT !.pc = "loop", !.must_stop = FALSE]
            # [worker[c] EXCEPT !.pc = "ended", !.running = FALSE]
      BY <1>1 DEF WorkerStruct
    <3> QED BY Zenon, <2>2, <3>1 DEF worker_func_start
  <2>3. CASE worker[c].must_stop /\ worker_func_loop(c)
    BY Zenon, <2>3 DEF worker_func_loop
  <2> QED BY Zenon, <2>1, <2>2, <2>3 DEF worker_func_start
<1> HIDE DEF S
<1> QED BY Zenon, <1>2, <1>3, <1>4, <1>5 DEF Types

\* A step of a worker keeps the types, ends it only if it was told to, puts
\* nothing in service and forgets no overlap.
LEMMA WorkerStep ==
  ASSUME Types, NEW c \in Cpus, worker_func(c)
  PROVE  /\ Types' /\ UNCHANGED <<main, th, vhost>>
         /\ \A d \in Cpus : worker'[d].must_stop \/ worker'[d].pc = "ended"
                              => worker[d].must_stop \/ worker[d].pc = "ended"
         /\ relay.vio # "READY" => relay'.vio # "READY"
         /\ relay'.dpdk = relay.dpdk \/ (relay.dpdk = "REMOVING" /\ relay'.dpdk = "UNINIT")
         /\ relay'.vf2vio = relay.vf2vio /\ relay'.overlap = relay.overlap
<1>1. UNCHANGED <<main, th, vhost>>
  BY Zenon DEF worker_func
<1>2. CASE worker_func_start(c) \/ (worker[c].must_stop /\ worker_func_loop(c))
  BY Zenon, <1>1, <1>2, WorkerEnds DEF Types
<1>3. CASE \E at, pc \in {"loop", "started", "virtio_rx", "next_queue", "dpdk_tx", "removals"} :
             Worker(c, at, pc)
  <2>1. /\ worker' \in [Cpus -> WorkerStruct]
        /\ worker'[c].pc # "ended" /\ worker'[c].must_stop = worker[c].must_stop
        /\ \A d \in Cpus : d # c => worker'[d] = worker[d]
    BY Zenon, <1>3, WorkerJump
  <2>2. /\ relay' \in RelayStruct
        /\ relay.vio # "READY" => relay'.vio # "READY"
        /\ relay'.dpdk = relay.dpdk \/ (relay.dpdk = "REMOVING" /\ relay'.dpdk = "UNINIT")
        /\ relay'.vf2vio = relay.vf2vio /\ relay'.overlap = relay.overlap
    <3>0. relay \in RelayStruct
      BY Zenon DEF Types
    <3>1. CASE UNCHANGED relay
      BY Zenon, <3>0, <3>1
    <3>2. CASE \E b \in BOOLEAN : relay' = [relay EXCEPT !.tx_pkts = b]
      BY ZenonT(30), <3>0, <3>2 DEF RelayStruct
    <3>3. CASE virtio_rx_next(c)
      <4>1. NextQueue(relay.tx_q_rr) \in Pairs
        BY <3>0, DaemonAssumption DEF NextQueue, Pairs, RelayStruct
      <4> QED BY ZenonT(30), <3>0, <3>3, <4>1 DEF virtio_rx_next, RelayStruct
    <3>4. CASE worker_removals(c)
      <4> DEFINE b == relay.tx_pkts /\ ~(AnswersVirtio /\ relay.vf2vio) /\ ~(AnswersVf /\ relay.vio2vf)
                 v == IF AnswersVirtio THEN "UNINIT" ELSE relay.vio
                 d == IF AnswersVf THEN "UNINIT" ELSE relay.dpdk
      <4>1. b \in BOOLEAN /\ v \in {"UNINIT", relay.vio} /\ d \in {"UNINIT", relay.dpdk}
        BY Zenon
      <4>2. d = relay.dpdk \/ (relay.dpdk = "REMOVING" /\ d = "UNINIT")
        BY Zenon DEF AnswersVf
      <4>3. relay' = [relay EXCEPT !.vio = v, !.dpdk = d, !.tx_pkts = b]
        BY ZenonT(30), <3>4 DEF worker_removals
      <4> HIDE DEF b, v, d
      <4>4. relay' \in RelayStruct
        BY Zenon, <3>0, <4>1, <4>3 DEF RelayStruct
      <4>5. /\ relay'.vio = v /\ relay'.dpdk = d
            /\ relay'.vf2vio = relay.vf2vio /\ relay'.overlap = relay.overlap
        BY ZenonT(30), <3>0, <4>3 DEF RelayStruct
      <4> QED BY Zenon, <4>1, <4>2, <4>4, <4>5
    <3> QED BY Zenon, <3>1, <3>2, <3>3, <3>4 DEF worker_func, worker_func_start, worker_func_loop, virtio_rx, dpdk_tx
  <2> QED BY Zenon, <1>1, <2>1, <2>2 DEF Types
<1> QED BY Zenon, <1>2, <1>3 DEF worker_func, worker_func_loop, virtio_rx, virtio_rx_next, dpdk_tx, worker_removals

\* A step of the vhost thread needs an open socket.
LEMMA VhostTypes ==
  ASSUME Types, VhostThread
  PROVE  Types' /\ vhost.sock /\ UNCHANGED <<main, th, worker>>
<1>1. vhost.sock /\ UNCHANGED <<main, th, worker>>
  BY Zenon DEF VhostThread, new_device_cb, vring_state_change_cb, destroy_device_cb, Vhost
<1>2. vhost' \in VhostStruct
  <2>1. ASSUME NEW at, NEW pc \in {"idle", "starting", "wait", "stopping"}, NEW dev \in BOOLEAN,
               Vhost(at, pc, dev)
        PROVE  vhost' \in VhostStruct
    BY Zenon, <2>1 DEF Vhost, Types, VhostStruct
  <2>2. vhost.dev \in BOOLEAN
    BY Zenon DEF Types, VhostStruct
  <2> QED BY Zenon, <2>1, <2>2 DEF VhostThread, new_device_cb, vring_state_change_cb, destroy_device_cb
<1>3. relay' \in RelayStruct
  <2>0. relay \in RelayStruct
    BY Zenon DEF Types
  <2>1. CASE new_device_cb
    <3>1. 0 \in Pairs /\ (relay.vf2vio \/ relay.dpdk = "ADDED") \in BOOLEAN
      BY DaemonAssumption DEF Pairs
    <3> QED BY ZenonT(30), <2>0, <2>1, <3>1 DEF new_device_cb, RelayStruct
  <2>2. CASE vring_state_change_cb
    <3>1. PICK q \in Pairs :
            relay' = [relay EXCEPT !.tx_q_bitmap = IF q \in @ THEN @ \ {q} ELSE @ \cup {q}]
      BY ZenonT(30), <2>2 DEF vring_state_change_cb
    <3> QED BY Zenon, <2>0, <3>1 DEF RelayStruct
  <2>3. CASE destroy_device_cb
    BY Zenon, <2>0, <2>3, RelayStores DEF destroy_device_cb
  <2> QED BY Zenon, <2>1, <2>2, <2>3 DEF VhostThread
<1> QED BY Zenon, <1>1, <1>2, <1>3 DEF Types

\* A step of the thread that adds VFs needs one that was not stopped.
LEMMA PortsTypes ==
  ASSUME Types, PortsThread
  PROVE  /\ Types' /\ th["ports"] \in {"up", "starting", "adding", "busy"}
         /\ UNCHANGED <<main, vhost, worker>>
<1>1. th["ports"] \in {"up", "starting", "adding", "busy"} /\ UNCHANGED <<main, vhost, worker>>
  BY Zenon DEF PortsThread, add_vf, remove_vf, Ports
<1>2. th' \in [Services -> ThreadStates]
  <2>1. ASSUME NEW at, NEW st \in ThreadStates, Ports(at, st) PROVE th' \in [Services -> ThreadStates]
    BY Zenon, <2>1 DEF Ports, Types
  <2> QED BY Zenon, <2>1 DEF PortsThread, add_vf, remove_vf, ThreadStates
<1>3. relay' \in RelayStruct
  BY Zenon, RelayStores DEF PortsThread, add_vf, remove_vf, Types
<1> QED BY Zenon, <1>1, <1>2, <1>3 DEF Types

\* The steps of main keep the types.
LEMMA MainTypes ==
  ASSUME Types, MainThread
  PROVE  Types'
<1> USE DEF Types, MainStruct, MainLabels, Main, Flags
<1>1. CASE create_daemon_file \/ dpdk_eal_initialize
  BY <1>1 DEF create_daemon_file, dpdk_eal_initialize, Fail
<1>2. CASE virtio_forwarders_initialize
  <2>1. worker' \in [Cpus -> WorkerStruct]
    BY <1>2 DEF virtio_forwarders_initialize, WorkerStruct
  <2>2. relay' \in RelayStruct
    BY Zenon, <1>2, RelayStores DEF virtio_forwarders_initialize
  <2> QED BY ZenonT(30), <1>2, <2>1, <2>2 DEF virtio_forwarders_initialize
<1>3. CASE register_sockets
  BY ZenonT(30), <1>3 DEF register_sockets, Fail, VhostStruct
<1>4. CASE start_service
  <2>1. CASE Fail("start")
    BY Zenon, <2>1 DEF Fail
  <2>2. CASE ~Fail("start")
    <3>1. StartNext[main.s] \in Services
      BY DEF StartNext, Services
    <3>2. main' \in MainStruct
      BY ZenonT(30), <1>4, <2>2, <3>1 DEF start_service
    <3>3. th' \in [Services -> ThreadStates]
      BY Zenon, <1>4, <2>2 DEF start_service, ThreadStates
    <3> QED BY <1>4, <2>2, <3>2, <3>3 DEF start_service
  <2> QED BY Zenon, <2>1, <2>2
<1>5. CASE main_loop
  BY ZenonT(30), <1>5 DEF main_loop, Services
<1>6. CASE stop_service
  <2>1. PICK st \in Stopped(main.s) : th' = [th EXCEPT ![main.s] = st]
    BY ZenonT(30), <1>6 DEF stop_service
  <2>2. st \in {"none", "ended"}
    BY Zenon, <2>1 DEF Stopped
  <2>3. StopNext[main.s] \in Services
    BY DEF StopNext, Services
  <2>4. main' \in MainStruct
    BY ZenonT(30), <1>6, <2>3 DEF stop_service
  <2>5. th' \in [Services -> ThreadStates]
    BY Zenon, <2>1, <2>2 DEF ThreadStates
  <2> QED BY Zenon, <1>6, <2>4, <2>5 DEF stop_service
<1>7. CASE remove_all_virtio \/ remove_all_vf
  <2>1. relay' \in RelayStruct
    BY Zenon, <1>7, RelayStores DEF remove_all_virtio, remove_all_vf
  <2>2. main' \in MainStruct
    BY ZenonT(30), <1>7 DEF remove_all_virtio, remove_all_vf
  <2> QED BY Zenon, <1>7, <2>1, <2>2 DEF remove_all_virtio, remove_all_vf
<1>8. CASE deregister_sockets
  <2>1. relay' \in RelayStruct
    BY Zenon, <1>8, RelayStores DEF deregister_sockets, CloseVm, CloseIdle, Closed
  <2>2. main' \in MainStruct
    BY ZenonT(30), <1>8 DEF deregister_sockets, CloseVm, CloseIdle, Closed
  <2>3. vhost' \in VhostStruct
    BY ZenonT(30), <1>8 DEF deregister_sockets, CloseVm, CloseIdle, Closed, VhostStruct
  <2> QED BY Zenon, <1>8, <2>1, <2>2, <2>3 DEF deregister_sockets
<1>9. CASE virtio_forwarders_shutdown
  <2>1. CASE \E c \in main.todo :
               /\ main' = [main EXCEPT !.todo = @ \ {c}]
               /\ worker' = [worker EXCEPT ![c].must_stop = IF worker[c].running THEN TRUE ELSE @]
    <3>1. PICK c \in main.todo :
            /\ main' = [main EXCEPT !.todo = @ \ {c}]
            /\ worker' = [worker EXCEPT ![c].must_stop = IF worker[c].running THEN TRUE ELSE @]
      BY ZenonT(30), <2>1
    <3>2. main' \in MainStruct
      BY Zenon, <3>1
    <3>3. worker' \in [Cpus -> WorkerStruct]
      BY ZenonT(30), <3>1 DEF WorkerStruct
    <3> QED BY Zenon, <1>9, <3>2, <3>3 DEF virtio_forwarders_shutdown
  <2>2. CASE Main("shutdown", "join") /\ UNCHANGED worker
    <3>1. main' \in MainStruct
      BY Zenon, <2>2
    <3> QED BY Zenon, <1>9, <2>2, <3>1 DEF virtio_forwarders_shutdown
  <2> QED BY ZenonT(30), <1>9, <2>1, <2>2 DEF virtio_forwarders_shutdown
<1>10. CASE virtiofwd_shutdown
  BY Zenon, <1>10 DEF virtiofwd_shutdown
<1> QED BY Zenon, <1>1, <1>2, <1>3, <1>4, <1>5, <1>6, <1>7, <1>8, <1>9, <1>10 DEF MainThread

\* Steps of workers and callbacks, and of the thread that adds VFs, keep the
\* order.
LEMMA OtherOrder ==
  ASSUME Types, Order, VhostThread \/ PortsThread \/ \E c \in Cpus : worker_func(c)
  PROVE  Order'
<1> USE DEF Order, WorkersLast, SocketsClosed, PortsStopped
<1>1. CASE VhostThread
  BY Zenon, <1>1, VhostTypes
<1>2. CASE PortsThread
  <2>1. main.pc \notin AfterServices
    BY Zenon, <1>2, PortsTypes
  <2> QED BY Zenon, <1>2, <2>1, PortsTypes DEF AfterServices, AfterVf
<1>3. CASE \E c \in Cpus : worker_func(c)
  BY Zenon, <1>3, WorkerStep
<1> QED BY Zenon, <1>1, <1>2, <1>3

\* The steps of main keep the order; it is main that follows it.
LEMMA MainOrder ==
  ASSUME Types, Order, MainThread
  PROVE  Order'
<1> USE DEF Order, WorkersLast, SocketsClosed, PortsStopped, Main, MainStruct,
            Stopping, AfterClose, AfterVf, AfterServices
<1>1. CASE create_daemon_file \/ dpdk_eal_initialize \/ register_sockets
  BY <1>1 DEF create_daemon_file, dpdk_eal_initialize, register_sockets, Fail, Types
<1>2. CASE virtio_forwarders_initialize
  <2>1. main'.pc = "sockets" /\ main.pc = "launch"
    BY Zenon, <1>2 DEF virtio_forwarders_initialize, Types
  <2>2. \A c \in Cpus : worker'[c].pc = "launched" /\ worker'[c].must_stop = worker[c].must_stop
    BY <1>2 DEF virtio_forwarders_initialize, Types, WorkerStruct
  <2> QED BY Zenon, <2>1, <2>2
<1>3. CASE start_service
  <2>1. main.pc = "start" /\ main'.pc \in {"start", "run", "exited"} /\ worker' = worker
    BY ZenonT(30), <1>3 DEF start_service, Fail, Types
  <2> QED BY Zenon, <2>1
<1>4. CASE main_loop
  <2>1. main.pc = "run" /\ main'.pc = "stop" /\ main'.s = "sched" /\ worker' = worker
    BY Zenon, <1>4 DEF main_loop, Types
  <2> QED BY Zenon, <2>1
<1>5. CASE stop_service
  <2>1. PICK st \in Stopped(main.s) : th' = [th EXCEPT ![main.s] = st]
    BY ZenonT(30), <1>5 DEF stop_service
  <2>2. st \in {"none", "ended"}
    BY Zenon, <2>1 DEF Stopped
  <2>3. /\ main.pc = "stop" /\ main'.pc \in {"stop", "remove_virtio"} /\ worker' = worker
        /\ main'.pc = "remove_virtio" => main.s = "config"
        /\ main'.s \in {"stats", "config"} => main.s \in {"ports", "stats", "config"}
    BY <1>5 DEF stop_service, StopNext, Services, Types
  <2>4. main.s = "ports" => th'["ports"] \notin {"up", "starting", "adding", "busy"}
    BY Zenon, <2>1, <2>2 DEF Types, Services
  <2>5. main.s # "ports" => th'["ports"] = th["ports"]
    BY Zenon, <2>1 DEF Types, Services
  <2> QED BY Zenon, <2>3, <2>4, <2>5
<1>6. CASE remove_all_virtio
  <2>1. /\ main.pc \in {"remove_virtio", "wait_virtio", "stop_virtio"}
        /\ main'.pc \in {"wait_virtio", "stop_virtio", "remove_vf"} /\ UNCHANGED <<worker, th>>
    BY ZenonT(30), <1>6 DEF remove_all_virtio, Types
  <2> QED BY Zenon, <2>1
<1>7. CASE remove_all_vf
  <2>1. /\ main.pc \in {"remove_vf", "wait_vf"} /\ main'.pc \in {"wait_vf", "close"}
        /\ UNCHANGED <<worker, th>>
    BY ZenonT(30), <1>7 DEF remove_all_vf, Types
  <2> QED BY Zenon, <2>1
<1>8. CASE deregister_sockets
  <2>1. /\ main.pc \in {"close", "wait_close", "stop_close"}
        /\ main'.pc \in {"wait_close", "stop_close", "shutdown"}
        /\ UNCHANGED <<worker, th>>
    BY ZenonT(30), <1>8 DEF deregister_sockets, CloseVm, CloseIdle, Closed, Types
  <2>2. ~vhost'.sock /\ vhost'.pc = "idle" /\ relay'.vio # "READY"
    <3>1. CASE CloseVm \/ CloseIdle
      BY ZenonT(30), <1>8, <3>1 DEF deregister_sockets, CloseVm, CloseIdle, Closed, AskVirtio, Types,
         VhostStruct, RelayStruct
    <3>2. CASE Closed
      BY ZenonT(30), <2>1, <3>2 DEF Closed, ClearVirtio, StopVf, Types, VhostStruct, RelayStruct
    <3> QED BY Zenon, <1>8, <3>1, <3>2 DEF deregister_sockets
  <2> QED BY Zenon, <2>1, <2>2
<1>9. CASE virtio_forwarders_shutdown
  <2>1. main.pc = "shutdown" /\ main'.pc \in {"shutdown", "join"}
    BY ZenonT(30), <1>9 DEF virtio_forwarders_shutdown, Types
  <2> QED BY Zenon, <1>9, <2>1 DEF virtio_forwarders_shutdown
<1>10. CASE virtiofwd_shutdown
  BY Zenon, <1>10 DEF virtiofwd_shutdown, Types
<1> QED BY Zenon, <1>1, <1>2, <1>3, <1>4, <1>5, <1>6, <1>7, <1>8, <1>9, <1>10 DEF MainThread

\* Steps other than main's keep a VF from coming back into service.
LEMMA OtherKept ==
  ASSUME Types, Order, VfKept, VhostThread \/ PortsThread \/ \E c \in Cpus : worker_func(c)
  PROVE  VfKept'
<1> USE DEF VfKept, VfRemoved, InService, Window
<1>1. CASE \E c \in Cpus : worker_func(c)
  BY Zenon, <1>1, WorkerStep
<1>2. CASE VhostThread
  <2>1. main' = main /\ relay'.overlap = relay.overlap
    BY ZenonT(30), <1>2 DEF VhostThread, new_device_cb, vring_state_change_cb, destroy_device_cb, AskVirtio,
       ClearVirtio, StopVf, Types, RelayStruct
  <2>2. CASE Window /\ relay'.vf2vio = relay.vf2vio
    BY ZenonT(30), <1>2, <2>1, <2>2 DEF VhostThread, new_device_cb, vring_state_change_cb, destroy_device_cb, 
       ClearVirtio, StopVf, Vhost, Types, RelayStruct, VhostStruct
  <2>3. CASE ~Window
    <3>1. /\ relay'.dpdk = relay.dpdk /\ (relay.vf2vio => relay'.vf2vio)
          /\ vhost'.pc \in {"starting", "stopping"} => InService
      BY ZenonT(30), <1>2, <2>3 DEF VhostThread, new_device_cb, vring_state_change_cb, destroy_device_cb, AskVirtio,
         ClearVirtio, Vhost, Types, RelayStruct, VhostStruct
    <3> QED BY Zenon, <2>1, <3>1
  <2>4. Window => relay'.vf2vio = relay.vf2vio
    BY ZenonT(30), <1>2 DEF VhostThread, new_device_cb, vring_state_change_cb, destroy_device_cb, 
       ClearVirtio, StopVf, Vhost, Types, RelayStruct
  <2> QED BY Zenon, <2>2, <2>3, <2>4
<1>3. CASE PortsThread
  <2>1. main.pc \notin AfterServices /\ main' = main /\ vhost' = vhost
    BY Zenon, <1>3, PortsTypes DEF Order, PortsStopped
  <2>2. main.pc \notin AfterVf \cup {"stop_virtio", "stop_close"}
    BY Zenon, <2>1 DEF AfterServices, AfterVf, AfterClose
  <2>3. CASE relay' = relay
    BY Zenon, <2>1, <2>3
  <2>4. CASE Publish("READY") \/ Publish("ADDED")
    <3>1. relay'.dpdk \in {"ADDED", "READY"} /\ relay'.vf2vio /\ relay'.overlap = relay.overlap
      BY ZenonT(30), <2>4 DEF Publish, Types, RelayStruct
    <3> QED BY Zenon, <2>1, <2>2, <3>1
  <2>5. CASE AskVf
    <3>1. relay'.dpdk = "REMOVING" /\ relay'.overlap = (relay.overlap \/ Window)
      BY ZenonT(30), <2>5 DEF AskVf, Types, RelayStruct
    <3> QED BY <2>1, <2>2, <3>1
  <2>6. CASE ClearVf
    <3>1. /\ relay'.dpdk = relay.dpdk /\ relay'.overlap = relay.overlap
          /\ relay'.vf2vio = (relay.vf2vio /\ relay.dpdk # "UNINIT")
      BY ZenonT(30), <2>6 DEF ClearVf, Types, RelayStruct
    <3> QED BY <2>1, <2>2, <3>1
  <2> QED BY Zenon, <1>3, <2>3, <2>4, <2>5, <2>6 DEF PortsThread, add_vf, remove_vf
<1> QED BY Zenon, <1>1, <1>2, <1>3

\* And so do main's: it removes the VF once no thread adds any.
LEMMA MainKept ==
  ASSUME Types, Order, VfKept, MainThread
  PROVE  VfKept'
<1> USE DEF VfKept, VfRemoved, InService, Window, AfterVf, AfterClose, Stopping
<1>1. CASE \/ create_daemon_file \/ dpdk_eal_initialize \/ register_sockets \/ start_service
           \/ main_loop \/ stop_service
  <2>1. /\ relay' = relay /\ vhost'.pc = vhost.pc
        /\ main'.pc \notin AfterVf \cup {"stop_virtio", "stop_close"}
    BY ZenonT(30), <1>1 DEF create_daemon_file, dpdk_eal_initialize, register_sockets, start_service, main_loop,
       stop_service, Fail, Main, Types, MainStruct, VhostStruct
  <2> QED BY Zenon, <2>1
<1>2. CASE virtio_forwarders_initialize
  <2>1. main'.pc = "sockets" /\ vhost' = vhost
    BY Zenon, <1>2 DEF virtio_forwarders_initialize, Main, Types, MainStruct
  <2>2. CASE Publish("ADDED")
    <3>1. relay'.dpdk = "ADDED" /\ relay'.vf2vio /\ relay'.overlap = relay.overlap
      BY ZenonT(30), <2>2 DEF Publish, Types, RelayStruct
    <3> QED BY Zenon, <2>1, <3>1
  <2>3. CASE relay' = relay
    BY Zenon, <2>1, <2>3
  <2> QED BY Zenon, <1>2, <2>2, <2>3 DEF virtio_forwarders_initialize
<1>3. CASE remove_all_virtio
  <2>1. vhost' = vhost /\ relay'.overlap = relay.overlap /\ relay'.vf2vio = relay.vf2vio
    BY ZenonT(30), <1>3 DEF remove_all_virtio, AskVirtio, ClearVirtio, StopVf, Types, RelayStruct
  <2>2. /\ main'.pc \notin AfterVf \cup {"stop_close"}
        /\ main'.pc = "stop_virtio" => relay'.dpdk = "READY"
        /\ relay'.dpdk = relay.dpdk \/ (main.pc = "stop_virtio" /\ relay'.dpdk = "ADDED")
    BY ZenonT(30), <1>3 DEF remove_all_virtio, AskVirtio, ClearVirtio, StopVf, Main, Types, RelayStruct, MainStruct
  <2> QED BY Zenon, <2>1, <2>2
<1>4. CASE remove_all_vf
  <2>1. vhost' = vhost /\ main'.pc \in {"wait_vf", "close"} /\ main.pc \in {"remove_vf", "wait_vf"}
    BY ZenonT(30), <1>4 DEF remove_all_vf, Main, Types, MainStruct
  <2>2. CASE AskVf
    <3>1. relay'.dpdk = "REMOVING" /\ relay'.overlap = (relay.overlap \/ Window)
      BY ZenonT(30), <2>2 DEF AskVf, Types, RelayStruct
    <3> QED BY <2>1, <3>1
  <2>3. CASE ~(InService /\ relay.vf2vio) /\ UNCHANGED relay
    BY Zenon, <2>1, <2>3
  <2>4. CASE main.pc = "wait_vf" /\ ClearVf
    <3>1. /\ relay'.dpdk = relay.dpdk /\ relay'.overlap = relay.overlap
          /\ relay'.vf2vio = (relay.vf2vio /\ relay.dpdk # "UNINIT")
      BY ZenonT(30), <2>4 DEF ClearVf, Types, RelayStruct
    <3> QED BY <2>1, <2>4, <3>1
  <2> QED BY Zenon, <1>4, <2>2, <2>3, <2>4 DEF remove_all_vf, Main
<1>5. CASE deregister_sockets
  <2>1. /\ vhost'.pc = vhost.pc /\ relay'.overlap = relay.overlap /\ relay'.vf2vio = relay.vf2vio
        /\ main.pc \in {"close", "wait_close", "stop_close"}
        /\ main'.pc \in {"wait_close", "stop_close", "shutdown"}
    BY ZenonT(30), <1>5 DEF deregister_sockets, CloseVm, CloseIdle, Closed, AskVirtio, ClearVirtio, StopVf,
       Main, Types, RelayStruct, MainStruct, VhostStruct
  <2>2. /\ main'.pc = "stop_close" => relay.dpdk = "READY"
        /\ relay'.dpdk = relay.dpdk \/ main.pc = "stop_close"
    BY ZenonT(30), <1>5 DEF deregister_sockets, CloseVm, CloseIdle, Closed, AskVirtio, ClearVirtio, StopVf,
       Main, Types, RelayStruct, MainStruct
  <2> QED BY Zenon, <2>1, <2>2
<1>6. CASE virtio_forwarders_shutdown \/ virtiofwd_shutdown
  <2>1. /\ UNCHANGED <<vhost, relay>> /\ main.pc \in {"shutdown", "join"}
        /\ main'.pc \in {"shutdown", "join", "done"}
    BY ZenonT(30), <1>6 DEF virtio_forwarders_shutdown, virtiofwd_shutdown, Main, Types, MainStruct
  <2> QED BY Zenon, <2>1
<1> QED BY Zenon, <1>1, <1>2, <1>3, <1>4, <1>5, <1>6 DEF MainThread

\* The types, the order and the place of the VF hold in every reachable state.
LEMMA OrderAlways == Spec => [](Types /\ Order /\ VfKept)
<1>1. Init => Types /\ Order /\ VfKept
  <2> SUFFICES ASSUME Init PROVE Types /\ Order /\ VfKept
    BY Zenon
  <2>1. 0 \in Pairs
    BY DaemonAssumption DEF Pairs
  <2>2. worker \in [Cpus -> WorkerStruct]
    BY Zenon DEF Init, WorkerStruct
  <2>3. Types
    BY Zenon, <2>1, <2>2
       DEF Init, Types, MainStruct, MainLabels, Services, ThreadStates, VhostStruct, RelayStruct
  <2>4. Order
    BY Zenon DEF Init, Order, WorkersLast, SocketsClosed, PortsStopped,
           Stopping, AfterClose, AfterVf, AfterServices
  <2>5. VfKept
    BY ZenonT(30) DEF Init, VfKept, VfRemoved, InService, Window, AfterVf, AfterClose, Stopping
  <2> QED BY Zenon, <2>3, <2>4, <2>5
<1>2. Types /\ Order /\ VfKept /\ [Next]_vars => Types' /\ Order' /\ VfKept'
  <2> SUFFICES ASSUME Types, Order, VfKept, [Next]_vars PROVE Types' /\ Order' /\ VfKept'
    BY Zenon
  <2>1. CASE MainThread
    BY Zenon, <2>1, MainTypes, MainOrder, MainKept
  <2>2. CASE sig_handler \/ UNCHANGED vars
    BY Zenon, <2>2 DEF sig_handler, vars, Types, Order, WorkersLast, SocketsClosed, PortsStopped, VfKept,
       VfRemoved, InService, Window
  <2>3. CASE VhostThread \/ PortsThread \/ \E c \in Cpus : worker_func(c)
    BY Zenon, <2>3, VhostTypes, PortsTypes, WorkerStep, OtherOrder, OtherKept
  <2> QED BY Zenon, <2>1, <2>2, <2>3 DEF Next
<1> QED BY <1>1, <1>2, PTL DEF Spec

\* The flags and the kind of the thread that adds VFs have their types.
LEMMA FlagTypes ==
  Spec => [](must_stop \in BOOLEAN /\ running \in BOOLEAN /\ pidfile \in BOOLEAN
               /\ kind \in {"any", "zmq", "monitor"})
<1> DEFINE T == must_stop \in BOOLEAN /\ running \in BOOLEAN /\ pidfile \in BOOLEAN
                  /\ kind \in {"any", "zmq", "monitor"}
<1>1. Init => T
  BY Zenon DEF Init
<1>2. T /\ [Next]_vars => T'
  <2> SUFFICES ASSUME T, [Next]_vars PROVE T'
    BY Zenon
  <2>1. CASE MainThread
    <3> USE DEF Main, Flags, Fail
    <3>1. CASE create_daemon_file \/ dpdk_eal_initialize \/ virtio_forwarders_initialize
      BY Zenon, <3>1 DEF create_daemon_file, dpdk_eal_initialize, virtio_forwarders_initialize
    <3>2. CASE register_sockets \/ start_service \/ main_loop \/ stop_service
      BY Zenon, <3>2 DEF register_sockets, start_service, main_loop, stop_service
    <3>3. CASE remove_all_virtio \/ remove_all_vf \/ deregister_sockets
      BY Zenon, <3>3 DEF remove_all_virtio, remove_all_vf, deregister_sockets
    <3>4. CASE virtio_forwarders_shutdown \/ virtiofwd_shutdown
      BY Zenon, <3>4 DEF virtio_forwarders_shutdown, virtiofwd_shutdown
    <3> QED BY Zenon, <2>1, <3>1, <3>2, <3>3, <3>4 DEF MainThread
  <2>2. CASE sig_handler \/ UNCHANGED vars
    BY Zenon, <2>2 DEF sig_handler, vars
  <2>3. CASE VhostThread \/ PortsThread \/ \E c \in Cpus : worker_func(c)
    BY Zenon, <2>3 DEF VhostThread, PortsThread, worker_func, Flags
  <2> QED BY Zenon, <2>1, <2>2, <2>3 DEF Next
<1> QED BY <1>1, <1>2, PTL DEF Spec

\* Every variable of the daemon keeps its type, for any CPUs, queue pairs and
\* services.
THEOREM TypeCorrect == Spec => []TypeOK
<1>1. Types /\ must_stop \in BOOLEAN /\ running \in BOOLEAN /\ pidfile \in BOOLEAN
        /\ kind \in {"any", "zmq", "monitor"} => TypeOK
  BY Zenon DEF Types, TypeOK, MainStruct, MainLabels, WorkerStruct, ThreadStates, VhostStruct, RelayStruct
<1> QED BY <1>1, OrderAlways, FlagTypes, PTL

\* However many CPUs, queue pairs and services there are: main() never stops a
\* worker that a thread is waiting for in virtio_forwarder_remove_virtio or
\* virtio_forwarder_remove_vf2.
THEOREM WaitersHaveWorkerAlways == Spec => []WaitersHaveWorker
<1>1. Types /\ Order => WaitersHaveWorker
  BY Zenon, DaemonAssumption
     DEF Order, WorkersLast, SocketsClosed, PortsStopped, WaitersHaveWorker, Stopping,
         AfterClose, AfterVf, AfterServices
<1> QED BY <1>1, OrderAlways, PTL

\* However many there are: when main() tells the workers to stop
\* (virtio_forwarders_shutdown) no VM and no VF is in service any more, unless a
\* callback stored the state of a VF (1958, 2028) over the removal.
THEOREM NothingInServiceAlways == Spec => []NothingInService
<1>1. Order /\ VfKept => NothingInService
  BY Zenon DEF Order, SocketsClosed, VfKept, VfRemoved, NothingInService, Stopping, AfterClose, AfterVf
<1> QED BY <1>1, OrderAlways, PTL
=============================================================================
