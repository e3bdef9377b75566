------------------------------- MODULE Daemon -------------------------------
(***************************************************************************)
(* The life of the daemon: main() (virtio_forwarder_main.c) starts the     *)
(* workers, the vhost-user sockets and the services in turn, waits for a   *)
(* signal and stops them again, while VMs come and go, the port service    *)
(* adds and removes VFs and the workers poll.  A removal is asked of the   *)
(* worker and waited for, here in one exchange (Relay has the details).    *)
(* One relay.  Where a thread tests the state of the VF, has its port      *)
(* started or stopped and then stores a state, these are separate steps.   *)
(* The worker polls the VM's TX queues in turn (virtio_rx), and does       *)
(* nothing else until it has found an enabled one.                         *)
(***************************************************************************)
EXTENDS Integers, FiniteSets

CONSTANTS
  Cpus,       \* the CPUs of the workers
  cpu,        \* the worker of the relay
  MaxPairs,   \* max_queue_pairs of a VM
  Used        \* the services in use: use_zmq_config, _stats, _core_sched; "ports" always

Pairs == 0 .. MaxPairs - 1
Services == {"config", "stats", "ports", "sched"}

ASSUME DaemonAssumption == cpu \in Cpus /\ MaxPairs \in Nat \ {0}
ASSUME UsedAssumption == Used \subseteq Services /\ "ports" \in Used

VARIABLES
  main,      \* where main() is: label, the service at hand, workers to tell
  must_stop, \* main's flags must_stop and running
  running,
  pidfile,   \* the PID file exists
  th,        \* the threads of the services
  kind,      \* who adds VFs: "zmq" (use_zmq_port_control) or "monitor" (OVSDB or file);
             \* "any" until it matters, which is when the services are stopped
  vhost,     \* the vhost thread: socket open, VM connected, where a callback is
  relay,     \* state of both sides, whether they have a CPU (vio2vf_cpu, vf2vio_cpu >= 0),
             \* tx_q_bitmap, tx_q_rr, tx_pkts_avail # 0; history: overlap
  worker     \* worker_threads[]: where it is, running, must_stop

vars == <<main, must_stop, running, pidfile, th, kind, vhost, relay, worker>>
Flags == <<must_stop, running, pidfile>>

Exited == main.pc \in {"exited", "done"}

-----------------------------------------------------------------------------
(* Workers *)

Worker(c, at, pc) == worker[c].pc = at /\ worker' = [worker EXCEPT ![c].pc = pc]

\* Mutant of worker_func_start: the flags are not set.
worker_func_start_not_running(c) ==
  \/ Worker(c, "launched", "started") /\ UNCHANGED relay
  \/ /\ worker[c].pc = "started"
     /\ worker' = [worker EXCEPT ![c] = [worker[c] EXCEPT !.pc = "loop", !.must_stop = FALSE]]
     /\ UNCHANGED relay

\* running = true, then must_stop = false.
worker_func_start(c) ==
  \/ /\ worker[c].pc = "launched"
     /\ worker' = [worker EXCEPT ![c] = [worker[c] EXCEPT !.pc = "started", !.running = TRUE]]
     /\ UNCHANGED relay
  \/ /\ worker[c].pc = "started"
     /\ worker' = [worker EXCEPT ![c] = [worker[c] EXCEPT !.pc = "loop", !.must_stop = FALSE]]
     /\ UNCHANGED relay

worker_func_loop(c) ==
  \/ /\ worker[c].pc = "loop" /\ worker[c].must_stop
     /\ worker' = [worker EXCEPT ![c] = [worker[c] EXCEPT !.pc = "ended", !.running = FALSE]]
     /\ UNCHANGED relay
  \/ /\ ~worker[c].must_stop /\ c = cpu
     /\ Worker(c, "loop", IF relay.vio2vf THEN "virtio_rx" ELSE "removals")
     /\ UNCHANGED relay

\* relay_vm2vf_traffic: while packets of an earlier burst are left no queue is
\* polled.  virtio_rx: the queue tx_q_rr is polled if the VM is READY ...
virtio_rx(c) ==
  \/ relay.tx_pkts /\ Worker(c, "virtio_rx", "dpdk_tx") /\ UNCHANGED relay
  \/ /\ ~relay.tx_pkts /\ relay.vio # "READY"
     /\ Worker(c, "virtio_rx", "removals") /\ UNCHANGED relay
  \/ /\ ~relay.tx_pkts /\ relay.vio = "READY"
     /\ Worker(c, "virtio_rx", "next_queue")
     /\ \E rcvd \in BOOLEAN :
          /\ rcvd => relay.tx_q_rr \in relay.tx_q_bitmap
          /\ relay' = [relay EXCEPT !.tx_pkts = rcvd]

\* Mutant of NextQueue: max_queue_pairs is taken for a queue pair.
NextQueue_past(q) == IF q + 1 > MaxPairs THEN 0 ELSE q + 1

NextQueue(q) == IF q + 1 >= MaxPairs THEN 0 ELSE q + 1

\* Mutant of virtio_rx_next: the last queue is passed over.
virtio_rx_next_skip(c) ==
  LET rr == IF relay.tx_q_rr + 1 >= MaxPairs - 1 THEN 0 ELSE relay.tx_q_rr + 1 IN
  /\ Worker(c, "next_queue", IF rr \in relay.tx_q_bitmap THEN "dpdk_tx" ELSE "next_queue")
  /\ relay' = [relay EXCEPT !.tx_q_rr = rr]

\* ... and tx_q_rr is moved on until it is an enabled queue.
virtio_rx_next(c) ==
  LET rr == NextQueue(relay.tx_q_rr) IN
  /\ Worker(c, "next_queue", IF rr \in relay.tx_q_bitmap THEN "dpdk_tx" ELSE "next_queue")
  /\ relay' = [relay EXCEPT !.tx_q_rr = rr]

\* dpdk_tx: a started VF takes as much as it likes, without one the packets
\* are freed.
dpdk_tx(c) ==
  /\ Worker(c, "dpdk_tx", "removals")
  /\ \E left \in BOOLEAN :
       /\ left => relay.tx_pkts /\ relay.dpdk = "READY"
       /\ relay' = [relay EXCEPT !.tx_pkts = left]

\* A removal is answered by the worker of the side's own direction; if the
\* other direction has a worker too the cached packets are freed.
AnswersVirtio == relay.vio = "REMOVING" /\ relay.vio2vf
AnswersVf == relay.dpdk = "REMOVING" /\ relay.vf2vio

\* The rest of the pass answers the removals it finds.
worker_removals(c) ==
  /\ Worker(c, "removals", "loop")
  /\ relay' = [relay EXCEPT !.vio = IF AnswersVirtio THEN "UNINIT" ELSE @,
                            !.dpdk = IF AnswersVf THEN "UNINIT" ELSE @,
                            !.tx_pkts = @ /\ ~(AnswersVirtio /\ relay.vf2vio)
                                          /\ ~(AnswersVf /\ relay.vio2vf)]

worker_func(c) ==
  /\ ~Exited
  /\ \/ worker_func_start(c) \/ worker_func_loop(c)
     \/ virtio_rx(c) \/ virtio_rx_next(c) \/ dpdk_tx(c) \/ worker_removals(c)
  /\ UNCHANGED <<main, Flags, th, kind, vhost>>

\* The worker spins in virtio_rx: no TX queue of its VM is enabled.
Spins == worker[cpu].pc = "next_queue" /\ relay.tx_q_bitmap = {}

\* A worker that will not answer within the second that a removal waits.
Silent == Spins \/ worker[cpu].pc \in {"off", "launched", "started", "ended"}

-----------------------------------------------------------------------------
(* virtio_forwarder_remove_virtio in four parts: ask, wait, clear up, and    *)
(* stop the VF if it was READY when looked at.  A timeout is only logged.  It *)
(* also ends the wait of a caller who missed the answer because the VM was   *)
(* back before the state was looked at again.                                *)

AskVirtio == relay' = [relay EXCEPT !.vio = "REMOVING"]
VirtioAnswer == relay.vio # "REMOVING" \/ Silent \/ ~relay.vio2vf
ClearVirtio == relay' = [relay EXCEPT !.vio2vf = FALSE, !.tx_q_bitmap = {}]
StopVf == relay' = [relay EXCEPT !.dpdk = "ADDED"]

InService == relay.dpdk \in {"ADDED", "READY"}

\* The vhost thread has tested dpdk.state and is going to store it.
Window == vhost.pc \in {"starting", "stopping"}

\* virtio_forwarder_remove_vf2: a VF that has a worker is asked for; a timeout
\* ends the removal with an error, an answer takes the CPU away.
AskVf == relay' = [relay EXCEPT !.dpdk = "REMOVING", !.overlap = @ \/ Window]
VfAnswer == relay.dpdk # "REMOVING" \/ Silent
ClearVf == relay' = [relay EXCEPT !.vf2vio = @ /\ relay.dpdk # "UNINIT"]

-----------------------------------------------------------------------------
(* The vhost thread *)

Vhost(at, pc, dev) == vhost.sock /\ vhost.pc = at /\ vhost' = [vhost EXCEPT !.pc = pc, !.dev = dev]

\* add_virtio: a relay in use refuses the VM; then a VF that is ADDED (tested
\* in the same step, as no step of another thread depends on the order) gets a
\* CPU, its port is started and it becomes READY, if the start succeeds.
new_device_cb ==
  \/ /\ ~vhost.dev /\ relay.vio = "UNINIT"
     /\ Vhost("idle", IF relay.dpdk = "ADDED" THEN "starting" ELSE "idle", TRUE)
     /\ relay' = [relay EXCEPT !.vio = "READY", !.vio2vf = TRUE, !.tx_q_rr = 0,
                               !.vf2vio = @ \/ relay.dpdk = "ADDED"]
  \/ /\ Vhost("starting", "idle", TRUE)
     /\ \E st \in {relay.dpdk, "READY"} : relay' = [relay EXCEPT !.dpdk = st]

vring_state_change_cb ==
  /\ Vhost("idle", "idle", vhost.dev)
  /\ \E q \in Pairs :
       relay' = [relay EXCEPT !.tx_q_bitmap = IF q \in @ THEN @ \ {q} ELSE @ \cup {q}]

destroy_device_cb ==
  \/ vhost.dev /\ relay.vio = "READY" /\ Vhost("idle", "wait", TRUE) /\ AskVirtio
  \/ vhost.dev /\ relay.vio # "READY" /\ Vhost("idle", "idle", FALSE) /\ UNCHANGED relay
  \/ VirtioAnswer /\ relay.dpdk = "READY" /\ Vhost("wait", "stopping", TRUE) /\ ClearVirtio
  \/ VirtioAnswer /\ relay.dpdk # "READY" /\ Vhost("wait", "idle", FALSE) /\ ClearVirtio
  \/ Vhost("stopping", "idle", FALSE) /\ StopVf

VhostThread ==
  /\ ~Exited
  /\ new_device_cb \/ vring_state_change_cb \/ destroy_device_cb
  /\ UNCHANGED <<main, Flags, th, kind, worker>>

-----------------------------------------------------------------------------
(* The thread that adds and removes VFs: port control, file or OVSDB monitor *)

Ports(at, st) == th["ports"] = at /\ th' = [th EXCEPT !["ports"] = st]

Publish(st) == relay' = [relay EXCEPT !.dpdk = st, !.vf2vio = TRUE]

\* configure_dev_with_virtio: the port is started for a VM that is READY when
\* looked at, which may fail, and the state stored afterwards.
add_vf ==
  \/ relay.dpdk = "UNINIT" /\ relay.vio = "READY" /\ Ports("up", "starting") /\ UNCHANGED relay
  \/ relay.dpdk = "UNINIT" /\ relay.vio # "READY" /\ Ports("up", "adding") /\ UNCHANGED relay
  \/ Ports("starting", "up") /\ (Publish("READY") \/ UNCHANGED relay)
  \/ Ports("adding", "up") /\ Publish("ADDED")

remove_vf ==
  \/ InService /\ relay.vf2vio /\ Ports("up", "busy") /\ AskVf
  \/ InService /\ ~relay.vf2vio /\ Ports("up", "up") /\ UNCHANGED relay
  \/ VfAnswer /\ Ports("busy", "up") /\ ClearVf

PortsThread ==
  /\ ~Exited
  /\ add_vf \/ remove_vf
  /\ UNCHANGED <<main, Flags, kind, vhost, worker>>

-----------------------------------------------------------------------------
(* main() *)

Main(at, pc) == main.pc = at /\ main' = [main EXCEPT !.pc = pc]

\* exit() or return in the middle of the start: the PID file stays.
Fail(at) ==
  /\ Main(at, "exited")
  /\ UNCHANGED <<Flags, th, kind, vhost, relay, worker>>

\* create_daemon_file (another daemon may have the lock), configure_signals.
create_daemon_file ==
  \/ Fail("init")
  \/ /\ Main("init", "eal") /\ pidfile' = TRUE
     /\ UNCHANGED <<must_stop, running, th, kind, vhost, relay, worker>>

dpdk_eal_initialize ==
  \/ Fail("eal")
  \/ Main("eal", "launch") /\ UNCHANGED <<Flags, th, kind, vhost, relay, worker>>

\* virtio_forwarders_initialize: launch the workers, add the static VFs.
virtio_forwarders_initialize ==
  /\ Main("launch", "sockets")
  /\ worker' = [c \in Cpus |-> [worker[c] EXCEPT !.pc = "launched"]]
  /\ Publish("ADDED") \/ UNCHANGED relay
  /\ UNCHANGED <<Flags, th, kind, vhost>>

\* The rest of virtio_vhostuser_start: VMs can connect from now on.
register_sockets ==
  \/ Fail("sockets")
  \/ /\ Main("sockets", "start") /\ vhost' = [vhost EXCEPT !.sock = TRUE]
     /\ UNCHANGED <<Flags, th, kind, relay, worker>>

\* Services are started in this order and stopped in the opposite one.
StartNext == [config |-> "stats", stats |-> "ports", ports |-> "sched", sched |-> "sched"]
StopNext == [sched |-> "ports", ports |-> "stats", stats |-> "config", config |-> "config"]

start_service ==
  \/ Fail("start")
  \/ /\ main.pc = "start"
     /\ main' = [main EXCEPT !.s = StartNext[@], !.pc = IF main.s = "sched" THEN "run" ELSE @]
     /\ th' = [th EXCEPT ![main.s] = IF main.s \in Used THEN "up" ELSE "none"]
     /\ UNCHANGED <<Flags, kind, vhost, relay, worker>>

\* The main loop, which looks at must_stop every 100 ms.
main_loop ==
  /\ main.pc = "run" /\ must_stop
  /\ main' = [main EXCEPT !.pc = "stop", !.s = "sched"]
  /\ running' = FALSE /\ kind' \in {"zmq", "monitor"}
  /\ UNCHANGED <<must_stop, pidfile, th, vhost, relay, worker>>

\* What a stop leaves of a thread.  One that is adding or removing a VF:
\* zmq_server_stop joins it, however long it takes; ovsdb_mon_stop and
\* file_mon_stop cancel it after two seconds, which leaves its work half done.
Stopped(s) ==
  CASE th[s] = "none" -> {"none"}
    [] th[s] \in {"starting", "adding", "busy"} -> IF kind = "zmq" THEN {} ELSE {"ended"}
    [] OTHER -> {"ended"}

stop_service ==
  /\ main.pc = "stop"
  /\ \E st \in Stopped(main.s) : th' = [th EXCEPT ![main.s] = st]
  /\ main' = [main EXCEPT !.s = StopNext[@], !.pc = IF main.s = "config" THEN "remove_virtio" ELSE @]
  /\ UNCHANGED <<Flags, kind, vhost, relay, worker>>

\* virtio_forwarders_remove_all: the VM, then the VF.
remove_all_virtio ==
  /\ \/ relay.vio = "READY" /\ Main("remove_virtio", "wait_virtio") /\ AskVirtio
     \/ relay.vio # "READY" /\ Main("remove_virtio", "remove_vf") /\ UNCHANGED relay
     \/ /\ VirtioAnswer /\ relay.dpdk = "READY"
        /\ Main("wait_virtio", "stop_virtio") /\ ClearVirtio
     \/ /\ VirtioAnswer /\ relay.dpdk # "READY"
        /\ Main("wait_virtio", "remove_vf") /\ ClearVirtio
     \/ Main("stop_virtio", "remove_vf") /\ StopVf
  /\ UNCHANGED <<Flags, th, kind, vhost, worker>>

\* Mutant of remove_all_vf: a VF whose port is started is passed over.
remove_all_vf_added ==
  /\ \/ relay.dpdk = "ADDED" /\ relay.vf2vio /\ Main("remove_vf", "wait_vf") /\ AskVf
     \/ /\ relay.dpdk # "ADDED" \/ ~relay.vf2vio
        /\ Main("remove_vf", "close") /\ UNCHANGED relay
     \/ VfAnswer /\ Main("wait_vf", "close") /\ ClearVf
  /\ UNCHANGED <<Flags, th, kind, vhost, worker>>

remove_all_vf ==
  /\ \/ InService /\ relay.vf2vio /\ Main("remove_vf", "wait_vf") /\ AskVf
     \/ ~(InService /\ relay.vf2vio) /\ Main("remove_vf", "close") /\ UNCHANGED relay
     \/ VfAnswer /\ Main("wait_vf", "close") /\ ClearVf
  /\ UNCHANGED <<Flags, th, kind, vhost, worker>>

\* main closes the socket and removes the VM of the connected device itself.
CloseVm ==
  /\ relay.vio = "READY" /\ Main("close", "wait_close") /\ AskVirtio
  /\ vhost' = [vhost EXCEPT !.sock = FALSE]

CloseIdle ==
  /\ relay.vio # "READY" /\ Main("close", "shutdown") /\ UNCHANGED relay
  /\ vhost' = [vhost EXCEPT !.sock = FALSE, !.dev = FALSE]

Closed ==
  /\ \/ /\ VirtioAnswer /\ relay.dpdk = "READY"
        /\ Main("wait_close", "stop_close") /\ ClearVirtio
     \/ /\ VirtioAnswer /\ relay.dpdk # "READY"
        /\ Main("wait_close", "shutdown") /\ ClearVirtio
     \/ Main("stop_close", "shutdown") /\ StopVf
  /\ vhost' = [vhost EXCEPT !.dev = FALSE]

\* Mutant of deregister_sockets: a callback may be under way.
deregister_sockets_at_once ==
  /\ CloseVm \/ CloseIdle \/ Closed
  /\ UNCHANGED <<Flags, th, kind, worker>>

\* deregister_socket for every socket: no callback is under way, and the VM
\* that is connected is destroyed, by this thread.
deregister_sockets ==
  /\ (vhost.pc = "idle" /\ (CloseVm \/ CloseIdle)) \/ Closed
  /\ UNCHANGED <<Flags, th, kind, worker>>

\* virtio_forwarders_shutdown: tell every worker that is running, then wait
\* for all of them.
virtio_forwarders_shutdown ==
  /\ \/ \E c \in main.todo :
          /\ main.pc = "shutdown"
          /\ main' = [main EXCEPT !.todo = @ \ {c}]
          /\ worker' = [worker EXCEPT ![c].must_stop = IF worker[c].running THEN TRUE ELSE @]
     \/ main.todo = {} /\ Main("shutdown", "join") /\ UNCHANGED worker
  /\ UNCHANGED <<Flags, th, kind, vhost, relay>>

\* Then virtiofwd_shutdown removes the PID file and main returns.
virtiofwd_shutdown ==
  /\ \A c \in Cpus : worker[c].pc = "ended"
  /\ Main("join", "done") /\ pidfile' = FALSE
  /\ UNCHANGED <<must_stop, running, th, kind, vhost, relay, worker>>

MainThread ==
  \/ create_daemon_file \/ dpdk_eal_initialize \/ virtio_forwarders_initialize
  \/ register_sockets \/ start_service \/ main_loop \/ stop_service
  \/ remove_all_virtio \/ remove_all_vf \/ deregister_sockets
  \/ virtio_forwarders_shutdown \/ virtiofwd_shutdown

\* SIGINT or SIGTERM, if the main thread handles it.
sig_handler ==
  /\ ~Exited /\ main.pc # "init" /\ running /\ ~must_stop
  /\ must_stop' = TRUE
  /\ UNCHANGED <<main, running, pidfile, th, kind, vhost, relay, worker>>

Init ==
  /\ main = [pc |-> "init", s |-> "config", todo |-> Cpus]
  /\ must_stop = FALSE /\ running = TRUE /\ pidfile = FALSE
  /\ th = [s \in Services |-> "none"]
  /\ kind = "any"
  /\ vhost = [sock |-> FALSE, dev |-> FALSE, pc |-> "idle"]
  /\ relay = [vio |-> "UNINIT", dpdk |-> "UNINIT", vio2vf |-> FALSE, vf2vio |-> FALSE,
              tx_q_bitmap |-> {}, tx_q_rr |-> 0, tx_pkts |-> FALSE, overlap |-> FALSE]
  /\ worker = [c \in Cpus |-> [pc |-> "off", running |-> FALSE, must_stop |-> FALSE]]

Next ==
  \/ MainThread \/ sig_handler \/ VhostThread \/ PortsThread
  \/ \E c \in Cpus : worker_func(c)

Spec == Init /\ [][Next]_vars

\* The threads run: workers, main, and a thread that is in a callback or a
\* request goes on when it can.  main is strongly fair: a thread told to stop takes no
\* other request, and the vhost library lets no new callback pass a caller that
\* waits to close the socket.  Nobody need send a signal, connect a VM or add a
\* VF.
FairSpec ==
  /\ Spec
  /\ \A c \in Cpus : WF_vars(worker_func(c))
  /\ SF_vars(MainThread)
  /\ WF_vars(VhostThread /\ vhost.pc # "idle")
  /\ WF_vars(PortsThread /\ th["ports"] \in {"starting", "adding", "busy"})

-----------------------------------------------------------------------------
(* Properties *)

\* The type invariant; tx_q_rr is one of the VM's queue pairs.
TypeOK ==
  /\ main \in [pc : {"init", "eal", "launch", "sockets", "start", "run", "stop", "remove_virtio",
                     "wait_virtio", "stop_virtio", "remove_vf", "wait_vf", "close", "wait_close",
                     "stop_close", "shutdown", "join", "done", "exited"},
               s : Services, todo : SUBSET Cpus]
  /\ {must_stop, running, pidfile} \subseteq BOOLEAN
  /\ th \in [Services -> {"none", "up", "starting", "adding", "busy", "ended"}]
  /\ kind \in {"any", "zmq", "monitor"}
  /\ vhost \in [sock : BOOLEAN, dev : BOOLEAN, pc : {"idle", "starting", "wait", "stopping"}]
  /\ relay \in [vio : {"UNINIT", "READY", "REMOVING"},
                dpdk : {"UNINIT", "ADDED", "READY", "REMOVING"}, vio2vf : BOOLEAN, vf2vio : BOOLEAN,
                tx_q_bitmap : SUBSET Pairs, tx_q_rr : Pairs, tx_pkts : BOOLEAN, overlap : BOOLEAN]
  /\ worker \in [Cpus -> [pc : {"off", "launched", "started", "loop", "virtio_rx", "next_queue",
                               "dpdk_tx", "removals", "ended"},
                          running : BOOLEAN, must_stop : BOOLEAN]]

\* A thread that waits for a worker to answer a removal waits for a worker
\* that has not ended: main stops the services, closes the sockets and makes
\* its own removals before it stops the workers.
WaitersHaveWorker ==
  (main.pc \in {"wait_virtio", "wait_vf", "wait_close"} \/ vhost.pc = "wait" \/ th["ports"] = "busy")
    => worker[cpu].pc # "ended"

\* When the workers are told to stop no VM is in service, even if one connects
\* while remove_all is at work, and no VF, with one exception: a callback that
\* had tested the VF's state before its removal was asked for, and starts or
\* stops the port meanwhile, stores READY (1958) or ADDED (2028) over the
\* removal (overlap).
NothingInService ==
  main.pc \in {"shutdown", "join", "done"} => relay.vio # "READY" /\ (InService => relay.overlap)

\* A worker is told to stop before worker_func has set its flags: main takes
\* it for one that does not run, or worker_func clears the request.
Late == main.pc = "shutdown" /\ \E c \in Cpus : worker[c].pc \in {"launched", "started"}

\* A signal that the main thread handles, at any time of the start or later,
\* ends the daemon, unless a worker never leaves the loop of virtio_rx that
\* looks for an enabled TX queue (1247-1251), because there is none or because
\* the VM keeps changing them, or began so late that it can miss the request
\* to stop.
SignalEndsDaemon ==
  <>must_stop => <>(Exited \/ Late \/ [](worker[cpu].pc = "next_queue"))

\* The queues of a VM are polled in turn: a TX queue that stays enabled is
\* polled again and again, whatever is done with the other queues, as long as
\* the VF goes on to take what it is given (or is not started, so that packets
\* are freed).  A VF that takes nothing stops all polling (1350).
EnabledQueuesPolled ==
  \A q \in Pairs :
    /\ <>[](~Exited /\ relay.vio = "READY" /\ relay.vio2vf /\ q \in relay.tx_q_bitmap)
    /\ []<>~relay.tx_pkts
    => []<>(worker[cpu].pc = "virtio_rx" /\ ~relay.tx_pkts /\ relay.tx_q_rr = q)
=============================================================================
