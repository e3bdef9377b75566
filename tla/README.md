# A TLA+ model of virtio-forwarder

virtio-forwarder moves packets between the vhost-user devices of virtual
machines and SR-IOV virtual functions (VFs).  This directory holds TLA+ modules
translated from the C sources, TLC configurations that check them on small
instances, and TLAPS proofs of the most important facts for all instances.

All line numbers refer to the sources under `src/`; `PROJECT.json` maps every
definition to its lines.

## 1. The system and its parts

A *relay* (`vio_vf_relay_t`, `virtio_worker.h`) joins one vhost-user device
(*VM side*, struct `relay_virtio`) to one VF or bond of VFs (*VF side*, struct
`relay_dpdk`).  Each side has a state

    vio.state:   UNINIT -> READY -> REMOVING1 -> REMOVING2 -> UNINIT
    dpdk.state:  UNINIT -> ADDED <-> READY -> REMOVING1 -> REMOVING2 -> UNINIT

a CPU (-1 if none), a spinlock and a cache of packets.  A VF whose port waits
for a VM is ADDED, one whose port is started is READY.

Threads that touch the relays:

| thread | code | does |
|---|---|---|
| one *worker* per CPU | `worker_func`, `virtio_worker.c` 1615-1658 | polls the relays of its `active_relays`, each direction under its spinlock |
| vhost-user | `virtio_vhostuser.c` callbacks | a VM connects, leaves, begins a live migration, enables queues |
| port control: ZeroMQ *or* OVSDB *or* file monitor (main starts exactly one of them) | `zmq_port_control.c`, `ovsdb_mon.c`, `file_mon.c` | adds and removes VFs, bonds and socket/VF pairs |
| CPU scheduler requests | `zmq_core_sched.c` | moves the directions of a relay to other workers |
| statistics, configuration | `zmq_stats.c`, `zmq_config.c` | read only |
| main | `virtio_forwarder_main.c` | starts and stops all the others |

Control threads and workers share no lock around the states.  They use two
protocols instead:

* *the flag*: a control thread writes the states and the CPU of a direction and
  then sets `worker_threads[cpu].need_update`; the worker clears the flag and
  rescans all relays (`update_thread`, 1205-1222);
* *the removal handshake*: the control thread stores REMOVING1 and waits; the
  worker of that side's outgoing direction turns it into REMOVING2 (or into
  UNINIT, if no worker has the other direction), the worker of the other
  direction drops the packets and turns it into UNINIT.

Around them the memory pool of a relay is allocated, replaced
(`migrate_mempool`, 369-459) and freed, and the VF's port is probed, started,
stopped, closed and detached.

The inventory of all parts, modelled or not, is the list `components` of
`PROJECT.json`; the list `hazards` names what can go wrong in them and at which
line.

## 2. Modules

| module | role |
|---|---|
| `Relay` | the relays, their workers and the control threads (the core) |
| `MCRelay` | the configurations of CPUs that the `.cfg` files use |
| `RelayProofs` | type correctness, for every value of the constants |
| `RelayApartProofs` | a relay is in the state its operation says, devices and pools outlive their users, if operations come one at a time |
| `RelayToldProofs` | no worker misses a relay it has to forward for or to answer for, for every value of the constants |
| `ZmqServer` | one ZeroMQ server: start, thread, stop, with the main thread and its clients |
| `ZmqServerProofs` | ownership of the pipe ends and lifetime of server and service, for any clients |
| `RxQueues`, `MCRxQueues` | the receive queues of a VM: how they are announced and how a burst is spread over them |
| `RxChannel` | what `RxQueues` promises a VM, the abstract specification it implements |
| `SockPairs`, `MCSockPairs` | sockets, VFs, bonds and their relays under port control requests |
| `SockPairsProofs` | sockets and VMs stay together, for any relays, sockets and faults |
| `SockDeviceProofs` | relays share neither sockets nor devices, and requests do all or nothing, for any relays, VFs and bonds |
| `Daemon` | `main`: start, signal and shutdown, with all threads that wait for one another |
| `DaemonProofs` | types and the order of the shutdown, for any CPUs, queues and services |
| `PortMonitors` | the OVSDB monitor and the file monitor |
| `PortMonitorsProofs` | the OVSDB monitor agrees with its client process and, when it has read all, with the database, for any netdevs |

The modules share the relay at different grain.  `Relay` has every access that two
threads make to its states; `RxQueues` every access to the queue fields, with the
states reduced to the steps that matter there; `SockPairs` and `Daemon` take a
removal as "ask, be answered, clear up" and `PortMonitors` as one step, because
what they are about happens around it.

### State of `Relay`

* `relay[r]`: the fields of both structs that control flow depends on.  The
  packet caches (`tx_pkts_avail`, `rx_pkts_avail` and the buffers) are reduced to
  "not empty".  `mempool` is the pointer: NULL, a pool, or one that was freed and not
  yet replaced (`migrate_mempool`, between 401 and 402).  `vio_dev`, `vf_dev` and `vf_pool` are
  what the libraries behind the relay hold: whether the vhost device exists, the
  state of the VF's port, and which pool the port's receive queue was set up with
  (the relay's present one, or one that was freed).  Which queue a worker polls, and
  the search for the next enabled one (1247-1251), are in `Daemon`.
* `need_update[c]`: the flag of worker `c`.
* `worker[c]`: label and locals of `worker_func` (`active_relays`, the copy
  `_active_relays` it iterates over, the progress of `update_thread`).
* `ctl[t]`: label and locals of the three control threads.

### Actions

An action is a stretch of the C function of the same name that makes one access
to what other threads write concurrently; a comment says where two accesses
are one step.  `worker_func(c)` is the loop of a worker with both directions.
`Request(r)` begins an operation, `Continue(t)` does the next step of it.

| operation | code | definitions |
|---|---|---|
| VM connects | `virtio_forwarder_add_virtio` 1839-1965 | `add_virtio`, `add_virtio_body`, `migrate_mempool`, `find_virtio2vf_cpu` |
| VM leaves | `virtio_forwarder_remove_virtio` 1967-2038 | `remove_virtio`, `remove_virtio_body` |
| live migration begins | `virtio_set_lm_pending` 2301-2312 | `features_changed_cb` |
| VF added | `virtio_forwarder_add_vf2` 678-724, `configure_dev_with_virtio` 645-676 | `add_vf2`, `add_vf_body` |
| bond added | `virtio_forwarder_bond_add` 746-855 | `bond_add`, `migrate_mempool`, `add_vf_body` |
| VF removed | `virtio_forwarder_remove_vf2` 958-997, `detach_device` 907-956 | `remove_vf2`, `detach_device` |
| VM removed with its socket | `virtio_remove_sock_dev_pair`, `virtio_vhostuser.c` 913 | `remove_virtio("port", r)` |
| relay moved | `migrate_relay_cpus` 1145-1203 | `migrate_relay_cpus`, `migrate_vio`, `migrate_dpdk` |

Two places look unusual because the code is:

* `while (rte_spinlock_trylock(&relay->dpdk.sl));` (1309, and 1553 for `vio.sl`)
  ends when the trylock *fails*.  A free lock is taken, one that somebody else
  holds is passed at once; afterwards it is released in either case.  The two
  loops of `migrate_mempool` (395-398) compare with 0 and do wait.
* `worker_threads[-1].need_update = true` writes before the array, where there is
  no flag.  `Flag(NoCpu)` therefore changes nothing, and `FlagIndexValid` says
  where it cannot happen.

### Constants

* `Relays`, `Cpus`, `NoCpu`: relays, CPUs that run a worker, -1.
* `ConfCpu`: the CPUs configured with `--virtio-cpu`.  `main` refuses CPUs that run
  no worker (773-789), which is `ConfAssumption`; the check of line 1918 is thus
  never reached with a bad CPU.
* `Ops`: the operations of this instance.  `Faults`: what may fail: `timeout`
  (a wait for a worker ends before the worker answers), `start` (a port does not
  start), `refuse` (a VM with too many queues), `alloc` (no memory for a pool),
  `queues` (queue setup after a pool migration), `attach` (probe or setup of a new
  VF), `detach` (stop, close or removal of a port).
* `Apart`: if TRUE, an operation on a relay begins only when no other operation on
  it is under way and no worker is in the middle of a pass over it.  Operations on
  one relay come from different threads and nothing in the code orders them, so
  FALSE is the general case; TRUE is what an operator who waits for one command to
  take effect before giving the next gets.  A worker's pass takes microseconds.

### `ZmqServer`

The daemon runs up to four services, each in a thread of its own that `main`
starts and stops one after the other; they share nothing, so one is modelled.
`main` and `thr` are the labels of the two threads.  `fd` is the state of the four
pipe ends; `mainOwns` and `thrOwns` are the ends a thread still has in a variable
(`close_fd` skips -1).  `readyByte` and `quitByte` are the contents of the pipes,
`server` and `service` the two heap objects, `request[c]` how far a client's request
has come.

`StartCalloc` to `UnwindRelease` are `zmq_server_start` (508-576), `StopSend` to
`StopFree` are `zmq_server_stop` (578-630), the rest is `zmq_thread` and
`zmq_thread_loop` (276-440).  Reads at end of file and writes without a reader
(EPIPE; `main` ignores SIGPIPE) behave as in the code.  When a start fails `main`
exits and takes the thread with it.

`Faults` says what fails: `alloc`, `pipe`, `create` (the calls of the start), `bind`
(`init_zmq`), `slow` (two seconds pass, or `poll` fails), `write` (a pipe write or
the join), `zmq` (a call of the loop fails or is interrupted).  Left out: requests'
contents and handlers, and errors of `close` (the descriptor is given up all the
same; only the exit status differs).  The unwinding closes all ends in one step
although the code frees the server between two of them; when it has ends of both
kinds no thread exists that could see the difference.

### `RxQueues` and `RxChannel`

A VM with several queue pairs enables and disables them at run time
(`virtio_forwarder_vring_state_change`, 2040-2087).  The vhost thread writes
`rx_q_bitmap`, `pow2queues`, the table `rx_q_lut` entry by entry and `rx_q_active`, one
field per action, while the worker reads them: `dpdk_rx` (1384-1432) hashes every
packet of a burst to a queue (`calc_mbuf_queue`, 1087-1114, one packet per action),
`virtio_tx` (1434-1532) sorts the burst into rows, sends row after row and puts back
what a queue did not take.  An array index that is out of range, or a division by
zero, leads to `"undefined"`.  A burst may be sent in several passes.  `settled` is a
history variable: the queues are the first ones and have not changed since the VM
connected, which is what guests do that set their queues before traffic starts.  It
counts from the first burst that is received after the connection on (`"next"`, then
`"yes"`): `remove_virtio` clears the bitmaps (1994) before it stops the VF (2028), so a
burst may be in the array that was received in between and hashed for no VM's queues.

`RxChannel` says what this is for, without queue fields, rows or passes: a packet of
a burst is delivered once, to the queue of its flow, or freed because the VM leaves.
The refinement mapping (`Channel`) takes as pending what is in the burst array or,
inside the loop of `virtio_tx`, what was put back and the rows still to come.

### `SockPairs`

The state: `map` is `relay_ifname_map`; `vio`, `vio2vf` (the VM has a worker), `dpdk`,
`dbdf` are the fields of the relays; `ports` and `slaves` what is attached to DPDK; `driver` and `vm` the vhost
library's view of a path; `cb` the callback that waits for a worker; `ctl` the request
being handled, its fields and how far it has come.  The service has one thread, so
there is one request at a time; the vhost thread and the workers go on meanwhile.

`handle_PortControlRequest` takes any request that the validation lets pass (that is,
every combination of fields, with those that make no sense).  The next action depends
on the label: `virtio_add_sock_dev_pair`, then `init_vf` or `virtio_forwarder_bond_add`,
then the three steps of `register_relay_socket`, any of which may fail and lead to the
undoing (`virtio_forwarder_remove_vf2`, `deregister_socket`); removals go the other way.

`remove_virtio` is called by two threads, the vhost thread (`destroy_device_cb`) and the
port thread (913), and by the port thread inside `rte_vhost_driver_unregister`.  Only the
one that finds the VM READY asks and waits; another returns at once (1978).  The wait is
over (`WaitOver`) when the VM is no longer REMOVING, when it has no worker that could
answer (after a second), or at a timeout; the caller that waits misses the answer if the
VM is back at its next look (`AnswerMissed`).  Whatever ended the wait, the worker is then
taken from the VM (`Release`, 1993-1996).

`alone`, `back` and `wild` are history variables that properties need: the devices of
which it is known why no socket goes with them (added without one, or could not be
removed), the relays whose VM came back while the port thread's removal waited, and that
a failed bond has closed ports by numbers that were never set (838-853).

### `Daemon`

`main` is a sequence of labels in the order of `main()` (791-958).  The four services
are one action each way (`start_service`, `stop_service`); what a stop does to a thread
depends on its kind (`Stopped`): a ZeroMQ service is joined, however long that takes,
a monitor is cancelled after two seconds.  `remove_all_virtio`, `remove_all_vf` and
`deregister_sockets` wait for the worker as any other caller does.  A wait ends when the
worker has answered, or when it cannot answer (`Silent`: it has ended, has not begun,
or spins; or the side has no CPU).  Where a thread tests `dpdk.state`, starts or stops the
port and stores a state (1946-1958, 2025-2028, 651-669), test and store are separate
steps; `overlap` is a history variable that says that a removal of the VF was asked for
between a test and a store of the vhost thread.  `worker_func_start` sets the two flags in
two steps, which `virtio_forwarders_shutdown` may come before, between or after.  A pass
polls the queue `tx_q_rr` if no packets are left of an earlier burst (`tx_pkts`),
`virtio_rx_next` is one turn of the loop that looks for an enabled TX queue, and `dpdk_tx`
sends some of the packets, or frees them if there is no started VF.  Who adds VFs
(`kind`) makes a difference only for the stop, so it is chosen there.

### `PortMonitors`

One of the two threads runs (`kind`).  The database, its server and the client are
external and do what they can do: rows change, the server stops cleanly or dies and
leaves its socket, the client ends.  The client is none, up, ended with its pipe still
open (`eof`), or has its pipe closed and is waited for by `pclose` (`waited`), which
returns only when it ends.  `pipe` has the rows the client has written and
the thread has not read.  `thr` has the label and `ovsdb_conn_down`, `virtio_id_change`,
the command read and whether a client's PID was ever read.  The file monitor has a
writer who creates the file and writes it in two steps.  `missed` collects the netdevs of which a change was not seen or not
carried out, with the reasons the code has: no client, a pipe that was closed, a
lookup or VF operation that failed, a file that could not be opened, the value -1.

`Faults`: `lookup` and `vf` (a netdev's VF is not found, cannot be added or removed), `pid`
(the PID file of a client cannot be opened or read within the second that
`setup_ovsdb_mon` waits), `select` (fails), `open` (the command file cannot be opened).
Assumed of what is external: a client that finds no server leaves no PID file.

## 3. What the runs check

All with TLC, breadth first, no state constraint: each run explores its instance
completely.

| run | instance | properties | distinct states |
|---|---|---|---|
| `relay_one_cpu` | 1 relay, 1 worker for both directions, all operations, all faults but `timeout`, apart | `TypeOK`, `MigrationAssertsHold`, `CachedPacketsHavePool`, `FlagIndexValid` | 49,370 |
| `relay_two_cpus` | 1 relay, 2 workers, all operations, moves too; `refuse`, `alloc`, `attach`; apart | `UpdateNotLost`, `RestConsistent`, `VhostDeviceAlive`, `StartedVfHasPool` | 922,573 (workers are interchangeable) |
| `relay_race_both` | VMs and VFs, 1 worker; `timeout`; operations overlap | `ForwarderTold` | 1,028,544 |
| `relay_removals` | VMs and VFs, 2 workers, fair | `RemovalsEnd` (liveness) | 156,585 |
| `relay_assert` | bond after VF, 2 workers | violates `MigrationAssertsHold` | |
| `zmq_serve` | 2 clients; `alloc`, `pipe`, `create`, `zmq`; fair | `FreedUnreferenced`, `StopReturns`, `RequestsAnswered` (both liveness) | 633 |
| `zmq_all_faults` | 2 clients, all faults | `TypeOK`, `FdsClosedOnce`, `ReleasedOnce` | 2,407 |
| `rx_queues` | 3 queue pairs, bursts of 2, 2 flows | `TypeOK`, `BurstInArray`, `IndexesInRange`, `KeepsPromise` (refinement) | 1,276,970 |
| `rx_flow_order` | the same | violates `FlowOrder` | |
| `sock_pairs` | 2 relays, 2 paths, 2 VFs, 1 bond, all faults but `timeout`; fair | `TypeOK`, `OneToOne`, `ReadyVmAlive`, `NothingLeaked`, `AddAllOrNothing`, `RemovedIsGone`, `NullPathExplained`, `RequestsEnd` (liveness) | 837,146 |
| `daemon` | 1 worker, 2 queue pairs, 2 services; fair | `TypeOK`, `WaitersHaveWorker`, `NothingInService`, `SignalEndsDaemon`, `EnabledQueuesPolled` (both liveness) | 165,327 |
| `port_monitors` | both monitors, 2 netdevs, 2 rows in the pipe, all faults; fair | `TypeOK`, `InSync`, `ClientOfThread`, `MonitorReturns`, `CommandObeyed`, `MonitorStops` (the last three liveness) | 335,927 |

The properties, in words:

* `ForwarderTold`: a worker that has to take packets from a READY VM or a started
  READY VF has the relay in its set, or is going to rescan it, or a control thread
  is about to flag it.  This is the correctness of the flag protocol; it holds
  with overlapping operations and with timeouts (overlapping moves are covered by
  the proof only).
* `UpdateNotLost`: the same for everything `update_thread` would count, sides being
  removed included (otherwise a removal waits for a worker that never looks).
* `RestConsistent`: between operations the states, CPUs, port, device and pool of
  a relay agree.
* `VhostDeviceAlive`: when a VM's device is gone no worker is in a dequeue or
  enqueue on it; this is what the handshake is for.
* `StartedVfHasPool`, `CachedPacketsHavePool`: a pool is freed only when neither a
  started port nor a cache uses it and no worker is about to take a packet from it;
  the second looks at the pool also between its freeing and its replacement.
* `MigrationAssertsHold`: the assertions at 388-389.
* `FlagIndexValid`: no flag of worker -1.
* `RemovalsEnd`: every wait for the handshake is answered, whichever workers have
  the directions.
* `FreedUnreferenced`: server and service are freed only when the server thread has
  taken its last step.
* `FdsClosedOnce`, `ReleasedOnce`: on every path each pipe end is closed once and the
  service released once.
* `StopReturns`: `zmq_server_stop` ends, also when the thread had failed before.
* `RequestsAnswered`: a queued request is answered unless the thread fails or
  is told to stop.
* `BurstInArray`: `rx_pkts_used + rx_pkts_avail` fits the array although the path for
  one queue moves `rx_pkts_used` and the path for several does not.
* `IndexesInRange`: all indexes of `dpdk_rx` and `virtio_tx` are in range for a VM
  whose queues are settled, from the first burst received for it on.
* `KeepsPromise`: `RxQueues` implements `RxChannel`.
* `OneToOne`: the comment at `virtio_vhostuser.c` 883-888: no two relays have one
  socket, one device, or a device and the bond it is a slave of.
* `ReadyVmAlive`: a VM that is relayed is connected, on the socket of its relay, and has
  a worker unless it came back while a removal waited; while its worker has yet to answer
  a removal the device is there, unless the port thread asked and the VM left meanwhile.
* `NothingLeaked`, `AddAllOrNothing`: an addition leaves all it was asked for or nothing,
  whichever step fails, and what is attached can be found again.
* `RemovedIsGone`: after a removal that is answered with OK the socket is closed, its VM
  is not relayed even if it came back, the device is detached unless that failed before,
  the VF side of the relay is free, and the VM side unless a VM came back.
* `NullPathExplained`: the NULL path of a relay without a socket is used only for a
  device that was added alone or could not be removed.
  These four speak of devices only until a failed bond has closed ports by wrong
  numbers (`wild`), which can take a device from any relay.
* `RequestsEnd`: every request is answered, although the service waits for workers and
  for callbacks, and a VM may come back while it does.
* `WaitersHaveWorker`: no thread waits for an answer of a worker that was stopped.
* `NothingInService`: no VM is in service when the workers stop, even one that came while
  `remove_all` was at work, and no VF unless a callback overlapped its removal (below).
* `SignalEndsDaemon`: a signal ends the daemon, with the two exceptions that the code
  has (below).
* `EnabledQueuesPolled`: a TX queue that stays enabled is polled again and again,
  whatever is done to the other queues, if the VF goes on to take packets (or is not
  started, so that they are freed).
* `InSync`: when all rows were read, the VFs attached are those the database asks for.
* `ClientOfThread`: the thread has a client exactly when it believes so.
* `MonitorReturns`: with a server that is up for good the monitor has a client again and
  again, one that it reads from or one whose end it waits for, unless its client ended
  while the socket stayed.
* `CommandObeyed`: a command that is in the file before the monitor opens it is obeyed,
  unless the file cannot be opened or the VF operation fails.
* `MonitorStops`: a stop returns, whatever the thread is doing.

Every property has a mutant in the module (named after the definition it
replaces, with a comment `Mutant of`): a small change of the code under which TLC
finds the property violated.

### Why these bounds

Relays interact only through the set of a worker and its flag, so the runs of `Relay`
have one relay with all operations; that the scan of several relays loses none of them
is in the proofs, which cover any number.  The two directions of a relay have one worker each, so
two workers cover "same", "different" and, with moves, "changed meanwhile".  The
caches are used only through "empty or not".  Operations repeat without limit:
no counter had to be bounded.  Two clients are the least for which one could be
passed over for the other.

Three queue pairs are the least with a number of queues that is not a power of two
(the two ways of `calc_mbuf_queue`) and with gaps; two packets show order, loss and
repetition.  Two relays and two sockets, with as many VFs and a bond of them, are the
least for which a request can name things that belong to different relays.  With the
fault `timeout` the invariants of `SockPairs` hold as well (2.8 million states); the run
does without it because `RequestsEnd` is of interest where waits have to be answered.  Two
VFs leave no third port that a failed bond could close by a wrong number; that case is in
the proofs.  The one worker of `daemon` serves the relay; workers without a relay only start
and stop, and the proofs cover any number.  Two rows in the pipe are one modification.  The
ports do not change while a monitor is being stopped.

### Fairness

`RemovalsEnd` assumes weak fairness of every worker (it is a polling loop on a
CPU of its own and never blocks: it only tries locks) and of a control thread
that is in an operation (the operating system schedules it; the waits are timed).
No operation is required to be requested.

In `ZmqServer` both threads are weakly fair, except that the stop signal need not
come.  Strong fairness of `PollIn` says that signals do not interrupt every poll;
that of `ReceiveFrom(c)` is what a REP socket does: it takes the requests of its
peers in turn.

In `Daemon` the workers are weakly fair, and so are a callback and a port operation that
are under way; in `SockPairs` the workers' answers and a callback that has its answer.  `main`, and the service thread of `SockPairs`, are strongly fair: what can
disable their next step again and again is a new callback of the vhost thread before
`rte_vhost_driver_unregister` has the socket (the library serialises the two with a
lock and the descriptor is removed once), or a new request that the service takes
before it sees that it must stop.  Signals, VMs, VFs and requests need not come.
In `PortMonitors` the thread and a waiting `main` are weakly fair; the two seconds of
the timed wait may be over at any time.

### What the code does not guarantee

These are results about the code, not of the model's bounds:

* With `timeout`, `VhostDeviceAlive`, `CachedPacketsHavePool` and
  `StartedVfHasPool` fail: `remove_virtio` gives up after a second and takes device
  and pool from a worker that may still use them.  The passing runs therefore
  assume that a worker's pass ends within a second.
* With `queues`, `detach` or `start`, `StartedVfHasPool` fails: after a port that
  could not be set up, started or detached, later operations start or keep a port
  whose pool is gone (`add_virtio` ignores the result of `migrate_mempool`, 1913).
* With overlapping operations `RestConsistent` fails: `configure_dev_with_virtio`
  reads `vio.state` at 651 and publishes READY or ADDED at 669;
  `remove_virtio` overwrites a REMOVING1 stored since it tested for READY
  (2024-2028).
* With overlapping operations, with `timeout` or without, `FlagIndexValid` fails: of two
  removals of a VM that overlap the later one finds that the CPU was taken and indexes
  `worker_threads` with `tmpidx` = -1 (1996), and a VF that is being added while a VM
  connects may find its `vf2vio_cpu` given up for a new choice (674).
* `dpdk_rx` finds the VF READY (1393) and no migration pending (1396) and then asks the VM's
  ring for free entries (1398); `remove_virtio` waits for no worker in between, so the VM
  may be gone.  No property covers this window.
* With `bind`, `slow` or `write`, `FreedUnreferenced` fails: `zmq_server_start` and
  `zmq_server_stop` then free what the thread refers to without joining it.
* After a removal of a VF that timed out, a conditional removal logs "No action
  required; VF was already removed" (985) and succeeds although the VF is attached.
* `zmq_service.h` 115 says that the destructor runs when the last reference to the
  service drops; there is no count (`zmq_service.c` 78), and when the endpoint cannot be
  bound the thread's last log line (`zmq_server.c` 434) can come after it.
* A VM that uses other queues than its first ones, or changes them during a burst,
  makes `virtio_tx` index beyond `q_pkts` (1457, 1461) or lose packets; so may the burst
  that was in hand when a VM connected.  Hence `settled`.
* A VM that disables all its TX queues, or keeps changing them, keeps its worker in the
  loop of `virtio_rx` (1247-1251); the daemon then waits for it for ever.  A worker that
  begins after `virtio_forwarders_shutdown` has looked at its flags does not learn of the
  stop (1621).  These are the exceptions of `SignalEndsDaemon`.
* A VF that takes no packets stops the polling of all TX queues of its VM (1350).
* At the shutdown a callback that tested `dpdk.state` before `main` asked for the VF's removal
  stores READY (1958) or ADDED (2028) over it: the VF is in service when the workers stop.
* A VM that comes back between the worker's answer and the next look of the removal (1983)
  loses its worker to that removal (1992); nobody answers its own removal, and the relay's VM side
  stays REMOVING (`back`).  A VM that leaves while the port thread's removal is not answered
  yet is not waited for: `remove_virtio` of the callback returns at 1978, and the worker may
  still be at the device.
* When a slave of a bond cannot be set up, ports of other relays may be closed (838).
* A pair whose VF was added without a socket cannot be removed by its PCI address
  while other relays have sockets: the path is NULL (`virtio_vhostuser.c` 916, 152).
* A client that ends while the database's socket stays is not replaced
  (`ovsdb_mon.c` 616, 655); a port with the value -1 is not removed when it is switched
  off (483-490); rows that change while no client runs are not seen if they
  disappear; when the PID file cannot be read or `select` fails the thread waits in
  `pclose` for a client that need not end (427, 647); a monitor that is stopped before it
  has read a client's PID kills its process group (659); a command written between read
  and unlink is lost (`file_mon.c` 117), and so is one in a file that cannot be opened,
  which is removed unread (114-117).

The error exit of `virtio_remove_sock_dev_pair` after a failed `deregister_socket` (917-921)
is not such a case: `rte_vhost_driver_unregister` fails only for a path that is not
registered, and the proofs show that the path of a removal is (`DriverUse`); the NULL path
above is the one way into it.

They are listed as hazards.  Two contradict a statement in the source and are
findings, each with a run:

1. `relay_assert`: because of the inverted trylock loop the VM-to-VF worker
   frees the received packets while the VF-to-VM worker is sending them; the count
   that worker writes afterwards is not 0, and `assert(relay->dpdk.rx_pkts_avail
   == 0)` (389) fails when a bond is added to the relay.
2. `rx_flow_order`: `virtio_tx` puts the packets that a queue did not take back
   beginning with the last (1485-1489); the comment above it says "Order within a
   flow remains."

## 4. What is proved

All theorems are of the form `Spec => []P`, for every value of the constants that
the named assumptions of the module allow.  Where a theorem has a hypothesis about
`Faults` or `Apart`, section 3 says which behaviour of the code makes the property
false without it.

`RelayProofs!TypeCorrect`: `Spec => []TypeOK`, for all sets of relays and CPUs, all
configurations, operations and faults.  `TypeOK` is inductive; the proof has one
lemma per group of actions, resting on lemmas for the step forms (`WStep`,
`CStep`, `CFlag`, `Call`).  It uses the three assumptions of the module
(`CpuAssumption`, `ConfAssumption`, `OptionAssumption`).

`RelayApartProofs`, for all sets of relays and CPUs, if operations on one relay come
one at a time (`Apart`) and the workers answer in time (`"timeout" \notin Faults`):

| theorem | further hypothesis |
|---|---|
| `ApartCorrect`: `[]ApartInv` | |
| `VhostDeviceAliveCorrect`, `FlagIndexValidCorrect` | |
| `RestConsistentCorrect`, `StartedVfHasPoolCorrect` | `PortsWork`: no `start`, `queues` or `detach` fault |

`ApartInv` is `TypeOK /\ Phases /\ Passes`, and none of the four properties is inductive
without it:

* `Phases`: a relay that a control thread is at work on is as the thread's label says
  (`At`: state, CPU and device of the VM's side, the same for the VF's side, pool and
  port; the pool is there except where the thread is about to make, replace or drop it);
  one that nobody is at work on is at rest (`Rest`); two threads are never at
  work on one relay.  A step of a control thread takes `At` of its label to `At`
  of the next one, and leaves the relays of the other threads alone.
* `Passes`: what a worker at each label of a pass knows of its relay (`Seen`: one that
  dequeues has a VM in READY or REMOVING1, one that enqueues a VM that is not UNINIT), and
  in which operations it can be there (`Meets`).  While a VM is being removed a
  worker in a section of the relay is the one whose CPU the relay has for that direction:
  the states that end the wait are written by that very worker, after its section.
  `Apart` is needed where an operation begins, the absence of `timeout` where a wait ends.
* With `PortsWork` the port is in the phases as well (`PortAt`): started, stopped or
  detached, and which pool its queue has.

`RelayToldProofs` is about `Told(k)`: a worker that has to forward for a side of a relay
(`k = "forwarding"`), or to look at it at all (`k = "all"`, a side being removed included),
has the relay in its set, or is going to rescan it, or a control thread is about to flag
it.  The two theorems are

* `ForwarderToldCorrect`: `Spec => []ForwarderTold` if `"start" \notin Faults`, with
  operations that overlap or not, and with every other fault;
* `UpdateNotLostCorrect`: `Spec => []UpdateNotLost` if `Apart`, no `timeout` and
  `PortsWork`; here `ApartCorrect` says that the side which a removal marks was counted
  before, so that its worker knows of it.

The argument, common to both:

* `Told(k)` is inductive together with `TypeOK` (and `ApartInv`).  What makes it so is that
  it names the labels between the write of a CPU or state and the write of the
  flag (`WillFlagVm`, `WillFlagVf`): a thread at such a label is a promise.
* A worker's step either changes nothing that `Knows` depends on, or turns
  "flag" into "relay still to be scanned" (`worker_func_head`), or "to be scanned"
  into "in the new set" (`update_thread`; here `Serves` must hold, which the state and
  the CPU give), or stores the set (`WorkerLoopTold`).
* Steps of a pass, and most steps of control threads, only take away premises;
  the relation `Keeps` between the old and the new relay captures that, and `CStepKeeps`,
  `WorkerPassTold` use it.
* Steps that publish (`av_ready`, `af_state`, `av_vf_ready`, the choice of a CPU
  and a move) lead to a promise label, and a promise is left only by the flag.
* The one step that breaks a promise is a port that fails to start in
  `add_virtio` (1951-1957): the CPU was chosen again and nobody is flagged.  Hence
  the hypothesis on `start`; the port is then not READY until a VM connects anew, but a
  concurrent operation may see it started.

`ZmqServerProofs`, for any set of clients:

* `ZmqTypeCorrect`: `Spec => []TypeOK`.
* `ZmqFdsClosedOnce`, `ZmqReleasedOnce`: with every fault.  The inductive invariants
  are `OwnInv` (an end is open exactly while one thread has it, and the label of
  each thread says which ends it can have) and `HeldInv` (which label of `main` goes
  with which state of the two objects).
* `ZmqFreedUnreferenced`: without `bind`, `slow` and `write` (`ThreadKept`).
  `LifeInv` adds why `main` cannot give up on a thread it started: while it waits,
  the ready event is still to come or already in the pipe.

`DaemonProofs`, for any CPUs, number of queue pairs and services in use:

* `WaitersHaveWorkerAlways`: `Spec => []WaitersHaveWorker`.
* `NothingInServiceAlways`: `Spec => []NothingInService`.
* `TypeCorrect`: `Spec => []TypeOK`.

They rest on `Types /\ Order`, which is inductive.  `Order` says what can no longer
happen when `main` has come to a label: the workers are told to stop last
(`WorkersLast`), when the sockets are closed and no callback is under way
(`SocketsClosed`), and the thread that adds VFs was stopped (`PortsStopped`).  A VM could
be READY again if a socket were open, a VF ADDED again if the thread were up.  For
`NothingInService` the invariant has `VfKept` as well: after its removal the VF is not in
service and no callback is between a test and a store of its state (`VfRemoved`), unless
the removal was asked for in such a window (`overlap`); and a VF in service has a worker,
so that it is asked for.  There is a lemma for the steps of a worker, of the vhost and port
threads and of `main`.

`SockPairsProofs!ReadyVmAliveAlways`: `Spec => []ReadyVmAlive`, for any relays, sockets,
devices and faults, `timeout` included.  The inductive invariant is
`Types /\ SocketInv /\ WorkInv`.  `SocketInv`:

* no two relays have one socket (`OnePath`), because while a pair is being added its
  path and its relay stay out of the map (`PathFree`): only the service's thread
  writes the map, and it handles one request at a time;
* a path whose device is being destroyed has no READY VM and gets none until the
  destruction is over (`NotReady`), whether a callback waits for the worker or the
  service's thread does, and even if that wait times out.

Only then is a socket closed or a VM gone when its relay is not READY.  `WorkInv` is about
the waits:

* the device that is being destroyed is there until the wait is over, and one thread
  destroys it (`DeviceKept`);
* a VM that is relayed has a worker unless it came back (`HasWorker`), and a VM that is
  READY, or in a removal of the vhost thread, while the service's thread still waits for
  the answer of its own removal, came back (`MissedAnswer`);
* without timeouts somebody waits for every answer that a worker has yet to give
  (`Waited`), and only if that is the service's own removal may the device go meanwhile.

`SockDeviceProofs`, with the same generality (any relays, sockets, VFs, bonds and faults,
`timeout` included): `TypeCorrect`, `OneToOneAlways`, `NothingLeakedCorrect`,
`AddAllOrNothingCorrect`, `RemovedIsGoneCorrect` and `NullPathExplainedCorrect`.
The inductive invariant is `Types /\ SocketInv /\ WorkInv /\ PairInv`, where `PairInv` says

* what the request under way has done at each of its labels (`Stages`): which socket is
  open, which relay has a device, what an addition has to undo and what a removal has
  already closed.  At the label `reply` this is what the properties ask for;
* that a socket is open only while a relay has it or an addition is at it (`DriverUse`);
* that without timeouts the service waits for every answer about a VF (`Waits`), so that
  a removal that was answered leaves no VF half removed;
* that all a relay has, a bond's slaves too, is attached and belongs to no other relay
  (`OwnDevices`), that it goes with the relay's socket unless it is known why not
  (`Explained`), and that all that is attached belongs to a relay unless it is known why
  not (`Placed`).  These three, together `Devices`, hold until a failed bond has
  closed ports by wrong numbers (`wild`).

There is one lemma per group of actions.  Most steps attach, detach, open and close
nothing (`SamePair`, `QuietPair`); for the others the lemma shows where each device goes.

Both modules use `SockAssumption`: the default sockets differ, and VFs and bonds have
different names.

`PortMonitorsProofs`, for any finite set of netdevs (`MonitorAssumption`; the database
sends a row for each when a client connects), any length of the pipe and all faults:

* `ClientOfThreadAlways`: `Spec => []ClientOfThread`.  `ClientInv` adds which labels each
  monitor has and what the thread believes at each of them.
* `TypeCorrect`: `Spec => []TypeOK`.
* `InSyncCorrect`: `Spec => []InSync`.  That the pipe is empty says nothing of the rows
  that were in it before, so the invariant (`Sync`) speaks of a history of the table
  that explains the rows still in the pipe (`Follows`): it begins with a table for which
  the right VFs are attached (`Carried`) and leads to the table of the database, as long as
  the client is up (`LeadsTo`).  Between the two rows of a modification the thread
  remembers what the first one said (`Half`).  A row that is written extends the history at
  its end, one that is read shortens it at its head (`FollowsAppend`, `FollowsTail`), and a
  client that connects begins a new one.  Netdevs in `missed` are exempt throughout.

Only model-checked:

* all liveness properties (`RemovalsEnd`, `StopReturns`, `RequestsAnswered`, `RequestsEnd`,
  `SignalEndsDaemon`, `EnabledQueuesPolled`, `MonitorReturns`, `CommandObeyed`,
  `MonitorStops`): TLAPS does not reason about fairness and `ENABLED`;
* `MigrationAssertsHold` and `CachedPacketsHavePool`, which the code guarantees only for a
  relay with one worker for both directions;
* `RxQueues` and its refinement of `RxChannel`: the choice of a queue uses bitwise
  arithmetic that the provers do not know, and that the rows of a burst hold the
  packets of the burst needs induction over the burst.

## 5. What is left out

Of the code in `Relay`: the build variants `VIRTIO_ECHO` and DPDK before 16.07;
packet contents, sizes and statistics; the choice of queues (a burst is one
step); the loads and NUMA nodes by which `naive_get_idlest_worker` chooses (any
worker may be chosen); PCI addresses (a refusal because of them is a choice of
`remove_vf2`); the slaves of a bond (one port; a bond that cannot be created
returns before anything changes).  Memory is sequentially
consistent: states and flags are `volatile`, x86 keeps the order of stores, and
the one place where a store must be seen before later loads, the clearing of
`need_update`, is followed by `__sync_synchronize()` (1210).

In `RxQueues` the hash of a packet is a constant of its flow.  `SockPairs` leaves out
the owner and mode of a socket and the features it offers, and takes it that probing a
device that is attached fails and that `rte_vhost_driver_unregister` waits for a
callback under way.  `Daemon` has one relay.  `PortMonitors` abstracts the scanners of
CSV lines and maps to what they return.

## 6. Not modelled

* The command line (`cmdline.c`, `argv.c`, option parsing in
  `virtio_forwarder_main.c`): a sequential conversion before any thread exists.
* Statistics and configuration queries: they read and format, and change nothing that
  another thread reads.
* The loop of `zmq_core_sched.c` over the relays of a request: the state change in it
  is `migrate_relay_cpus`, an operation of `Relay`, and its thread is `ZmqServer`'s.
* The Python load balancer: a separate process whose decisions come from floating
  point rates; what reaches the daemon is a request to move a relay to any worker.
* Pure input and output (logging, `cpuinfo.c`, `sriov.c`, `ugid.c`, `dpdk_eal.c`, the
  Python clients, the start-up scripts) and generated message code.
