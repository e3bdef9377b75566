----------------------------- MODULE SockPairs -----------------------------
(***************************************************************************)
(* Sockets and their relays (virtio_vhostuser.c) under the requests of the *)
(* port control service (zmq_port_control.c).  A request is handled in     *)
(* several steps by the service's thread while the vhost thread reports    *)
(* VMs that come and go on the sockets, and workers answer removals.       *)
(* State ADDED stands for DPDK_ADDED and DPDK_READY: whether the VF's port *)
(* is started, and the handshakes themselves, are in Relay.                *)
(***************************************************************************)
EXTENDS Integers, FiniteSets

CONSTANTS
  MaxRelays,     \* MAX_RELAYS
  Paths,         \* paths of vhost-user sockets
  Vfs,           \* PCI addresses
  Bonds,         \* names of bonds
  DefaultPath,   \* [relay -> path]: the sockets made at the start, if any
  Faults,        \* what may fail: "probe", "slave", "socket", "start", "chown", "detach", "timeout"
  None

Relays == 0 .. MaxRelays - 1
Devs == Vfs \cup Bonds

ASSUME SockAssumption ==
  /\ MaxRelays \in Nat \ {0} /\ DefaultPath \in [Relays -> Paths]
  /\ \A r, s \in Relays : DefaultPath[r] = DefaultPath[s] => r = s
  /\ Vfs \cap Bonds = {} /\ None \notin Paths \cup Devs \cup Nat

VARIABLES
  map,      \* relay_ifname_map
  vio,      \* vio.state
  vio2vf,   \* vio.vio2vf_cpu: the VM has a worker
  dpdk,     \* dpdk.state
  dbdf,     \* dpdk.pci_dbdf
  ports,    \* the devices attached to DPDK
  slaves,   \* the slaves of every bond
  driver,   \* the vhost library: state of every path
  vm,       \* the VM at the other end of every path
  cb,       \* the path whose destroy_device callback waits, or None
  ctl,      \* the request at hand and where its handling is
  alone,    \* history: devices that no socket goes with, and why is known
  back,     \* history: relays whose VM came back while a removal waited
  wild      \* history: ports were closed by an uninitialized number

vars == <<map, vio, vio2vf, dpdk, dbdf, ports, slaves, driver, vm, cb, ctl, alone, back, wild>>
Sockets == <<map, driver>>
Virtio == <<vio, vio2vf>>
Ethdevs == <<dpdk, dbdf, ports, slaves>>
History == <<alone, back, wild>>

Idle == [pc |-> "idle", op |-> "NONE", path |-> None, dev |-> None, vfs |-> {},
         relay |-> None, conditional |-> FALSE, ret |-> 0]

\* get_relay_for_sock, as the set of its results.
get_relay_for_sock(path) == {r \in Relays : map[r] = path /\ path # None}

\* What a search of the relays from the first on finds: the least of those that fit.
First(S) == {r \in S : \A s \in S : r <= s}

-----------------------------------------------------------------------------
(* Workers and the vhost thread *)

\* The worker of a relay answers a removal; a VM that has no worker gets no
\* answer.
worker_remove_virtio(r) ==
  /\ vio[r] = "REMOVING" /\ vio2vf[r]
  /\ vio' = [vio EXCEPT ![r] = "UNINIT"] /\ back' = back \ {r}
  /\ UNCHANGED <<Sockets, vio2vf, Ethdevs, vm, cb, ctl, alone, wild>>

worker_remove_vf(r) ==
  /\ dpdk[r] = "REMOVING" /\ dpdk' = [dpdk EXCEPT ![r] = "UNINIT"]
  /\ UNCHANGED <<Sockets, Virtio, dbdf, ports, slaves, vm, cb, ctl, History>>

\* A VM opens the socket.
Connect(p) ==
  /\ driver[p] = "started" /\ vm[p] = "gone"
  /\ vm' = [vm EXCEPT ![p] = "connected"]
  /\ UNCHANGED <<Sockets, Virtio, Ethdevs, cb, ctl, History>>

\* The device of a connected VM is offered; it is not taken while the path has
\* no relay, or a relay in use, and is offered again at the VM's next message.
new_device_cb(p) ==
  /\ cb = None /\ vm[p] = "connected"
  /\ \E r \in get_relay_for_sock(p) :
       /\ vio[r] = "UNINIT"
       /\ vio' = [vio EXCEPT ![r] = "READY"] /\ vio2vf' = [vio2vf EXCEPT ![r] = TRUE]
       /\ back' = IF ctl.pc = "wait_virtio" /\ ctl.relay = r THEN back \cup {r} ELSE back
  /\ vm' = [vm EXCEPT ![p] = "running"]
  /\ UNCHANGED <<Sockets, Ethdevs, cb, ctl, alone, wild>>

\* remove_virtio asks a worker if the VM is READY.
Asks(p) == {r \in get_relay_for_sock(p) : vio[r] = "READY"}
AskVirtio(p) == vio' = [r \in Relays |-> IF r \in Asks(p) THEN "REMOVING" ELSE vio[r]]

\* The wait of remove_virtio ends when the VM is released, or after a second:
\* when no worker is left to answer, or with a timeout.
WaitOver(r) == vio[r] # "REMOVING" \/ ~vio2vf[r] \/ "timeout" \in Faults

\* Whatever ended the wait, remove_virtio then takes the worker from the VM.
Release(R) == vio2vf' = [r \in Relays |-> vio2vf[r] /\ r \notin R]

\* A socket that is being closed is no longer looked after by the vhost thread.
destroy_device_cb(p) ==
  /\ \/ /\ cb = None /\ vm[p] = "running" /\ Asks(p) # {}
        /\ AskVirtio(p) /\ cb' = p /\ UNCHANGED <<vio2vf, vm>>
     \/ /\ cb = None /\ driver[p] # "closing" /\ vm[p] # "gone" /\ (vm[p] = "running" => Asks(p) = {})
        /\ vm' = [vm EXCEPT ![p] = "gone"] /\ UNCHANGED <<Virtio, cb>>
     \/ /\ cb = p /\ \A r \in get_relay_for_sock(p) : WaitOver(r)
        /\ Release(get_relay_for_sock(p))
        /\ cb' = None /\ vm' = [vm EXCEPT ![p] = "gone"] /\ UNCHANGED vio
  /\ UNCHANGED <<Sockets, Ethdevs, ctl, History>>

-----------------------------------------------------------------------------
(* Requests: handle_PortControlRequest *)

Goto(pc) == ctl' = [ctl EXCEPT !.pc = pc]

\* A function returns to the service; what was asked is still known for a pair.
Return(ret) ==
  ctl' = IF ctl.op \in {"ADD_SOCK", "REMOVE_SOCK"}
           THEN [ctl EXCEPT !.pc = "reply", !.ret = ret, !.vfs = {}, !.conditional = FALSE]
           ELSE [Idle EXCEPT !.pc = "reply", !.op = ctl.op, !.ret = ret]

\* The fields of a request; None, {} and FALSE for those that are not given.
Requests ==
  [op : {"ADD", "REMOVE", "ADD_SOCK", "REMOVE_SOCK", "QUERY_PCI"}, path : Paths \cup {None},
   vfs : {S \in SUBSET Vfs : Cardinality(S) <= 2}, name : Bonds \cup {None},
   id : 0 .. MaxRelays \cup {None}, conditional : BOOLEAN]

validate_PortControlRequest(q) ==
  /\ ~(q.name # None /\ q.op \in {"ADD", "ADD_SOCK"} /\ Cardinality(q.vfs) < 2)
  /\ ~(q.name = None /\ Cardinality(q.vfs) > 1)
  /\ ~(q.op \in {"ADD", "REMOVE"} /\ q.id = None)
  /\ ~(q.op = "QUERY_PCI" /\ q.path = None)

\* Exactly one VF is given.
Single(vfs) == \E d \in Vfs : vfs = {d}

\* The device a request is about: its VF if it has one, else the name of a bond.
DeviceOf(q) ==
  IF Single(q.vfs) THEN CHOOSE d \in q.vfs : TRUE ELSE q.name

\* An ADD without a device is answered with an error; the other requests go to
\* the function of their operation, with the fields that it uses.
handle_PortControlRequest ==
  /\ ctl.pc = "idle"
  /\ \E q \in Requests :
       /\ validate_PortControlRequest(q) /\ (q.op = "ADD" => DeviceOf(q) # None)
       /\ ctl' = [pc |-> q.op, op |-> q.op,
                  dev |-> IF q.op = "QUERY_PCI" THEN None ELSE DeviceOf(q),
                  path |-> IF q.op \in {"ADD", "REMOVE"} THEN None ELSE q.path,
                  vfs |-> IF q.op \in {"ADD", "ADD_SOCK"} THEN q.vfs ELSE {},
                  relay |-> IF q.op \in {"ADD", "REMOVE"} THEN q.id ELSE None,
                  conditional |-> q.op # "QUERY_PCI" /\ q.conditional, ret |-> 0]
  /\ UNCHANGED <<Sockets, Virtio, Ethdevs, vm, cb, History>>

Reply ==
  /\ ctl.pc = "reply"
  /\ ctl' = Idle
  /\ UNCHANGED <<Sockets, Virtio, Ethdevs, vm, cb, History>>

-----------------------------------------------------------------------------
(* Additions *)

virtio_get_free_relay_id ==
  {r \in Relays : vio[r] = "UNINIT" /\ dpdk[r] = "UNINIT" /\ map[r] = None}

\* The request goes on with the relay it gets.
Take(r) == ctl' = [ctl EXCEPT !.pc = "attach", !.relay = r]

virtio_add_sock_dev_pair ==
  /\ ctl.pc = "ADD_SOCK"
  /\ \/ ctl.path = None /\ Return(-1)
     \/ ctl.path # None /\ ctl.dev \in ports /\ Return(-17)
     \/ /\ ctl.path # None /\ ctl.dev \notin ports
        /\ \/ get_relay_for_sock(ctl.path) # {} /\ Return(1)
           \/ /\ get_relay_for_sock(ctl.path) = {}
              /\ \/ virtio_get_free_relay_id = {} /\ Return(2)
                 \/ \E r \in First(virtio_get_free_relay_id) : Take(r)
  /\ UNCHANGED <<Sockets, Virtio, Ethdevs, vm, cb, History>>

\* The result of add_vf2 or bond_add, for a pair or alone.
AddFails(ret) ==
  /\ Return(IF ctl.op = "ADD" THEN ret ELSE IF Single(ctl.vfs) THEN 3 ELSE 4)
  /\ UNCHANGED <<Ethdevs, History>>

Added(devs) ==
  /\ IF ctl.op = "ADD" THEN Return(0) ELSE Goto("register")
  /\ ports' = ports \cup devs
  /\ dpdk' = [dpdk EXCEPT ![ctl.relay] = "ADDED"]
  /\ dbdf' = [dbdf EXCEPT ![ctl.relay] = ctl.dev]
  /\ alone' = IF ctl.op = "ADD" /\ map[ctl.relay] = None THEN alone \cup devs ELSE alone \ devs
  /\ UNCHANGED <<back, wild>>

\* virtio_forwarder_add_vf2 on a relay in use: a conditional addition of the
\* same VF has nothing to do.
conditional_add_ok ==
  /\ ctl.conditional /\ dpdk[ctl.relay] = "ADDED" /\ dbdf[ctl.relay] = ctl.dev

add_vf2_refused ==
  /\ ctl.pc \in {"ADD", "attach"}
  /\ \/ ctl.relay = MaxRelays /\ AddFails(1)
     \/ /\ ctl.relay \in Relays /\ dpdk[ctl.relay] # "UNINIT"
        /\ IF Single(ctl.vfs) /\ conditional_add_ok
             THEN Return(0) /\ UNCHANGED <<Ethdevs, History>> ELSE AddFails(8)
  /\ UNCHANGED <<Sockets, Virtio, vm, cb>>

\* A new VF: a device that is attached cannot be probed again.
init_vf ==
  /\ ctl.pc \in {"ADD", "attach"} /\ Single(ctl.vfs)
  /\ ctl.relay \in Relays /\ dpdk[ctl.relay] = "UNINIT"
  /\ \/ ctl.dev \notin ports /\ Added({ctl.dev}) /\ UNCHANGED slaves
     \/ (ctl.dev \in ports \/ "probe" \in Faults) /\ AddFails(2)
  /\ UNCHANGED <<Sockets, Virtio, vm, cb>>

\* Mutant of virtio_forwarder_bond_add: a slave may be attached already.
bond_add_attached_slave ==
  /\ ctl.pc \in {"ADD", "attach"} /\ ~Single(ctl.vfs)
  /\ ctl.relay \in Relays /\ dpdk[ctl.relay] = "UNINIT"
  /\ \/ /\ ctl.dev # None /\ ctl.dev \notin ports
        /\ Added({ctl.dev} \cup ctl.vfs)
        /\ slaves' = [slaves EXCEPT ![ctl.dev] = ctl.vfs]
     \/ /\ ctl.dev = None \/ ctl.dev \in ports \/ "probe" \in Faults
        /\ AddFails(4)
     \/ /\ "slave" \in Faults /\ ctl.dev # None /\ ctl.dev \notin ports
        /\ \E closed \in SUBSET ports : ports' = ports \ closed
        /\ Return(IF ctl.op = "ADD" THEN 5 ELSE 4)
        /\ wild' = TRUE /\ UNCHANGED <<dpdk, dbdf, slaves, alone, back>>
  /\ UNCHANGED <<Sockets, Virtio, vm, cb>>

\* A new bond: the name must be free and no slave attached.  When a slave
\* cannot be set up all slaves are cleaned up, and those that were not reached
\* by port numbers that were never set: any ports may be closed.
virtio_forwarder_bond_add ==
  /\ ctl.pc \in {"ADD", "attach"} /\ ~Single(ctl.vfs)
  /\ ctl.relay \in Relays /\ dpdk[ctl.relay] = "UNINIT"
  /\ \/ /\ ctl.dev # None /\ ({ctl.dev} \cup ctl.vfs) \cap ports = {}
        /\ Added({ctl.dev} \cup ctl.vfs)
        /\ slaves' = [slaves EXCEPT ![ctl.dev] = ctl.vfs]
     \/ /\ ctl.dev = None \/ ({ctl.dev} \cup ctl.vfs) \cap ports # {} \/ "probe" \in Faults
        /\ AddFails(4)
     \/ /\ "slave" \in Faults /\ ctl.dev # None /\ ({ctl.dev} \cup ctl.vfs) \cap ports = {}
        /\ \E closed \in SUBSET ports : ports' = ports \ closed
        /\ Return(IF ctl.op = "ADD" THEN 5 ELSE 4)
        /\ wild' = TRUE /\ UNCHANGED <<dpdk, dbdf, slaves, alone, back>>
  /\ UNCHANGED <<Sockets, Virtio, vm, cb>>

\* register_relay_socket: a stale socket is removed and the path registered ...
register_relay_socket ==
  /\ ctl.pc = "register"
  /\ \/ "socket" \in Faults /\ Goto("remove_vf2") /\ UNCHANGED driver
     \/ map[ctl.relay] = None /\ Goto("start") /\ driver' = [driver EXCEPT ![ctl.path] = "registered"]
  /\ UNCHANGED <<map, Virtio, Ethdevs, vm, cb, History>>

\* Mutant of rte_vhost_driver_start: a failure does not undo the addition.
rte_vhost_driver_start_no_undo ==
  /\ ctl.pc = "start"
  /\ \/ "start" \in Faults /\ Return(5) /\ UNCHANGED driver
     \/ Goto("map") /\ driver' = [driver EXCEPT ![ctl.path] = "started"]
  /\ UNCHANGED <<map, Virtio, Ethdevs, vm, cb, History>>

\* ... VMs are let in ...
rte_vhost_driver_start ==
  /\ ctl.pc = "start"
  /\ \/ "start" \in Faults /\ Goto("remove_vf2") /\ UNCHANGED driver
     \/ Goto("map") /\ driver' = [driver EXCEPT ![ctl.path] = "started"]
  /\ UNCHANGED <<map, Virtio, Ethdevs, vm, cb, History>>

\* Mutant of register_relay_socket_map: the wrong string is copied.
register_relay_socket_map_dev ==
  /\ ctl.pc = "map"
  /\ map' = [map EXCEPT ![ctl.relay] = ctl.dev]
  /\ Return(0) \/ ("chown" \in Faults /\ Goto("remove_vf2"))
  /\ UNCHANGED <<driver, Virtio, Ethdevs, vm, cb, History>>

\* ... and the relay is entered, before the socket gets its owner.
register_relay_socket_map ==
  /\ ctl.pc = "map"
  /\ map' = [map EXCEPT ![ctl.relay] = ctl.path]
  /\ Return(0) \/ ("chown" \in Faults /\ Goto("remove_vf2"))
  /\ UNCHANGED <<driver, Virtio, Ethdevs, vm, cb, History>>

-----------------------------------------------------------------------------
(* Removals *)

\* The relays a removal may be about, and the path it goes on with.
RelaysOf ==
  IF ctl.path # None THEN get_relay_for_sock(ctl.path)
  ELSE {r \in Relays : dbdf[r] = ctl.dev}

\* The request goes on with the relay it found, and that relay's device and path.
Follow(r) ==
  ctl' = [ctl EXCEPT !.pc = "remove_virtio", !.relay = r, !.dev = dbdf[r], !.path = map[r]]

virtio_remove_sock_dev_pair ==
  /\ ctl.pc = "REMOVE_SOCK"
  /\ \/ ctl.path = None /\ ctl.dev = None /\ Return(-1)
     \/ /\ ctl.path # None \/ ctl.dev # None
        /\ \/ RelaysOf = {} /\ Return(1)
           \/ \E r \in First(RelaysOf) : ctl.dev \notin {None, dbdf[r]} /\ Return(2)
           \/ \E r \in First(RelaysOf) : ctl.dev \in {None, dbdf[r]} /\ Follow(r)
  /\ UNCHANGED <<Sockets, Virtio, Ethdevs, vm, cb, History>>

\* Mutant of remove_virtio: no timeout ends the wait.
remove_virtio_no_timeout ==
  /\ \/ /\ ctl.pc = "remove_virtio" /\ vio[ctl.relay] = "READY"
        /\ vio' = [vio EXCEPT ![ctl.relay] = "REMOVING"] /\ Goto("wait_virtio") /\ UNCHANGED vio2vf
     \/ /\ ctl.pc = "remove_virtio" /\ vio[ctl.relay] # "READY"
        /\ Goto("deregister") /\ UNCHANGED Virtio
     \/ /\ ctl.pc = "wait_virtio" /\ vio[ctl.relay] = "UNINIT"
        /\ Goto("deregister") /\ Release({ctl.relay}) /\ UNCHANGED vio
  /\ UNCHANGED <<Sockets, Ethdevs, vm, cb, History>>

\* The state is looked at every 50 ms.  The answer is missed when the VM is
\* back at the next look, or even in a removal of the vhost thread: then this
\* wait lasts its second.
AnswerMissed(r) == cb # None /\ cb = map[r]

\* The VM may still be there: remove_virtio, without telling the VM.
remove_virtio ==
  /\ \/ /\ ctl.pc = "remove_virtio" /\ vio[ctl.relay] = "READY"
        /\ vio' = [vio EXCEPT ![ctl.relay] = "REMOVING"] /\ Goto("wait_virtio") /\ UNCHANGED vio2vf
     \/ /\ ctl.pc = "remove_virtio" /\ vio[ctl.relay] # "READY"
        /\ Goto("deregister") /\ UNCHANGED Virtio
     \/ /\ ctl.pc = "wait_virtio" /\ (WaitOver(ctl.relay) \/ AnswerMissed(ctl.relay))
        /\ Goto("deregister") /\ Release({ctl.relay}) /\ UNCHANGED vio
  /\ UNCHANGED <<Sockets, Ethdevs, vm, cb, History>>

\* Mutant of AfterDeregister: the VF is not removed.
AfterDeregister_done(err) ==
  IF ctl.op = "ADD_SOCK" THEN Return(5) ELSE IF err # 0 THEN Return(3) ELSE Return(0)

\* deregister_socket, part of a removal or of an addition that failed.
AfterDeregister(err) ==
  IF ctl.op = "ADD_SOCK" THEN Return(5) ELSE IF err # 0 THEN Return(3) ELSE Goto("remove_vf2")

\* rte_vhost_driver_unregister waits for a callback that is under way and has
\* the device of a connected VM destroyed by this thread.
deregister_socket_vm ==
  /\ ctl.pc = "deregister" /\ ctl.path # None /\ cb = None
  /\ vm[ctl.path] = "running" /\ Asks(ctl.path) # {}
  /\ AskVirtio(ctl.path) /\ Goto("wait_device")
  /\ driver' = [driver EXCEPT ![ctl.path] = "closing"]
  /\ UNCHANGED <<map, vio2vf, Ethdevs, vm, cb, History>>

\* Mutant of deregister_socket: the map is cleared before the path is
\* unregistered, so that the callback finds no relay.
deregister_socket_map_first ==
  /\ ctl.path # None
  /\ ctl.pc = "deregister" /\ cb = None
  /\ driver' = [driver EXCEPT ![ctl.path] = "none"]
  /\ vm' = [vm EXCEPT ![ctl.path] = "gone"]
  /\ map' = [r \in Relays |-> IF r \in get_relay_for_sock(ctl.path) THEN None ELSE map[r]]
  /\ AfterDeregister(IF driver[ctl.path] = "none" \/ get_relay_for_sock(ctl.path) = {} THEN 1 ELSE 0)
  /\ UNCHANGED <<Virtio, Ethdevs, cb, History>>

\* Then the map is cleared, if the path is in it.
deregister_socket ==
  /\ ctl.path # None
  /\ \/ /\ ctl.pc = "deregister" /\ cb = None
        /\ vm[ctl.path] = "running" => Asks(ctl.path) = {}
     \/ ctl.pc = "wait_device" /\ \A r \in get_relay_for_sock(ctl.path) : WaitOver(r)
  /\ Release(IF ctl.pc = "wait_device" THEN get_relay_for_sock(ctl.path) ELSE {})
  /\ driver' = [driver EXCEPT ![ctl.path] = "none"]
  /\ vm' = [vm EXCEPT ![ctl.path] = "gone"]
  /\ map' = [r \in Relays |-> IF r \in get_relay_for_sock(ctl.path) THEN None ELSE map[r]]
  /\ AfterDeregister(IF driver[ctl.path] = "none" \/ get_relay_for_sock(ctl.path) = {} THEN 1 ELSE 0)
  /\ UNCHANGED <<vio, Ethdevs, cb, History>>

\* A relay without a socket: its NULL path is compared with every other path.
deregister_socket_null ==
  /\ ctl.pc = "deregister" /\ ctl.path = None
  /\ IF \E r \in Relays : map[r] # None THEN Goto("undefined") ELSE AfterDeregister(1)
  /\ UNCHANGED <<Sockets, Virtio, Ethdevs, vm, cb, History>>

\* The result of remove_vf2.
AfterRemove(err) ==
  IF ctl.op = "ADD_SOCK" THEN Goto("deregister")
  ELSE Return(IF ctl.op = "REMOVE_SOCK" /\ err # 0 THEN 4 ELSE err)

virtio_forwarder_remove_vf2 ==
  /\ ctl.pc \in {"REMOVE", "remove_vf2"}
  /\ IF ctl.relay \notin Relays THEN AfterRemove(1) /\ UNCHANGED dpdk
     ELSE IF dpdk[ctl.relay] = "ADDED"
       THEN IF ctl.dev = dbdf[ctl.relay]
              THEN Goto("wait_vf") /\ dpdk' = [dpdk EXCEPT ![ctl.relay] = "REMOVING"]
              ELSE AfterRemove(3) /\ UNCHANGED dpdk
       ELSE AfterRemove(IF ctl.conditional THEN 0 ELSE 4) /\ UNCHANGED dpdk
  /\ UNCHANGED <<Sockets, Virtio, dbdf, ports, slaves, vm, cb, History>>

\* What goes when a device is detached: a bond goes with its slaves.
DetachSet(d) == {d} \cup (IF d \in Bonds THEN slaves[d] ELSE {})

\* Mutant of detach_device: the slaves of a bond stay attached.
detach_device_but_slaves ==
  /\ ctl.pc = "wait_vf"
  /\ \/ /\ dpdk[ctl.relay] = "UNINIT"
        /\ ports' = ports \ {ctl.dev} /\ alone' = alone \ DetachSet(ctl.dev)
        /\ slaves' = [b \in Bonds |-> IF b = ctl.dev THEN {} ELSE slaves[b]]
        /\ dbdf' = [dbdf EXCEPT ![ctl.relay] = None]
        /\ AfterRemove(0)
     \/ /\ \/ dpdk[ctl.relay] = "UNINIT" /\ "detach" \in Faults /\ AfterRemove(2)
           \/ dpdk[ctl.relay] = "REMOVING" /\ "timeout" \in Faults /\ AfterRemove(5)
        /\ alone' = alone \cup DetachSet(ctl.dev)
        /\ UNCHANGED <<ports, slaves, dbdf>>
  /\ UNCHANGED <<Sockets, Virtio, dpdk, vm, cb, back, wild>>

\* Mutant of detach_device: pci_dbdf is not cleared.
detach_device_keep_name ==
  /\ ctl.pc = "wait_vf"
  /\ \/ /\ dpdk[ctl.relay] = "UNINIT"
        /\ ports' = ports \ DetachSet(ctl.dev) /\ alone' = alone \ DetachSet(ctl.dev)
        /\ slaves' = [b \in Bonds |-> IF b = ctl.dev THEN {} ELSE slaves[b]]
        /\ UNCHANGED dbdf
        /\ AfterRemove(0)
     \/ /\ \/ dpdk[ctl.relay] = "UNINIT" /\ "detach" \in Faults /\ AfterRemove(2)
           \/ dpdk[ctl.relay] = "REMOVING" /\ "timeout" \in Faults /\ AfterRemove(5)
        /\ alone' = alone \cup DetachSet(ctl.dev)
        /\ UNCHANGED <<ports, slaves, dbdf>>
  /\ UNCHANGED <<Sockets, Virtio, dpdk, vm, cb, back, wild>>

\* detach_device after the worker's answer; or the wait ends without one, or
\* the port cannot be removed: the device stays attached and keeps its name.
detach_device ==
  /\ ctl.pc = "wait_vf"
  /\ \/ /\ dpdk[ctl.relay] = "UNINIT"
        /\ ports' = ports \ DetachSet(ctl.dev) /\ alone' = alone \ DetachSet(ctl.dev)
        /\ slaves' = [b \in Bonds |-> IF b = ctl.dev THEN {} ELSE slaves[b]]
        /\ dbdf' = [dbdf EXCEPT ![ctl.relay] = None]
        /\ AfterRemove(0)
     \/ /\ \/ dpdk[ctl.relay] = "UNINIT" /\ "detach" \in Faults /\ AfterRemove(2)
           \/ dpdk[ctl.relay] = "REMOVING" /\ "timeout" \in Faults /\ AfterRemove(5)
        /\ alone' = alone \cup DetachSet(ctl.dev)
        /\ UNCHANGED <<ports, slaves, dbdf>>
  /\ UNCHANGED <<Sockets, Virtio, dpdk, vm, cb, back, wild>>

virtio_query_pci ==
  /\ ctl.pc = "QUERY_PCI"
  /\ Return(IF get_relay_for_sock(ctl.path) = {} THEN 2 ELSE 0)
  /\ UNCHANGED <<Sockets, Virtio, Ethdevs, vm, cb, History>>

PortControl ==
  \/ Reply \/ virtio_add_sock_dev_pair \/ add_vf2_refused \/ init_vf \/ virtio_forwarder_bond_add
  \/ register_relay_socket \/ rte_vhost_driver_start \/ register_relay_socket_map
  \/ virtio_remove_sock_dev_pair \/ remove_virtio \/ deregister_socket_vm \/ deregister_socket
  \/ deregister_socket_null \/ virtio_forwarder_remove_vf2 \/ detach_device \/ virtio_query_pci

\* virtio_vhostuser_start has made a socket for every relay, or none.
Init ==
  /\ map \in {DefaultPath, [r \in Relays |-> None]}
  /\ driver = [p \in Paths |-> IF get_relay_for_sock(p) = {} THEN "none" ELSE "started"]
  /\ vio = [r \in Relays |-> "UNINIT"] /\ vio2vf = [r \in Relays |-> FALSE]
  /\ dpdk = [r \in Relays |-> "UNINIT"]
  /\ dbdf = [r \in Relays |-> None] /\ ports = {} /\ slaves = [b \in Bonds |-> {}]
  /\ vm = [p \in Paths |-> "gone"] /\ cb = None /\ ctl = Idle
  /\ alone = {} /\ back = {} /\ wild = FALSE

Alive == ctl.pc # "undefined"

Next ==
  /\ Alive
  /\ \/ handle_PortControlRequest \/ PortControl
     \/ \E r \in Relays : worker_remove_virtio(r) \/ worker_remove_vf(r)
     \/ \E p \in Paths : Connect(p) \/ new_device_cb(p) \/ destroy_device_cb(p)

Spec == Init /\ [][Next]_vars

\* Workers answer, the service's thread goes on, and a callback that has its
\* answer ends.  The service's thread is strongly fair: the vhost library lets
\* no new callback pass a caller who waits to close the socket.
FairSpec ==
  /\ Spec
  /\ SF_vars(Alive /\ PortControl)
  /\ \A r \in Relays : WF_vars(Alive /\ worker_remove_virtio(r)) /\ WF_vars(Alive /\ worker_remove_vf(r))
  /\ WF_vars(Alive /\ \E p \in Paths : cb = p /\ destroy_device_cb(p))

-----------------------------------------------------------------------------
(* Properties *)

\* The type invariant.
TypeOK ==
  /\ map \in [Relays -> Paths \cup {None}]
  /\ vio \in [Relays -> {"UNINIT", "READY", "REMOVING"}]
  /\ vio2vf \in [Relays -> BOOLEAN]
  /\ dpdk \in [Relays -> {"UNINIT", "ADDED", "REMOVING"}]
  /\ dbdf \in [Relays -> Devs \cup {None}]
  /\ ports \subseteq Devs /\ slaves \in [Bonds -> SUBSET Vfs]
  /\ driver \in [Paths -> {"none", "registered", "started", "closing"}]
  /\ vm \in [Paths -> {"gone", "connected", "running"}]
  /\ cb \in Paths \cup {None}
  /\ ctl \in [pc : {"idle", "ADD", "REMOVE", "ADD_SOCK", "REMOVE_SOCK", "QUERY_PCI", "attach",
                    "register", "start", "map", "remove_virtio", "wait_virtio", "deregister",
                    "wait_device", "remove_vf2", "wait_vf", "reply", "undefined"},
              op : {"NONE", "ADD", "REMOVE", "ADD_SOCK", "REMOVE_SOCK", "QUERY_PCI"},
              path : Paths \cup {None}, dev : Devs \cup {None}, vfs : SUBSET Vfs,
              relay : 0 .. MaxRelays \cup {None}, conditional : BOOLEAN, ret : -17 .. 8]
  /\ alone \subseteq Devs /\ back \subseteq Relays /\ wild \in BOOLEAN

\* "there is a one-to-one mapping between relay, VF and vhost-user socket"
\* (virtio_remove_sock_dev_pair), as far as it goes: no two relays have one
\* socket, or one device, or a device that is a slave of another's bond.
OneToOne ==
  \A r, s \in Relays : r # s =>
    /\ map[r] = map[s] => map[r] = None
    /\ dpdk[r] = "ADDED" /\ dpdk[s] = "ADDED" /\ ~wild =>
         dbdf[r] # dbdf[s] /\ (dbdf[s] \in Bonds => dbdf[r] \notin slaves[dbdf[s]])

\* A VM that is relayed is connected, on the socket of its relay, and has a
\* worker unless it came back while a removal waited (that removal takes the
\* worker from it).  While a worker has yet to answer a removal the device is
\* there, as long as waits are answered in time: only when the port thread asked
\* for the removal may the VM leave meanwhile, as destroy_device_cb then finds
\* nothing READY to wait for.
ReadyVmAlive ==
  \A r \in Relays :
    /\ vio[r] = "READY" => map[r] # None /\ vm[map[r]] = "running" /\ (vio2vf[r] \/ r \in back)
    /\ vio[r] = "REMOVING" /\ vio2vf[r] /\ "timeout" \notin Faults =>
         \/ map[r] # None /\ vm[map[r]] = "running"
         \/ ctl.pc = "wait_virtio" /\ ctl.relay = r

\* What is attached belongs to a relay: between requests every device that is
\* attached is the device of a relay, with that relay's socket, or a slave of
\* it, or was added without a socket or could not be removed.
NothingLeaked ==
  ctl.pc = "idle" /\ ~wild =>
    \A d \in ports \ alone :
      \E r \in Relays : dpdk[r] = "ADDED" /\ map[r] # None /\ d \in DetachSet(dbdf[r])

\* An addition that is answered with OK has made the pair; one that fails has
\* left neither socket nor device, whichever of its steps failed.
AddAllOrNothing ==
  ctl.pc = "reply" /\ ctl.op = "ADD_SOCK" /\ ~wild =>
    IF ctl.ret = 0
      THEN /\ map[ctl.relay] = ctl.path /\ driver[ctl.path] = "started"
           /\ dpdk[ctl.relay] = "ADDED" /\ dbdf[ctl.relay] = ctl.dev
      ELSE ctl.ret \in 3 .. 5 =>
             /\ get_relay_for_sock(ctl.path) = {} /\ driver[ctl.path] = "none"
             /\ \A r \in Relays : dpdk[r] = "ADDED" => dbdf[r] # ctl.dev \/ ctl.dev \in alone

\* What a removal that is answered with OK has done: the socket is closed, its
\* VM is not relayed even if it came back meanwhile, and the device is detached
\* unless an earlier attempt failed or its port was closed by a wrong number
\* before.  With waits that are answered in time the VF side of the relay is
\* free, and so is the VM side unless a VM came back while the removal waited.
RemovedIsGone ==
  ctl.pc = "reply" /\ ctl.op = "REMOVE_SOCK" /\ ctl.ret = 0 =>
    /\ driver[ctl.path] = "none" /\ get_relay_for_sock(ctl.path) = {}
    /\ vm[ctl.path] = "gone" /\ vio[ctl.relay] # "READY"
    /\ ctl.dev \in ports /\ ~wild => ctl.dev \in alone
    /\ "timeout" \notin Faults =>
         dpdk[ctl.relay] = "UNINIT" /\ (vio[ctl.relay] = "UNINIT" \/ ctl.relay \in back)

\* The NULL path of a relay without a socket is met only for a device that was
\* added alone or could not be removed, as long as no port was closed by a
\* wrong number.
NullPathExplained == ctl.pc = "undefined" /\ ~wild => ctl.dev \in alone

\* Every request is answered: the service waits for no callback and no worker
\* for ever.
RequestsEnd == []<>(ctl.pc \in {"idle", "undefined"})
=============================================================================
