-------------------------- MODULE SockPairsProofs --------------------------
(***************************************************************************)
(* Proofs about SockPairs for any relays, sockets, VFs, bonds and faults,  *)
(* timeouts included: types, and that a VM that is relayed is connected on *)
(* the socket of its relay and has a worker, unless it came back while a   *)
(* removal waited.                                                         *)
(***************************************************************************)
EXTENDS SockPairs, TLAPS

Operations == {"NONE", "ADD", "REMOVE", "ADD_SOCK", "REMOVE_SOCK", "QUERY_PCI"}

Labels ==
  {"idle", "ADD", "REMOVE", "ADD_SOCK", "REMOVE_SOCK", "QUERY_PCI", "attach", "register", "start",
   "map", "remove_virtio", "wait_virtio", "deregister", "wait_device", "remove_vf2", "wait_vf",
   "reply", "undefined"}

CtlStruct ==
  [pc : Labels, op : Operations, path : Paths \cup {None}, dev : Devs \cup {None}, vfs : SUBSET Vfs,
   relay : 0 .. MaxRelays \cup {None}, conditional : BOOLEAN, ret : -17 .. 8]

\* The part of the type invariant that the proofs need.
Types ==
  /\ map \in [Relays -> Paths \cup {None}]
  /\ vio \in [Relays -> {"UNINIT", "READY", "REMOVING"}]
  /\ vio2vf \in [Relays -> BOOLEAN] /\ back \subseteq Relays
  /\ dpdk \in [Relays -> {"UNINIT", "ADDED", "REMOVING"}]
  /\ dbdf \in [Relays -> Devs \cup {None}]
  /\ slaves \in [Bonds -> SUBSET Vfs]
  /\ driver \in [Paths -> {"none", "registered", "started", "closing"}]
  /\ vm \in [Paths -> {"gone", "connected", "running"}]
  /\ cb \in Paths \cup {None}
  /\ ctl \in CtlStruct

-----------------------------------------------------------------------------
(* Facts about the operators *)

\* A jump changes the label only.
LEMMA GotoFields ==
  ASSUME ctl \in CtlStruct, NEW l \in Labels, Goto(l)
  PROVE  /\ ctl' \in CtlStruct
         /\ ctl'.pc = l /\ ctl'.op = ctl.op /\ ctl'.path = ctl.path /\ ctl'.dev = ctl.dev
         /\ ctl'.vfs = ctl.vfs /\ ctl'.relay = ctl.relay
BY Zenon DEF CtlStruct, Goto

\* A return leads to the answer with its result.
LEMMA ReturnFields ==
  ASSUME ctl \in CtlStruct, NEW ret \in -17 .. 8, Return(ret)
  PROVE  /\ ctl' \in CtlStruct
         /\ ctl'.pc = "reply" /\ ctl'.ret = ret /\ ctl'.op = ctl.op
         /\ ctl.op \in {"ADD_SOCK", "REMOVE_SOCK"} =>
              ctl'.path = ctl.path /\ ctl'.dev = ctl.dev /\ ctl'.relay = ctl.relay
<1>1. CASE ctl.op \in {"ADD_SOCK", "REMOVE_SOCK"}
  BY ZenonT(30), <1>1 DEF CtlStruct, Return, Labels
<1>2. CASE ctl.op \notin {"ADD_SOCK", "REMOVE_SOCK"}
  <2>1. ctl' = [Idle EXCEPT !.pc = "reply", !.op = ctl.op, !.ret = ret]
    BY Zenon, <1>2 DEF Return
  <2>2. ctl.op \in Operations
    BY Zenon DEF CtlStruct
  <2> QED BY <1>2, <2>1, <2>2 DEF CtlStruct, Idle, Labels, Operations
<1> QED BY Zenon, <1>1, <1>2

\* Taking workers away leaves Booleans.
LEMMA ReleaseFields ==
  ASSUME NEW R, Release(R)
  PROVE  vio2vf' \in [Relays -> BOOLEAN] /\ \A r \in Relays : vio2vf'[r] <=> vio2vf[r] /\ r \notin R
BY Zenon DEF Release

\* The device of a request is its VF, or the name of a bond, or none.
LEMMA DeviceInRequest ==
  ASSUME NEW q, q.vfs \in SUBSET Vfs, q.name \in Bonds \cup {None}
  PROVE  IF Single(q.vfs) THEN DeviceOf(q) \in q.vfs ELSE DeviceOf(q) \in Bonds \cup {None}
BY Zenon DEF DeviceOf, Single

-----------------------------------------------------------------------------
(* Types *)

\* The workers and the vhost thread keep the types.
LEMMA ThreadTypes ==
  ASSUME Types,
         \/ \E r \in Relays : worker_remove_virtio(r) \/ worker_remove_vf(r)
         \/ \E p \in Paths : Connect(p) \/ new_device_cb(p) \/ destroy_device_cb(p)
  PROVE  Types'
<1> USE DEF Types, Sockets, Virtio, Ethdevs, History
<1>1. CASE \E r \in Relays : worker_remove_virtio(r) \/ worker_remove_vf(r)
  BY ZenonT(30), <1>1 DEF worker_remove_virtio, worker_remove_vf
<1>2. ASSUME NEW p \in Paths, Connect(p) PROVE Types'
  BY Zenon, <1>2 DEF Connect
<1>3. ASSUME NEW p \in Paths, new_device_cb(p) PROVE Types'
  <2>1. PICK r \in get_relay_for_sock(p) :
          /\ vio' = [vio EXCEPT ![r] = "READY"] /\ vio2vf' = [vio2vf EXCEPT ![r] = TRUE]
          /\ back' \in {back, back \cup {r}}
    BY ZenonT(30), <1>3 DEF new_device_cb
  <2>2. r \in Relays
    BY Zenon DEF get_relay_for_sock
  <2> QED BY ZenonT(30), <1>3, <2>1, <2>2 DEF new_device_cb
<1>4. ASSUME NEW p \in Paths, destroy_device_cb(p) PROVE Types'
  BY <1>4, ReleaseFields DEF destroy_device_cb, AskVirtio
<1> QED BY Zenon, <1>1, <1>2, <1>3, <1>4

\* So does a new request, and its answer.
LEMMA RequestTypes ==
  ASSUME Types, handle_PortControlRequest \/ Reply
  PROVE  Types'
<1> USE DEF Types, Sockets, Virtio, Ethdevs, History
<1>1. CASE handle_PortControlRequest
  <2>1. PICK q \in Requests :
       /\ validate_PortControlRequest(q) /\ (q.op = "ADD" => DeviceOf(q) # None)
       /\ ctl' = [pc |-> q.op, op |-> q.op,
                  dev |-> IF q.op = "QUERY_PCI" THEN None ELSE DeviceOf(q),
                  path |-> IF q.op \in {"ADD", "REMOVE"} THEN None ELSE q.path,
                  vfs |-> IF q.op \in {"ADD", "ADD_SOCK"} THEN q.vfs ELSE {},
                  relay |-> IF q.op \in {"ADD", "REMOVE"} THEN q.id ELSE None,
                  conditional |-> q.op # "QUERY_PCI" /\ q.conditional, ret |-> 0]
    BY ZenonT(30), <1>1 DEF handle_PortControlRequest
  <2>2. /\ q.op \in {"ADD", "REMOVE", "ADD_SOCK", "REMOVE_SOCK", "QUERY_PCI"}
        /\ q.path \in Paths \cup {None} /\ q.vfs \in SUBSET Vfs /\ q.name \in Bonds \cup {None}
        /\ q.id \in 0 .. MaxRelays \cup {None}
    BY Zenon DEF Requests
  <2>3. DeviceOf(q) \in Devs \cup {None}
    BY Zenon, <2>2, DeviceInRequest DEF Devs
  <2>4. (q.op # "QUERY_PCI" /\ q.conditional) \in BOOLEAN
    BY Zenon
  <2>5. ctl' \in CtlStruct
    BY <2>1, <2>2, <2>3, <2>4 DEF CtlStruct, Labels, Operations
  <2> QED BY Zenon, <1>1, <2>5 DEF handle_PortControlRequest
<1>2. CASE Reply
  <2>1. Idle \in CtlStruct
    BY DEF Idle, CtlStruct, Labels, Operations
  <2> QED BY Zenon, <1>2, <2>1 DEF Reply
<1> QED BY Zenon, <1>1, <1>2

\* The steps of an addition keep the types.
LEMMA AddTypes ==
  ASSUME Types,
         \/ virtio_add_sock_dev_pair \/ add_vf2_refused \/ init_vf \/ virtio_forwarder_bond_add
         \/ register_relay_socket \/ rte_vhost_driver_start \/ register_relay_socket_map
  PROVE  Types'
<1> USE DEF Types, Sockets, Virtio, Ethdevs, History
<1>0. {"register", "remove_vf2", "start", "map", "attach"} \subseteq Labels
  BY Zenon DEF Labels
<1>1. CASE virtio_add_sock_dev_pair
  <2>1. CASE \E ret \in -17 .. 8 : Return(ret)
    BY Zenon, <1>1, <2>1, ReturnFields DEF virtio_add_sock_dev_pair
  <2>2. CASE \E r \in First(virtio_get_free_relay_id) : Take(r)
    <3>1. PICK r \in Relays : ctl' = [ctl EXCEPT !.pc = "attach", !.relay = r]
      BY ZenonT(30), <2>2 DEF First, Take, virtio_get_free_relay_id
    <3>2. r \in 0 .. MaxRelays \cup {None}
      BY SockAssumption DEF Relays
    <3>3. ctl' \in CtlStruct
      BY ZenonT(30), <1>0, <3>1, <3>2 DEF CtlStruct
    <3> QED BY Zenon, <1>1, <3>3 DEF virtio_add_sock_dev_pair
  <2> QED BY <1>1, <2>1, <2>2 DEF virtio_add_sock_dev_pair
<1>2. ASSUME NEW ret \in 1 .. 8, AddFails(ret) PROVE ctl' \in CtlStruct /\ UNCHANGED <<dpdk, dbdf, slaves, back>>
  <2>1. \E e \in -17 .. 8 : Return(e)
    BY <1>2 DEF AddFails
  <2> QED BY Zenon, <1>2, <2>1, ReturnFields DEF AddFails
<1>3. ASSUME NEW devs, Added(devs)
      PROVE  /\ ctl' \in CtlStruct /\ dpdk' \in [Relays -> {"UNINIT", "ADDED", "REMOVING"}]
             /\ dbdf' \in [Relays -> Devs \cup {None}] /\ UNCHANGED back
  <2>1. ctl' \in CtlStruct
    BY <1>0, <1>3, GotoFields, ReturnFields DEF Added
  <2>2. ctl.dev \in Devs \cup {None}
    BY Zenon DEF CtlStruct
  <2> QED BY ZenonT(30), <1>3, <2>1, <2>2 DEF Added
<1>4. CASE add_vf2_refused
  <2>1. CASE AddFails(1) \/ AddFails(8)
    BY <1>2, <1>4, <2>1 DEF add_vf2_refused
  <2>2. CASE Return(0) /\ UNCHANGED <<Ethdevs, History>>
    BY <1>4, <2>2, ReturnFields DEF add_vf2_refused
  <2> QED BY Zenon, <1>4, <2>1, <2>2 DEF add_vf2_refused
<1>5. CASE init_vf
  <2>1. CASE AddFails(2)
    BY <1>2, <1>5, <2>1 DEF init_vf
  <2>2. CASE Added({ctl.dev}) /\ UNCHANGED slaves
    BY Zenon, <1>3, <1>5, <2>2 DEF init_vf
  <2> QED BY Zenon, <1>5, <2>1, <2>2 DEF init_vf
<1>6. CASE virtio_forwarder_bond_add
  <2>1. CASE AddFails(4)
    BY <1>2, <1>6, <2>1 DEF virtio_forwarder_bond_add
  <2>2. CASE Added({ctl.dev} \cup ctl.vfs) /\ slaves' = [slaves EXCEPT ![ctl.dev] = ctl.vfs]
    <3>1. ctl.vfs \in SUBSET Vfs
      BY Zenon DEF CtlStruct
    <3> QED BY ZenonT(30), <1>3, <1>6, <2>2, <3>1 DEF virtio_forwarder_bond_add
  <2>3. CASE (Return(5) \/ Return(4)) /\ UNCHANGED <<dpdk, dbdf, slaves, back>>
    BY <1>6, <2>3, ReturnFields DEF virtio_forwarder_bond_add
  <2> QED BY Zenon, <1>6, <2>1, <2>2, <2>3 DEF virtio_forwarder_bond_add
<1>7. CASE register_relay_socket \/ rte_vhost_driver_start
  <2>1. ctl' \in CtlStruct
    BY Zenon, <1>0, <1>7, GotoFields DEF register_relay_socket, rte_vhost_driver_start
  <2> QED BY ZenonT(30), <1>7, <2>1 DEF register_relay_socket, rte_vhost_driver_start
<1>8. CASE register_relay_socket_map
  <2>1. ctl' \in CtlStruct
    BY <1>0, <1>8, GotoFields, ReturnFields DEF register_relay_socket_map
  <2>2. ctl.path \in Paths \cup {None}
    BY Zenon DEF CtlStruct
  <2> QED BY ZenonT(30), <1>8, <2>1, <2>2 DEF register_relay_socket_map
<1> QED BY Zenon, <1>1, <1>4, <1>5, <1>6, <1>7, <1>8

\* The steps of a removal keep the types.
LEMMA RemoveTypes ==
  ASSUME Types,
         \/ virtio_remove_sock_dev_pair \/ remove_virtio \/ deregister_socket_vm \/ deregister_socket
         \/ deregister_socket_null \/ virtio_forwarder_remove_vf2 \/ detach_device \/ virtio_query_pci
  PROVE  Types'
<1> USE DEF Types, Sockets, Virtio, Ethdevs, History
<1>0. {"remove_virtio", "wait_virtio", "deregister", "wait_device", "undefined", "remove_vf2", "wait_vf"}
        \subseteq Labels
  BY Zenon DEF Labels
<1>1. CASE virtio_remove_sock_dev_pair
  <2>1. CASE \E ret \in -17 .. 8 : Return(ret)
    BY Zenon, <1>1, <2>1, ReturnFields DEF virtio_remove_sock_dev_pair
  <2>2. CASE \E r \in First(RelaysOf) : Follow(r)
    <3>1. PICK r \in First(RelaysOf) :
            ctl' = [ctl EXCEPT !.pc = "remove_virtio", !.relay = r, !.dev = dbdf[r], !.path = map[r]]
      BY ZenonT(30), <2>2 DEF Follow
    <3>2. r \in Relays
      BY Zenon DEF First, RelaysOf, get_relay_for_sock
    <3>3. r \in 0 .. MaxRelays \cup {None} /\ dbdf[r] \in Devs \cup {None} /\ map[r] \in Paths \cup {None}
      BY <3>2, SockAssumption DEF Relays
    <3>4. ctl' \in CtlStruct
      BY ZenonT(30), <1>0, <3>1, <3>3 DEF CtlStruct
    <3> QED BY Zenon, <1>1, <3>4 DEF virtio_remove_sock_dev_pair
  <2> QED BY <1>1, <2>1, <2>2 DEF virtio_remove_sock_dev_pair
<1>2. CASE remove_virtio
  <2>1. ctl' \in CtlStruct
    BY Zenon, <1>0, <1>2, GotoFields DEF remove_virtio
  <2> QED BY ZenonT(30), <1>2, <2>1, ReleaseFields DEF remove_virtio
<1>3. CASE deregister_socket_vm
  <2>1. ctl' \in CtlStruct
    BY Zenon, <1>0, <1>3, GotoFields DEF deregister_socket_vm
  <2> QED BY ZenonT(30), <1>3, <2>1 DEF deregister_socket_vm, AskVirtio
<1>4. ASSUME NEW err, AfterDeregister(err) PROVE ctl' \in CtlStruct
  BY <1>0, <1>4, GotoFields, ReturnFields DEF AfterDeregister
<1>5. CASE deregister_socket
  BY ZenonT(30), <1>4, <1>5, ReleaseFields DEF deregister_socket
<1>6. CASE deregister_socket_null
  <2>1. ctl' \in CtlStruct
    BY Zenon, <1>0, <1>4, <1>6, GotoFields DEF deregister_socket_null
  <2> QED BY Zenon, <1>6, <2>1 DEF deregister_socket_null
<1>7. ASSUME NEW err \in 0 .. 5, AfterRemove(err) PROVE ctl' \in CtlStruct
  <2>1. CASE ctl.op = "ADD_SOCK"
    BY Zenon, <1>0, <1>7, <2>1, GotoFields DEF AfterRemove
  <2>2. CASE ctl.op # "ADD_SOCK"
    <3>1. \E ret \in -17 .. 8 : Return(ret)
      BY <1>7, <2>2 DEF AfterRemove
    <3> QED BY Zenon, <3>1, ReturnFields
  <2> QED BY Zenon, <2>1, <2>2
<1>8. CASE virtio_forwarder_remove_vf2
  <2>1. ctl' \in CtlStruct
    BY <1>0, <1>7, <1>8, GotoFields DEF virtio_forwarder_remove_vf2
  <2> QED BY Zenon, <1>8, <2>1 DEF virtio_forwarder_remove_vf2
<1>9. CASE detach_device
  <2>1. ctl' \in CtlStruct
    BY <1>7, <1>9 DEF detach_device
  <2>2. slaves' \in [Bonds -> SUBSET Vfs]
    BY <1>9 DEF detach_device
  <2> QED BY ZenonT(30), <1>9, <2>1, <2>2 DEF detach_device
<1>10. CASE virtio_query_pci
  BY <1>10, ReturnFields DEF virtio_query_pci
<1> QED BY Zenon, <1>1, <1>2, <1>3, <1>5, <1>6, <1>8, <1>9, <1>10

-----------------------------------------------------------------------------
(* Sockets and VMs *)

\* No two relays have one socket.
OnePath == \A r, s \in Relays : r # s /\ map[r] = map[s] => map[r] = None

\* While a pair is being added neither its path nor its relay is in the map.
PathFree ==
  ctl.pc \in {"attach", "register", "start", "map"} =>
    /\ ctl.path \in Paths /\ ctl.relay \in Relays /\ map[ctl.relay] = None
    /\ \A r \in Relays : map[r] # ctl.path

\* ADD has a label of its own.
OwnLabel == ctl.pc = "ADD" => ctl.op = "ADD"

\* A path whose device is being destroyed has no READY VM, whoever destroys it.
NotReady ==
  /\ cb # None => \A r \in Relays : map[r] = cb => vio[r] # "READY"
  /\ ctl.pc = "wait_device" =>
       /\ ctl.path \in Paths /\ driver[ctl.path] = "closing" /\ vm[ctl.path] # "connected"
       /\ \A r \in Relays : map[r] = ctl.path => vio[r] # "READY"

\* A VM that is relayed is connected, on the socket of its relay.
ReadyConnected == \A r \in Relays : vio[r] = "READY" => map[r] # None /\ vm[map[r]] = "running"

SocketInv == OnePath /\ PathFree /\ OwnLabel /\ NotReady /\ ReadyConnected

\* A step of the service that opens and closes no socket and makes no VM READY.
LEMMA QuietSocket ==
  ASSUME Types, SocketInv, UNCHANGED <<map, vm, cb>>,
         \A r \in Relays : vio'[r] = "READY" => vio[r] = "READY",
         PathFree', OwnLabel', ctl'.pc # "wait_device"
  PROVE  SocketInv'
BY Zenon DEF Types, SocketInv, OnePath, NotReady, ReadyConnected

\* The workers and the vhost thread: a VM becomes READY when its path is
\* connected, and its device goes only when it is not READY.
LEMMA ThreadSocket ==
  ASSUME Types, SocketInv,
         \/ \E r \in Relays : worker_remove_virtio(r) \/ worker_remove_vf(r)
         \/ \E p \in Paths : Connect(p) \/ new_device_cb(p) \/ destroy_device_cb(p)
  PROVE  SocketInv'
<1> USE DEF Types, Sockets, Virtio, Ethdevs, History
<1>0. None \notin Paths
  BY Zenon, SockAssumption
<1>1. CASE \E r \in Relays : worker_remove_virtio(r) \/ worker_remove_vf(r)
  <2>1. UNCHANGED <<map, vm, cb, driver, ctl>> /\ \A r \in Relays : vio'[r] = "READY" => vio[r] = "READY"
    BY ZenonT(30), <1>1 DEF worker_remove_virtio, worker_remove_vf
  <2> QED BY <2>1 DEF SocketInv, OnePath, PathFree, OwnLabel, NotReady, ReadyConnected
<1>2. ASSUME NEW p \in Paths, Connect(p) PROVE SocketInv'
  BY <1>2 DEF Connect, SocketInv, OnePath, PathFree, OwnLabel, NotReady, ReadyConnected
<1>3. ASSUME NEW p \in Paths, new_device_cb(p) PROVE SocketInv'
  <2>1. PICK r \in get_relay_for_sock(p) : vio' = [vio EXCEPT ![r] = "READY"]
    BY ZenonT(30), <1>3 DEF new_device_cb
  <2>2. /\ r \in Relays /\ map[r] = p /\ cb = None /\ vm[p] = "connected"
        /\ vm' = [vm EXCEPT ![p] = "running"] /\ UNCHANGED <<map, driver, cb, ctl>>
    BY Zenon, <1>3, <2>1 DEF new_device_cb, get_relay_for_sock
  <2>3. NotReady'
    BY ZenonT(30), <2>1, <2>2 DEF SocketInv, NotReady
  <2>4. ReadyConnected'
    BY <1>0, <2>1, <2>2 DEF SocketInv, ReadyConnected
  <2> QED BY ZenonT(30), <2>2, <2>3, <2>4 DEF SocketInv, OnePath, PathFree, OwnLabel
<1>4. ASSUME NEW p \in Paths, destroy_device_cb(p) PROVE SocketInv'
  <2>0. UNCHANGED <<map, driver, ctl>>
    BY Zenon, <1>4 DEF destroy_device_cb
  <2>1. CASE cb = None /\ AskVirtio(p) /\ cb' = p /\ UNCHANGED vm
    <3>1. \A r \in Relays : /\ vio'[r] = "READY" => vio[r] = "READY"
                            /\ map[r] = p => vio'[r] # "READY"
      BY Zenon, <1>0, <2>1 DEF AskVirtio, Asks, get_relay_for_sock
    <3> QED BY <2>0, <2>1, <3>1 DEF SocketInv, OnePath, PathFree, OwnLabel, NotReady, ReadyConnected
  <2>2. CASE /\ vm' = [vm EXCEPT ![p] = "gone"] /\ UNCHANGED vio
             /\ \A r \in Relays : map[r] = p => vio[r] # "READY"
             /\ cb' = None
    BY <2>0, <2>2 DEF SocketInv, OnePath, PathFree, OwnLabel, NotReady, ReadyConnected
  <2>3. CASE /\ cb = None /\ vm[p] # "gone" /\ (vm[p] = "running" => Asks(p) = {})
             /\ vm' = [vm EXCEPT ![p] = "gone"] /\ UNCHANGED <<vio, cb>>
    <3>1. \A r \in Relays : map[r] = p => vio[r] # "READY"
      BY Zenon, <1>0, <2>3 DEF Asks, get_relay_for_sock, SocketInv, ReadyConnected
    <3> QED BY Zenon, <2>2, <2>3, <3>1
  <2>4. CASE cb = p /\ cb' = None /\ vm' = [vm EXCEPT ![p] = "gone"] /\ UNCHANGED vio
    <3>1. \A r \in Relays : map[r] = p => vio[r] # "READY"
      BY Zenon, <1>0, <2>4 DEF SocketInv, NotReady
    <3> QED BY Zenon, <2>2, <2>4, <3>1
  <2> QED BY Zenon, <1>4, <2>1, <2>3, <2>4 DEF destroy_device_cb
<1> QED BY Zenon, <1>1, <1>2, <1>3, <1>4

\* A new request, its answer, and the steps of an addition: the relay enters
\* the map with a path that no other relay has.
LEMMA AddSocket ==
  ASSUME Types, SocketInv,
         \/ handle_PortControlRequest \/ Reply
         \/ virtio_add_sock_dev_pair \/ add_vf2_refused \/ init_vf \/ virtio_forwarder_bond_add
         \/ register_relay_socket \/ rte_vhost_driver_start \/ register_relay_socket_map
  PROVE  SocketInv'
<1> USE DEF Sockets, Virtio, Ethdevs, History
<1>0. ctl \in CtlStruct /\ {"register", "remove_vf2", "start", "map", "attach"} \subseteq Labels
  BY Zenon DEF Types, Labels
<1>1. ASSUME NEW ret \in -17 .. 8, Return(ret) PROVE PathFree' /\ OwnLabel' /\ ctl'.pc # "wait_device"
  BY Zenon, <1>0, <1>1, ReturnFields DEF PathFree, OwnLabel
<1>2. CASE handle_PortControlRequest
  <2>1. PICK q \in Requests : ctl'.pc = q.op /\ ctl'.op = q.op
    BY <1>2 DEF handle_PortControlRequest
  <2>2. q.op \in {"ADD", "REMOVE", "ADD_SOCK", "REMOVE_SOCK", "QUERY_PCI"}
    BY Zenon DEF Requests
  <2>3. PathFree' /\ OwnLabel' /\ ctl'.pc # "wait_device"
    BY Zenon, <2>1, <2>2 DEF PathFree, OwnLabel
  <2> QED BY ZenonT(30), <1>2, <2>3, QuietSocket DEF handle_PortControlRequest
<1>3. CASE Reply
  <2>1. PathFree' /\ OwnLabel' /\ ctl'.pc # "wait_device"
    BY Zenon, <1>3 DEF Reply, Idle, PathFree, OwnLabel
  <2> QED BY Zenon, <1>3, <2>1, QuietSocket DEF Reply
<1>4. CASE virtio_add_sock_dev_pair
  <2>1. CASE \E ret \in -17 .. 8 : Return(ret)
    BY Zenon, <1>1, <1>4, <2>1, QuietSocket DEF virtio_add_sock_dev_pair
  <2>2. CASE /\ ctl.path # None /\ get_relay_for_sock(ctl.path) = {}
             /\ \E t \in First(virtio_get_free_relay_id) : Take(t)
    <3>1. PICK t \in Relays : map[t] = None /\ ctl' = [ctl EXCEPT !.pc = "attach", !.relay = t]
      BY ZenonT(30), <2>2 DEF First, Take, virtio_get_free_relay_id
    <3>2. ctl'.pc = "attach" /\ ctl'.path = ctl.path /\ ctl'.relay = t
      BY Zenon, <1>0, <3>1 DEF CtlStruct
    <3>3. ctl.path \in Paths /\ \A r \in Relays : map[r] # ctl.path
      BY Zenon, <1>0, <2>2 DEF CtlStruct, get_relay_for_sock
    <3>4. PathFree' /\ OwnLabel' /\ ctl'.pc # "wait_device"
      BY Zenon, <1>4, <3>1, <3>2, <3>3 DEF virtio_add_sock_dev_pair, PathFree, OwnLabel
    <3> QED BY Zenon, <1>4, <3>4, QuietSocket DEF virtio_add_sock_dev_pair
  <2> QED BY <1>4, <2>1, <2>2 DEF virtio_add_sock_dev_pair
<1>5. ASSUME NEW ret \in 1 .. 8, AddFails(ret) PROVE PathFree' /\ OwnLabel' /\ ctl'.pc # "wait_device"
  <2>1. \E e \in -17 .. 8 : Return(e)
    BY <1>5 DEF AddFails
  <2> QED BY Zenon, <1>1, <2>1
<1>6. ASSUME NEW devs, Added(devs), ctl.pc \in {"ADD", "attach"}, UNCHANGED map
      PROVE  PathFree' /\ OwnLabel' /\ ctl'.pc # "wait_device"
  <2>1. CASE ctl.op = "ADD"
    BY <1>1, <1>6, <2>1 DEF Added
  <2>2. CASE ctl.op # "ADD"
    <3>1. ctl'.pc = "register" /\ ctl'.path = ctl.path /\ ctl'.relay = ctl.relay
      BY Zenon, <1>0, <1>6, <2>2, GotoFields DEF Added
    <3>2. ctl.pc = "attach"
      BY Zenon, <1>6, <2>2 DEF SocketInv, OwnLabel
    <3> QED BY Zenon, <1>6, <3>1, <3>2 DEF SocketInv, PathFree, OwnLabel
  <2> QED BY Zenon, <2>1, <2>2
<1>7. CASE add_vf2_refused
  <2>1. PathFree' /\ OwnLabel' /\ ctl'.pc # "wait_device"
    BY <1>1, <1>5, <1>7 DEF add_vf2_refused
  <2> QED BY Zenon, <1>7, <2>1, QuietSocket DEF add_vf2_refused
<1>8. CASE init_vf
  <2>1. PathFree' /\ OwnLabel' /\ ctl'.pc # "wait_device"
    BY <1>5, <1>6, <1>8 DEF init_vf
  <2> QED BY ZenonT(30), <1>8, <2>1, QuietSocket DEF init_vf
<1>9. CASE virtio_forwarder_bond_add
  <2>0. ctl.pc \in {"ADD", "attach"} /\ UNCHANGED <<map, vio, vm, cb>>
    BY Zenon, <1>9 DEF virtio_forwarder_bond_add
  <2>1. CASE AddFails(4)
    BY <1>5, <2>0, <2>1, QuietSocket
  <2>2. CASE Added({ctl.dev} \cup ctl.vfs)
    BY Zenon, <1>6, <2>0, <2>2, QuietSocket
  <2>3. CASE Return(IF ctl.op = "ADD" THEN 5 ELSE 4)
    BY <1>1, <2>0, <2>3, QuietSocket
  <2> QED BY Zenon, <1>9, <2>1, <2>2, <2>3 DEF virtio_forwarder_bond_add
<1>10. CASE register_relay_socket \/ rte_vhost_driver_start
  <2>1. /\ ctl.pc \in {"register", "start"} /\ ctl'.pc \in {"remove_vf2", "start", "map"}
        /\ ctl'.path = ctl.path /\ ctl'.relay = ctl.relay /\ UNCHANGED map
    BY Zenon, <1>0, <1>10, GotoFields DEF register_relay_socket, rte_vhost_driver_start
  <2>2. PathFree' /\ OwnLabel' /\ ctl'.pc # "wait_device"
    BY Zenon, <2>1 DEF SocketInv, PathFree, OwnLabel
  <2> QED BY Zenon, <1>10, <2>2, QuietSocket DEF register_relay_socket, rte_vhost_driver_start
<1>11. CASE register_relay_socket_map
  <2>1. /\ ctl.path \in Paths /\ ctl.relay \in Relays /\ map[ctl.relay] = None
        /\ \A r \in Relays : map[r] # ctl.path
        /\ map' = [map EXCEPT ![ctl.relay] = ctl.path] /\ UNCHANGED <<vio, vm, cb>>
    BY Zenon, <1>11 DEF register_relay_socket_map, SocketInv, PathFree
  <2>2. ctl'.pc \in {"reply", "remove_vf2"}
    BY <1>0, <1>11, GotoFields, ReturnFields DEF register_relay_socket_map
  <2>3. OnePath'
    BY Zenon, <2>1 DEF SocketInv, OnePath, Types
  <2>4. vio[ctl.relay] # "READY"
    BY Zenon, <2>1 DEF SocketInv, ReadyConnected
  <2>5. NotReady'
    BY Zenon, <2>1, <2>2, <2>4 DEF SocketInv, NotReady, Types
  <2>6. ReadyConnected'
    BY Zenon, <2>1, <2>4 DEF SocketInv, ReadyConnected, Types
  <2> QED BY Zenon, <2>2, <2>3, <2>5, <2>6 DEF SocketInv, PathFree, OwnLabel
<1> QED BY Zenon, <1>2, <1>3, <1>4, <1>7, <1>8, <1>9, <1>10, <1>11

\* The steps of a removal: a socket is closed when its VM is not READY.
LEMMA RemoveSocket ==
  ASSUME Types, SocketInv,
         \/ virtio_remove_sock_dev_pair \/ remove_virtio \/ deregister_socket_vm \/ deregister_socket
         \/ deregister_socket_null \/ virtio_forwarder_remove_vf2 \/ detach_device \/ virtio_query_pci
  PROVE  SocketInv'
<1> USE DEF Sockets, Virtio, Ethdevs, History
<1> DEFINE After ==
             {"remove_virtio", "wait_virtio", "deregister", "undefined", "remove_vf2", "wait_vf", "reply"}
<1>0. /\ ctl \in CtlStruct /\ After \cup {"wait_device"} \subseteq Labels
      /\ None \notin Paths
  BY Zenon, SockAssumption DEF Types, Labels
<1>1. ASSUME ctl'.pc \in After PROVE PathFree' /\ OwnLabel' /\ ctl'.pc # "wait_device"
  BY Zenon, <1>1 DEF PathFree, OwnLabel
<1>2. ASSUME NEW ret \in -17 .. 8, Return(ret) PROVE ctl'.pc \in After
  BY Zenon, <1>0, <1>2, ReturnFields
<1>3. ASSUME NEW err, AfterDeregister(err) PROVE ctl'.pc \in After
  BY <1>0, <1>2, <1>3, GotoFields DEF AfterDeregister
<1>4. ASSUME NEW err \in 0 .. 5, AfterRemove(err) PROVE ctl'.pc \in After
  <2>1. CASE ctl.op = "ADD_SOCK"
    BY Zenon, <1>0, <1>4, <2>1, GotoFields DEF AfterRemove
  <2>2. CASE ctl.op # "ADD_SOCK"
    <3>1. \E ret \in -17 .. 8 : Return(ret)
      BY <1>4, <2>2 DEF AfterRemove
    <3> QED BY Zenon, <1>2, <3>1
  <2> QED BY Zenon, <2>1, <2>2
<1>5. CASE virtio_remove_sock_dev_pair
  <2>1. ctl'.pc \in After
    <3>1. CASE \E ret \in -17 .. 8 : Return(ret)
      BY Zenon, <1>2, <3>1
    <3>2. CASE \E r \in First(RelaysOf) : Follow(r)
      BY Zenon, <1>0, <3>2 DEF CtlStruct, Follow
    <3> QED BY <1>5, <3>1, <3>2 DEF virtio_remove_sock_dev_pair
  <2> QED BY ZenonT(30), <1>1, <1>5, <2>1, QuietSocket DEF virtio_remove_sock_dev_pair
<1>6. CASE remove_virtio
  <2>1. ctl'.pc \in After
    BY Zenon, <1>0, <1>6, GotoFields DEF remove_virtio
  <2>2. \A r \in Relays : vio'[r] = "READY" => vio[r] = "READY"
    BY ZenonT(30), <1>6 DEF remove_virtio, Types
  <2> QED BY Zenon, <1>1, <1>6, <2>1, <2>2, QuietSocket DEF remove_virtio
<1>7. CASE deregister_socket_vm
  <2>1. /\ ctl.path \in Paths /\ cb = None /\ vm[ctl.path] = "running"
        /\ driver' = [driver EXCEPT ![ctl.path] = "closing"] /\ UNCHANGED <<map, vm, cb>>
    BY Zenon, <1>0, <1>7 DEF deregister_socket_vm, CtlStruct
  <2>2. ctl'.pc = "wait_device" /\ ctl'.path = ctl.path
    BY Zenon, <1>0, <1>7, GotoFields DEF deregister_socket_vm
  <2>3. \A r \in Relays : /\ vio'[r] = "READY" => vio[r] = "READY"
                          /\ map[r] = ctl.path => vio'[r] # "READY"
    BY Zenon, <1>0, <1>7, <2>1 DEF deregister_socket_vm, AskVirtio, Asks, get_relay_for_sock
  <2>4. NotReady'
    BY ZenonT(30), <2>1, <2>2, <2>3 DEF NotReady, Types
  <2> QED BY Zenon, <2>1, <2>2, <2>3, <2>4 DEF SocketInv, OnePath, PathFree, OwnLabel, ReadyConnected
<1>8. CASE deregister_socket
  <2>1. /\ ctl.path \in Paths /\ vm' = [vm EXCEPT ![ctl.path] = "gone"] /\ UNCHANGED <<vio, cb>>
        /\ map' = [r \in Relays |-> IF map[r] = ctl.path THEN None ELSE map[r]]
    BY Zenon, <1>0, <1>8 DEF deregister_socket, get_relay_for_sock, CtlStruct
  <2>2. ctl'.pc \in After
    BY Zenon, <1>3, <1>8 DEF deregister_socket
  <2>3. \A r \in Relays : map[r] = ctl.path => vio[r] # "READY"
    <3>1. CASE ctl.pc = "wait_device"
      BY Zenon, <3>1 DEF SocketInv, NotReady
    <3>2. CASE vm[ctl.path] = "running" => Asks(ctl.path) = {}
      BY Zenon, <1>0, <2>1, <3>2 DEF Asks, get_relay_for_sock, SocketInv, ReadyConnected
    <3> QED BY Zenon, <1>8, <3>1, <3>2 DEF deregister_socket
  <2>4. OnePath'
    BY Zenon, <2>1 DEF SocketInv, OnePath
  <2>5. NotReady'
    BY Zenon, <1>0, <2>1, <2>2 DEF SocketInv, NotReady, Types
  <2>6. ReadyConnected'
    BY ZenonT(30), <1>0, <2>1, <2>3 DEF SocketInv, ReadyConnected, Types
  <2> QED BY Zenon, <1>1, <2>2, <2>4, <2>5, <2>6 DEF SocketInv
<1>9. CASE deregister_socket_null
  <2>1. ctl'.pc \in After
    BY Zenon, <1>0, <1>3, <1>9, GotoFields DEF deregister_socket_null
  <2> QED BY Zenon, <1>1, <1>9, <2>1, QuietSocket DEF deregister_socket_null
<1>10. CASE virtio_forwarder_remove_vf2
  <2>1. ctl'.pc \in After
    BY SMTT(30), <1>0, <1>4, <1>10, GotoFields DEF virtio_forwarder_remove_vf2
  <2> QED BY Zenon, <1>1, <1>10, <2>1, QuietSocket DEF virtio_forwarder_remove_vf2
<1>11. CASE detach_device
  <2>1. ctl'.pc \in After
    BY <1>4, <1>11 DEF detach_device
  <2> QED BY ZenonT(30), <1>1, <1>11, <2>1, QuietSocket DEF detach_device
<1>12. CASE virtio_query_pci
  <2>1. ctl'.pc \in After
    BY <1>2, <1>12 DEF virtio_query_pci
  <2> QED BY Zenon, <1>1, <1>12, <2>1, QuietSocket DEF virtio_query_pci
<1> QED BY Zenon, <1>5, <1>6, <1>7, <1>8, <1>9, <1>10, <1>11, <1>12

-----------------------------------------------------------------------------
(* Workers and the waits for them *)

\* The device that is being destroyed is there until the wait is over, and is
\* destroyed by one thread.
DeviceKept ==
  /\ cb # None => vm[cb] = "running"
  /\ ctl.pc = "wait_device" => vm[ctl.path] = "running" /\ cb # ctl.path

\* A VM without a worker came back while a removal waited, or has been left by
\* a wait that timed out.
HasWorker ==
  \A r \in Relays :
    vio[r] # "UNINIT" /\ ~vio2vf[r] /\ (vio[r] = "READY" \/ "timeout" \notin Faults) => r \in back

\* When the VM is READY, or is removed by the vhost thread, while the service
\* waits for the answer, it came back.
MissedAnswer ==
  /\ ctl.pc \in {"remove_virtio", "wait_virtio"} => ctl.relay \in Relays
  /\ /\ ctl.pc = "wait_virtio"
     /\ vio[ctl.relay] = "READY" \/ (vio[ctl.relay] = "REMOVING" /\ AnswerMissed(ctl.relay))
     => ctl.relay \in back

\* Unless waits time out somebody waits for every answer that is to come.
Waited ==
  "timeout" \notin Faults =>
    \A r \in Relays : vio[r] = "REMOVING" /\ vio2vf[r] =>
      \/ cb # None /\ map[r] = cb
      \/ ctl.pc = "wait_virtio" /\ ctl.relay = r
      \/ ctl.pc = "wait_device" /\ map[r] = ctl.path

WorkInv == DeviceKept /\ HasWorker /\ MissedAnswer /\ Waited

\* A step of the service that neither begins nor ends a wait.
LEMMA QuietWork ==
  ASSUME Types, WorkInv, UNCHANGED <<vio, vio2vf, vm, cb, back>>,
         \A r \in Relays : map'[r] = map[r] \/ map[r] = None,
         ctl.pc \notin {"wait_virtio", "wait_device"}, ctl'.pc \notin {"wait_virtio", "wait_device"},
         ctl'.pc = "remove_virtio" => ctl'.relay \in Relays
  PROVE  WorkInv'
<1>1. DeviceKept' /\ HasWorker' /\ MissedAnswer'
  BY Zenon DEF WorkInv, DeviceKept, HasWorker, MissedAnswer
<1>2. Waited'
  BY ZenonT(30) DEF WorkInv, Waited
<1> QED BY Zenon, <1>1, <1>2 DEF WorkInv

\* A worker's answer: the VM that came back has left again.
LEMMA AnswerWork ==
  ASSUME Types, WorkInv, \E r \in Relays : worker_remove_virtio(r) \/ worker_remove_vf(r)
  PROVE  WorkInv'
<1> USE DEF Types, Sockets, Virtio, Ethdevs, History
<1>1. ASSUME NEW t \in Relays, worker_remove_vf(t) PROVE WorkInv'
  BY ZenonT(30), <1>1 DEF worker_remove_vf, WorkInv, DeviceKept, HasWorker, MissedAnswer, AnswerMissed, Waited
<1>2. ASSUME NEW t \in Relays, worker_remove_virtio(t) PROVE WorkInv'
  <2>1. /\ vio'[t] = "UNINIT" /\ \A r \in Relays : r # t => vio'[r] = vio[r] /\ (r \in back' <=> r \in back)
        /\ UNCHANGED <<map, vio2vf, vm, cb, ctl>>
    BY Zenon, <1>2 DEF worker_remove_virtio
  <2>2. DeviceKept' /\ HasWorker'
    BY ZenonT(30), <2>1 DEF WorkInv, DeviceKept, HasWorker
  <2>3. MissedAnswer'
    BY ZenonT(30), <2>1 DEF WorkInv, MissedAnswer, AnswerMissed
  <2>4. Waited'
    BY ZenonT(30), <2>1 DEF WorkInv, Waited
  <2> QED BY Zenon, <2>2, <2>3, <2>4 DEF WorkInv
<1> QED BY Zenon, <1>1, <1>2

\* A VM connects, and gets a worker when its device is taken.
LEMMA ConnectWork ==
  ASSUME Types, SocketInv, WorkInv, NEW p \in Paths, Connect(p) \/ new_device_cb(p)
  PROVE  WorkInv'
<1> USE DEF Types, Sockets, Virtio, Ethdevs, History
<1>1. CASE Connect(p)
  <2>1. vm[p] = "gone" /\ vm' = [vm EXCEPT ![p] = "connected"] /\ UNCHANGED <<map, vio, vio2vf, cb, ctl, back>>
    BY Zenon, <1>1 DEF Connect
  <2>2. DeviceKept'
    BY ZenonT(30), <2>1 DEF WorkInv, DeviceKept, SocketInv, NotReady
  <2> QED BY ZenonT(30), <2>1, <2>2 DEF WorkInv, HasWorker, MissedAnswer, AnswerMissed, Waited
<1>2. CASE new_device_cb(p)
  <2>1. PICK t \in get_relay_for_sock(p) :
          /\ vio' = [vio EXCEPT ![t] = "READY"] /\ vio2vf' = [vio2vf EXCEPT ![t] = TRUE]
          /\ back' = IF ctl.pc = "wait_virtio" /\ ctl.relay = t THEN back \cup {t} ELSE back
    BY ZenonT(30), <1>2 DEF new_device_cb
  <2>2. /\ t \in Relays /\ cb = None /\ vm[p] = "connected" /\ vm' = [vm EXCEPT ![p] = "running"]
        /\ UNCHANGED <<map, cb, ctl>>
    BY Zenon, <1>2, <2>1 DEF new_device_cb, get_relay_for_sock
  <2>3. /\ vio'[t] = "READY" /\ vio2vf'[t] /\ (ctl.pc = "wait_virtio" /\ ctl.relay = t => t \in back')
        /\ \A r \in Relays : r \in back => r \in back'
        /\ \A r \in Relays : r # t => vio'[r] = vio[r] /\ vio2vf'[r] = vio2vf[r]
    BY ZenonT(30), <2>1, <2>2
  <2>4. DeviceKept'
    BY ZenonT(30), <2>2 DEF WorkInv, DeviceKept, SocketInv, NotReady
  <2>5. HasWorker'
    BY ZenonT(30), <2>3 DEF WorkInv, HasWorker
  <2>6. MissedAnswer'
    BY ZenonT(30), <2>2, <2>3 DEF WorkInv, MissedAnswer, AnswerMissed
  <2>7. Waited'
    BY ZenonT(30), <2>2, <2>3 DEF WorkInv, Waited
  <2> QED BY Zenon, <2>4, <2>5, <2>6, <2>7 DEF WorkInv
<1> QED BY Zenon, <1>1, <1>2

\* The vhost thread destroys a device.
LEMMA DestroyWork ==
  ASSUME Types, SocketInv, WorkInv, NEW p \in Paths, destroy_device_cb(p)
  PROVE  WorkInv'
<1> USE DEF Types, Sockets, Virtio, Ethdevs, History
<1>0. None \notin Paths /\ UNCHANGED <<map, driver, ctl, back>>
  BY Zenon, SockAssumption DEF destroy_device_cb
<1>1. CASE /\ cb = None /\ vm[p] = "running" /\ Asks(p) # {}
           /\ AskVirtio(p) /\ cb' = p /\ UNCHANGED <<vio2vf, vm>>
  <2>1. PICK t \in Relays : map[t] = p /\ vio[t] = "READY"
    BY Zenon, <1>1 DEF Asks, get_relay_for_sock
  <2>2. \A r \in Relays : vio'[r] = IF r = t THEN "REMOVING" ELSE vio[r]
    <3>1. \A r \in Relays : map[r] = p => r = t
      BY Zenon, <1>0, <2>1 DEF SocketInv, OnePath
    <3> QED BY Zenon, <1>0, <1>1, <2>1, <3>1 DEF AskVirtio, Asks, get_relay_for_sock
  <2>3. DeviceKept'
    BY Zenon, <1>0, <1>1, <2>1 DEF WorkInv, DeviceKept, SocketInv, NotReady
  <2>4. HasWorker'
    BY ZenonT(30), <1>0, <1>1, <2>1, <2>2 DEF WorkInv, HasWorker
  <2>5. MissedAnswer'
    <3>1. \A r \in Relays : r # t => map[r] # p
      BY Zenon, <1>0, <2>1 DEF SocketInv, OnePath
    <3> QED BY ZenonT(30), <1>0, <1>1, <2>1, <2>2, <3>1 DEF WorkInv, MissedAnswer, AnswerMissed
  <2>6. Waited'
    BY ZenonT(30), <1>0, <1>1, <2>1, <2>2 DEF WorkInv, Waited
  <2> QED BY Zenon, <2>3, <2>4, <2>5, <2>6 DEF WorkInv
<1>2. CASE /\ cb = None /\ driver[p] # "closing"
           /\ vm' = [vm EXCEPT ![p] = "gone"] /\ UNCHANGED <<Virtio, cb>>
  <2>1. DeviceKept'
    BY ZenonT(30), <1>0, <1>2 DEF WorkInv, DeviceKept, SocketInv, NotReady
  <2> QED BY ZenonT(30), <1>0, <1>2, <2>1 DEF WorkInv, HasWorker, MissedAnswer, AnswerMissed, Waited
<1>3. CASE /\ cb = p /\ \A r \in get_relay_for_sock(p) : WaitOver(r)
           /\ Release(get_relay_for_sock(p))
           /\ cb' = None /\ vm' = [vm EXCEPT ![p] = "gone"] /\ UNCHANGED vio
  <2>1. /\ \A r \in Relays : vio2vf'[r] <=> vio2vf[r] /\ map[r] # p
        /\ \A r \in Relays : map[r] = p => vio[r] # "READY" /\ WaitOver(r)
    <3>1. \A r \in Relays : vio2vf'[r] <=> vio2vf[r] /\ r \notin get_relay_for_sock(p)
      BY Zenon, <1>3 DEF Release
    <3>2. \A r \in Relays : r \in get_relay_for_sock(p) <=> map[r] = p
      BY Zenon, <1>0 DEF get_relay_for_sock
    <3> QED BY ZenonT(30), <1>0, <1>3, <3>1, <3>2 DEF SocketInv, NotReady
  <2>2. DeviceKept'
    BY ZenonT(30), <1>0, <1>3 DEF WorkInv, DeviceKept, SocketInv, NotReady
  <2>3. HasWorker'
    BY ZenonT(30), <1>0, <1>3, <2>1 DEF WorkInv, HasWorker, WaitOver
  <2>4. MissedAnswer'
    BY ZenonT(30), <1>0, <1>3 DEF WorkInv, MissedAnswer, AnswerMissed
  <2>5. Waited'
    BY ZenonT(30), <1>0, <1>3, <2>1 DEF WorkInv, Waited
  <2> QED BY Zenon, <2>2, <2>3, <2>4, <2>5 DEF WorkInv
<1> QED BY ZenonT(30), <1>1, <1>2, <1>3 DEF destroy_device_cb

\* The service waits for the worker, and takes it away after the wait.
LEMMA RemoveWork ==
  ASSUME Types, SocketInv, WorkInv, remove_virtio
  PROVE  WorkInv'
<1> USE DEF Types, Sockets, Virtio, Ethdevs, History
<1>0. /\ ctl \in CtlStruct /\ {"wait_virtio", "deregister"} \subseteq Labels
      /\ ctl.pc \in {"remove_virtio", "wait_virtio"} /\ ctl.relay \in Relays
      /\ UNCHANGED <<map, vm, cb, back>>
  BY Zenon DEF Labels, remove_virtio, WorkInv, MissedAnswer
<1>1. PICK t \in Relays : t = ctl.relay
  BY Zenon, <1>0
<1>2. CASE /\ ctl.pc = "remove_virtio" /\ vio[ctl.relay] = "READY"
           /\ vio' = [vio EXCEPT ![ctl.relay] = "REMOVING"] /\ Goto("wait_virtio") /\ UNCHANGED vio2vf
  <2>1. ctl'.pc = "wait_virtio" /\ ctl'.relay = t
    BY Zenon, <1>0, <1>1, <1>2, GotoFields
  <2>2. vio[t] = "READY" /\ \A r \in Relays : vio'[r] = IF r = t THEN "REMOVING" ELSE vio[r]
    BY Zenon, <1>1, <1>2
  <2>3. ~AnswerMissed(t)
    BY Zenon, <2>2 DEF AnswerMissed, SocketInv, NotReady
  <2>4. DeviceKept' /\ HasWorker'
    BY ZenonT(30), <1>0, <1>2, <2>1, <2>2 DEF WorkInv, DeviceKept, HasWorker
  <2>5. MissedAnswer'
    BY ZenonT(30), <1>0, <2>1, <2>2, <2>3 DEF MissedAnswer, AnswerMissed
  <2>6. Waited'
    BY ZenonT(30), <1>0, <1>2, <2>1, <2>2 DEF WorkInv, Waited
  <2> QED BY Zenon, <2>4, <2>5, <2>6 DEF WorkInv
<1>3. CASE ctl.pc = "remove_virtio" /\ Goto("deregister") /\ UNCHANGED Virtio
  <2>1. ctl'.pc = "deregister"
    BY Zenon, <1>0, <1>3, GotoFields
  <2> QED BY ZenonT(30), <1>0, <1>3, <2>1, QuietWork
<1>4. CASE /\ ctl.pc = "wait_virtio" /\ (WaitOver(ctl.relay) \/ AnswerMissed(ctl.relay))
           /\ Goto("deregister") /\ Release({ctl.relay}) /\ UNCHANGED vio
  <2>1. ctl'.pc = "deregister"
    BY Zenon, <1>0, <1>4, GotoFields
  <2>2. /\ \A r \in Relays : vio2vf'[r] <=> vio2vf[r] /\ r # t
        /\ WaitOver(t) \/ AnswerMissed(t)
    BY Zenon, <1>1, <1>4 DEF Release
  <2>3. ASSUME vio[t] # "UNINIT", vio[t] = "READY" \/ "timeout" \notin Faults PROVE t \in back
    <3>1. CASE vio[t] = "READY" \/ AnswerMissed(t)
      BY Zenon, <1>1, <1>4, <2>3, <3>1 DEF WorkInv, MissedAnswer
    <3>2. CASE WaitOver(t) /\ vio[t] # "READY"
      BY Zenon, <2>3, <3>2 DEF WorkInv, HasWorker, WaitOver
    <3> QED BY Zenon, <2>2, <3>1, <3>2
  <2>4. DeviceKept' /\ MissedAnswer'
    BY ZenonT(30), <1>0, <2>1 DEF WorkInv, DeviceKept, MissedAnswer
  <2>5. HasWorker'
    BY ZenonT(30), <1>0, <1>4, <2>2, <2>3 DEF WorkInv, HasWorker
  <2>6. Waited'
    BY ZenonT(30), <1>0, <1>1, <1>4, <2>1, <2>2 DEF WorkInv, Waited
  <2> QED BY Zenon, <2>4, <2>5, <2>6 DEF WorkInv
<1> QED BY ZenonT(30), <1>2, <1>3, <1>4 DEF remove_virtio

\* The service closes a socket: the device of its VM goes when the wait for the
\* worker is over.
LEMMA CloseWork ==
  ASSUME Types, SocketInv, WorkInv, deregister_socket_vm \/ deregister_socket
  PROVE  WorkInv'
<1> USE DEF Types, Sockets, Virtio, Ethdevs, History
<1>0. /\ ctl \in CtlStruct /\ {"wait_device", "remove_vf2"} \subseteq Labels /\ None \notin Paths
      /\ ctl.path \in Paths /\ UNCHANGED <<cb, back>>
  BY Zenon, SockAssumption DEF Labels, CtlStruct, deregister_socket_vm, deregister_socket
<1>1. PICK p \in Paths : p = ctl.path
  BY Zenon, <1>0
<1>2. CASE deregister_socket_vm
  <2>1. ctl'.pc = "wait_device" /\ ctl'.path = p
    BY Zenon, <1>0, <1>1, <1>2, GotoFields DEF deregister_socket_vm
  <2>2. ctl.pc = "deregister" /\ cb = None /\ vm[p] = "running" /\ UNCHANGED <<map, vio2vf, vm>>
    BY Zenon, <1>1, <1>2 DEF deregister_socket_vm
  <2>3. \A r \in Relays : vio'[r] = IF map[r] = p /\ vio[r] = "READY" THEN "REMOVING" ELSE vio[r]
    BY Zenon, <1>0, <1>1, <1>2 DEF deregister_socket_vm, AskVirtio, Asks, get_relay_for_sock
  <2>4. DeviceKept' /\ MissedAnswer'
    BY ZenonT(30), <1>0, <2>1, <2>2 DEF DeviceKept, MissedAnswer
  <2>5. HasWorker'
    BY ZenonT(30), <1>0, <2>2, <2>3 DEF WorkInv, HasWorker
  <2>6. Waited'
    BY ZenonT(30), <1>0, <2>1, <2>2, <2>3 DEF WorkInv, Waited
  <2> QED BY Zenon, <2>4, <2>5, <2>6 DEF WorkInv
<1>3. CASE deregister_socket
  <2>1. ctl'.pc \in {"reply", "remove_vf2"}
    BY <1>0, <1>3, GotoFields, ReturnFields DEF deregister_socket, AfterDeregister
  <2>2. /\ vm' = [vm EXCEPT ![p] = "gone"] /\ UNCHANGED vio
        /\ \A r \in Relays : map'[r] = IF map[r] = p THEN None ELSE map[r]
    BY Zenon, <1>0, <1>1, <1>3 DEF deregister_socket, get_relay_for_sock
  <2>3. CASE ctl.pc = "deregister" /\ cb = None
    <3>1. \A r \in Relays : vio2vf'[r] <=> vio2vf[r]
      <4>1. Release({})
        BY ZenonT(30), <1>3, <2>3 DEF deregister_socket
      <4> QED BY Zenon, <4>1 DEF Release
    <3>2. DeviceKept' /\ MissedAnswer'
      BY Zenon, <1>0, <2>1, <2>3 DEF DeviceKept, MissedAnswer
    <3>3. HasWorker'
      BY ZenonT(30), <1>0, <2>2, <3>1 DEF WorkInv, HasWorker
    <3>4. Waited'
      BY ZenonT(30), <2>2, <2>3, <3>1 DEF WorkInv, Waited
    <3> QED BY Zenon, <3>2, <3>3, <3>4 DEF WorkInv
  <2>4. CASE ctl.pc = "wait_device" /\ \A r \in get_relay_for_sock(ctl.path) : WaitOver(r)
    <3>1. \A r \in Relays : r \in get_relay_for_sock(ctl.path) <=> map[r] = p
      BY Zenon, <1>0, <1>1 DEF get_relay_for_sock
    <3>2. \A r \in Relays : vio2vf'[r] <=> vio2vf[r] /\ map[r] # p
      <4>1. Release(get_relay_for_sock(ctl.path))
        BY ZenonT(30), <1>3, <2>4 DEF deregister_socket
      <4> QED BY Zenon, <3>1, <4>1 DEF Release
    <3>3. \A r \in Relays : map[r] = p => vio[r] # "READY" /\ WaitOver(r)
      BY Zenon, <1>1, <2>4, <3>1 DEF SocketInv, NotReady
    <3>4. DeviceKept'
      BY ZenonT(30), <1>0, <1>1, <2>1, <2>2, <2>4 DEF WorkInv, DeviceKept
    <3>5. MissedAnswer'
      BY Zenon, <2>1 DEF MissedAnswer
    <3>6. HasWorker'
      BY ZenonT(30), <1>0, <2>2, <3>2, <3>3 DEF WorkInv, HasWorker, WaitOver
    <3>7. Waited'
      BY ZenonT(30), <1>0, <1>1, <2>2, <2>4, <3>2 DEF WorkInv, Waited
    <3> QED BY Zenon, <3>4, <3>5, <3>6, <3>7 DEF WorkInv
  <2> QED BY Zenon, <1>3, <2>3, <2>4 DEF deregister_socket
<1> QED BY Zenon, <1>2, <1>3

\* The other steps of the service leave VMs and workers alone.
LEMMA ServiceWork ==
  ASSUME Types, SocketInv, WorkInv,
         \/ handle_PortControlRequest \/ Reply
         \/ virtio_add_sock_dev_pair \/ add_vf2_refused \/ init_vf \/ virtio_forwarder_bond_add
         \/ register_relay_socket \/ rte_vhost_driver_start \/ register_relay_socket_map
         \/ virtio_remove_sock_dev_pair \/ deregister_socket_null \/ virtio_forwarder_remove_vf2
         \/ detach_device \/ virtio_query_pci
  PROVE  WorkInv'
<1> USE DEF Sockets, Virtio, Ethdevs, History
<1> DEFINE Quiet(c) == c.pc \notin {"wait_virtio", "wait_device"}
           Found(c) == c.pc = "remove_virtio" => c.relay \in Relays
<1>0. /\ ctl \in CtlStruct
      /\ {"register", "remove_vf2", "start", "map", "attach", "undefined", "deregister", "wait_vf"} \subseteq Labels
  BY Zenon DEF Types, Labels
<1>1. ASSUME NEW ret \in -17 .. 8, Return(ret) PROVE Quiet(ctl') /\ Found(ctl')
  BY Zenon, <1>0, <1>1, ReturnFields
<1>2. ASSUME NEW l \in {"register", "remove_vf2", "start", "map", "attach", "undefined", "deregister", "wait_vf"},
             Goto(l)
      PROVE  Quiet(ctl') /\ Found(ctl')
  <2>1. ctl'.pc = l
    BY Zenon, <1>0, <1>2, GotoFields
  <2> QED BY Zenon, <2>1
<1>3. CASE handle_PortControlRequest \/ Reply
  <2>1. Quiet(ctl) /\ UNCHANGED <<map, vio, vio2vf, vm, cb, back>>
    BY Zenon, <1>3 DEF handle_PortControlRequest, Reply
  <2>2. Quiet(ctl') /\ Found(ctl')
    <3>1. CASE handle_PortControlRequest
      <4>1. PICK q \in Requests : ctl'.pc = q.op
        BY <3>1 DEF handle_PortControlRequest
      <4>2. q.op \in {"ADD", "REMOVE", "ADD_SOCK", "REMOVE_SOCK", "QUERY_PCI"}
        BY Zenon DEF Requests
      <4> QED BY Zenon, <4>1, <4>2
    <3>2. CASE Reply
      BY Zenon, <3>2 DEF Reply, Idle
    <3> QED BY Zenon, <1>3, <3>1, <3>2
  <2> QED BY ZenonT(30), <2>1, <2>2, QuietWork
<1>4. CASE virtio_add_sock_dev_pair
  <2>1. Quiet(ctl) /\ UNCHANGED <<map, vio, vio2vf, vm, cb, back>>
    BY Zenon, <1>4 DEF virtio_add_sock_dev_pair
  <2>2. Quiet(ctl') /\ Found(ctl')
    <3>1. CASE \E ret \in -17 .. 8 : Return(ret)
      BY Zenon, <1>1, <3>1
    <3>2. CASE \E r \in First(virtio_get_free_relay_id) : Take(r)
      BY Zenon, <1>0, <3>2 DEF CtlStruct, Take
    <3> QED BY <1>4, <3>1, <3>2 DEF virtio_add_sock_dev_pair
  <2> QED BY ZenonT(30), <2>1, <2>2, QuietWork
<1>5. ASSUME NEW ret \in 1 .. 8, AddFails(ret) PROVE Quiet(ctl') /\ Found(ctl') /\ UNCHANGED back
  <2>1. \E e \in -17 .. 8 : Return(e)
    BY <1>5 DEF AddFails
  <2> QED BY Zenon, <1>1, <1>5, <2>1 DEF AddFails
<1>6. ASSUME NEW devs, Added(devs) PROVE Quiet(ctl') /\ Found(ctl') /\ UNCHANGED back
  BY <1>1, <1>2, <1>6 DEF Added
<1>7. CASE add_vf2_refused \/ init_vf \/ virtio_forwarder_bond_add
  <2>1. Quiet(ctl) /\ UNCHANGED <<map, vio, vio2vf, vm, cb>>
    BY Zenon, <1>7 DEF add_vf2_refused, init_vf, virtio_forwarder_bond_add
  <2>2. Quiet(ctl') /\ Found(ctl') /\ UNCHANGED back
    <3>1. CASE add_vf2_refused
      BY <1>1, <1>5, <3>1 DEF add_vf2_refused
    <3>2. CASE init_vf
      BY <1>5, <1>6, <3>2 DEF init_vf
    <3>3. CASE virtio_forwarder_bond_add
      <4>1. CASE AddFails(4)
        BY <1>5, <4>1
      <4>2. CASE Added({ctl.dev} \cup ctl.vfs)
        BY Zenon, <1>6, <4>2
      <4>3. CASE Return(IF ctl.op = "ADD" THEN 5 ELSE 4) /\ UNCHANGED back
        BY <1>1, <4>3
      <4> QED BY ZenonT(30), <3>3, <4>1, <4>2, <4>3 DEF virtio_forwarder_bond_add
    <3> QED BY Zenon, <1>7, <3>1, <3>2, <3>3
  <2> QED BY ZenonT(30), <2>1, <2>2, QuietWork
<1>8. CASE register_relay_socket \/ rte_vhost_driver_start
  <2>1. Quiet(ctl) /\ UNCHANGED <<map, vio, vio2vf, vm, cb, back>>
    BY Zenon, <1>8 DEF register_relay_socket, rte_vhost_driver_start
  <2>2. Quiet(ctl') /\ Found(ctl')
    BY Zenon, <1>2, <1>8 DEF register_relay_socket, rte_vhost_driver_start
  <2> QED BY ZenonT(30), <2>1, <2>2, QuietWork
<1>9. CASE register_relay_socket_map
  <2>1. Quiet(ctl) /\ UNCHANGED <<vio, vio2vf, vm, cb, back>>
    BY Zenon, <1>9 DEF register_relay_socket_map
  <2>2. \A r \in Relays : map'[r] = map[r] \/ map[r] = None
    BY ZenonT(30), <1>9 DEF register_relay_socket_map, SocketInv, PathFree, Types
  <2>3. Quiet(ctl') /\ Found(ctl')
    BY <1>1, <1>2, <1>9 DEF register_relay_socket_map
  <2> QED BY ZenonT(30), <2>1, <2>2, <2>3, QuietWork
<1>10. CASE virtio_remove_sock_dev_pair
  <2>1. Quiet(ctl) /\ UNCHANGED <<map, vio, vio2vf, vm, cb, back>>
    BY Zenon, <1>10 DEF virtio_remove_sock_dev_pair
  <2>2. Quiet(ctl') /\ Found(ctl')
    <3>1. CASE \E ret \in -17 .. 8 : Return(ret)
      BY Zenon, <1>1, <3>1
    <3>2. CASE \E r \in First(RelaysOf) : Follow(r)
      <4>1. PICK r \in First(RelaysOf) : Follow(r)
        BY Zenon, <3>2
      <4>2. r \in Relays
        BY Zenon, <4>1 DEF First, RelaysOf, get_relay_for_sock
      <4>3. ctl'.pc = "remove_virtio" /\ ctl'.relay = r
        BY Zenon, <1>0, <4>1 DEF CtlStruct, Follow
      <4> QED BY Zenon, <4>2, <4>3
    <3> QED BY <1>10, <3>1, <3>2 DEF virtio_remove_sock_dev_pair
  <2> QED BY ZenonT(30), <2>1, <2>2, QuietWork
<1>11. ASSUME NEW err, AfterDeregister(err) PROVE Quiet(ctl') /\ Found(ctl')
  BY <1>1, <1>2, <1>11 DEF AfterDeregister
<1>12. ASSUME NEW err \in 0 .. 5, AfterRemove(err) PROVE Quiet(ctl') /\ Found(ctl')
  <2>1. CASE ctl.op = "ADD_SOCK"
    BY Zenon, <1>2, <1>12, <2>1 DEF AfterRemove
  <2>2. CASE ctl.op # "ADD_SOCK"
    <3>1. \E ret \in -17 .. 8 : Return(ret)
      BY <1>12, <2>2 DEF AfterRemove
    <3> QED BY Zenon, <1>1, <3>1
  <2> QED BY Zenon, <2>1, <2>2
<1>13. CASE deregister_socket_null \/ virtio_forwarder_remove_vf2 \/ detach_device \/ virtio_query_pci
  <2>1. Quiet(ctl) /\ UNCHANGED <<map, vio, vio2vf, vm, cb, back>>
    BY Zenon, <1>13 DEF deregister_socket_null, virtio_forwarder_remove_vf2, detach_device, virtio_query_pci
  <2>2. Quiet(ctl') /\ Found(ctl')
    <3>1. CASE deregister_socket_null
      BY Zenon, <1>2, <1>11, <3>1 DEF deregister_socket_null
    <3>2. CASE virtio_forwarder_remove_vf2
      BY <1>2, <1>12, <3>2 DEF virtio_forwarder_remove_vf2
    <3>3. CASE detach_device
      BY <1>12, <3>3 DEF detach_device
    <3>4. CASE virtio_query_pci
      BY <1>1, <3>4 DEF virtio_query_pci
    <3> QED BY Zenon, <1>13, <3>1, <3>2, <3>3, <3>4
  <2> QED BY ZenonT(30), <2>1, <2>2, QuietWork
<1> QED BY Zenon, <1>3, <1>4, <1>7, <1>8, <1>9, <1>10, <1>13

-----------------------------------------------------------------------------
(* Theorems *)

\* The first state: each relay has its default socket, or none has one.
LEMMA InitSocket ==
  ASSUME Init
  PROVE  Types /\ SocketInv /\ WorkInv
<1>1. Idle \in CtlStruct
  BY DEF Idle, CtlStruct, Labels, Operations
<1>2. map \in [Relays -> Paths \cup {None}]
  BY Zenon, SockAssumption DEF Init
<1>3. Types
  BY Zenon, <1>1, <1>2 DEF Init, Types
<1>4. SocketInv
  BY Zenon, SockAssumption DEF Init, Idle, SocketInv, OnePath, PathFree, OwnLabel, NotReady, ReadyConnected
<1>5. WorkInv
  BY Zenon, SockAssumption DEF Init, Idle, WorkInv, DeviceKept, HasWorker, MissedAnswer, Waited
<1> QED BY Zenon, <1>3, <1>4, <1>5

\* Every step of the service, of a worker and of the vhost thread keeps them.
LEMMA SocketsAlways == Spec => [](Types /\ SocketInv /\ WorkInv)
<1>1. Init => Types /\ SocketInv /\ WorkInv
  BY Zenon, InitSocket
<1>2. (Types /\ SocketInv /\ WorkInv) /\ [Next]_vars => (Types /\ SocketInv /\ WorkInv)'
  <2> SUFFICES ASSUME Types, SocketInv, WorkInv, [Next]_vars PROVE Types' /\ SocketInv' /\ WorkInv'
    BY Zenon
  <2>1. CASE UNCHANGED vars
    <3>1. Types' /\ SocketInv'
      BY ZenonT(30), <2>1 DEF vars, Types, SocketInv, OnePath, PathFree, OwnLabel, NotReady, ReadyConnected
    <3>2. WorkInv'
      BY ZenonT(30), <2>1 DEF vars, WorkInv, DeviceKept, HasWorker, MissedAnswer, AnswerMissed, Waited
    <3> QED BY Zenon, <3>1, <3>2
  <2>2. CASE \/ \E r \in Relays : worker_remove_virtio(r) \/ worker_remove_vf(r)
             \/ \E p \in Paths : Connect(p) \/ new_device_cb(p) \/ destroy_device_cb(p)
    BY Zenon, <2>2, ThreadTypes, ThreadSocket, AnswerWork, ConnectWork, DestroyWork
  <2>3. CASE handle_PortControlRequest \/ Reply
    BY Zenon, <2>3, RequestTypes, AddSocket, ServiceWork
  <2>4. CASE \/ virtio_add_sock_dev_pair \/ add_vf2_refused \/ init_vf \/ virtio_forwarder_bond_add
             \/ register_relay_socket \/ rte_vhost_driver_start \/ register_relay_socket_map
    BY Zenon, <2>4, AddTypes, AddSocket, ServiceWork
  <2>5. CASE \/ virtio_remove_sock_dev_pair \/ remove_virtio \/ deregister_socket_vm
             \/ deregister_socket \/ deregister_socket_null \/ virtio_forwarder_remove_vf2
             \/ detach_device \/ virtio_query_pci
    BY Zenon, <2>5, RemoveTypes, RemoveSocket, RemoveWork, CloseWork, ServiceWork
  <2> QED BY Zenon, <2>1, <2>2, <2>3, <2>4, <2>5 DEF Next, PortControl
<1> QED BY <1>1, <1>2, PTL DEF Spec

\* A VM that is relayed is connected on the socket of its relay and has a
\* worker, or it came back while a removal waited for the one before it.  The
\* device of a VM that is being removed is there until the worker has answered,
\* unless the service removes it (or the wait may time out).
THEOREM ReadyVmAliveAlways == Spec => []ReadyVmAlive
<1>1. Types /\ SocketInv /\ WorkInv => ReadyVmAlive
  <2> SUFFICES ASSUME Types, SocketInv, WorkInv, NEW r \in Relays
               PROVE  /\ vio[r] = "READY" => map[r] # None /\ vm[map[r]] = "running" /\ (vio2vf[r] \/ r \in back)
                      /\ vio[r] = "REMOVING" /\ vio2vf[r] /\ "timeout" \notin Faults =>
                           \/ map[r] # None /\ vm[map[r]] = "running"
                           \/ ctl.pc = "wait_virtio" /\ ctl.relay = r
    BY ZenonT(30) DEF ReadyVmAlive
  <2>1. vio[r] = "READY" => map[r] # None /\ vm[map[r]] = "running" /\ (vio2vf[r] \/ r \in back)
    BY Zenon DEF SocketInv, ReadyConnected, WorkInv, HasWorker
  <2>2. vio[r] = "REMOVING" /\ vio2vf[r] /\ "timeout" \notin Faults =>
          \/ map[r] # None /\ vm[map[r]] = "running"
          \/ ctl.pc = "wait_virtio" /\ ctl.relay = r
    <3>1. ctl.pc = "wait_device" => ctl.path # None
      BY Zenon, SockAssumption DEF SocketInv, NotReady
    <3> QED BY Zenon, <3>1 DEF WorkInv, Waited, DeviceKept
  <2> QED BY Zenon, <2>1, <2>2
<1> QED BY <1>1, SocketsAlways, PTL
=============================================================================
