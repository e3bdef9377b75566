-------------------------- MODULE SockDeviceProofs --------------------------
(***************************************************************************)
(* Proofs about the requests of SockPairs, for any relays, sockets, VFs,   *)
(* bonds and faults: relays share neither sockets nor devices, and a       *)
(* request does all that it was asked for or nothing, whichever of its     *)
(* steps fails.                                                            *)
(***************************************************************************)
EXTENDS SockPairsProofs

\* The operations that pass each label.
Program ==
  /\ ctl.pc \in {"ADD", "REMOVE", "QUERY_PCI", "ADD_SOCK", "REMOVE_SOCK"} => ctl.op = ctl.pc
  /\ ctl.pc \in {"attach", "register", "start", "map"} => ctl.op = "ADD_SOCK"
  /\ ctl.pc \in {"remove_virtio", "wait_virtio", "undefined"} => ctl.op = "REMOVE_SOCK"
  /\ ctl.pc \in {"remove_vf2", "deregister", "wait_device"} => ctl.op \in {"ADD_SOCK", "REMOVE_SOCK"}
  /\ ctl.pc = "wait_vf" => ctl.op \in {"REMOVE", "ADD_SOCK", "REMOVE_SOCK"}

\* The device of an addition is one of its VFs or, unless it has one VF, a bond.
DeviceFits ==
  ctl.pc \in {"ADD", "ADD_SOCK", "attach"} =>
    IF Single(ctl.vfs) THEN ctl.dev \in ctl.vfs ELSE ctl.dev \in Bonds \cup {None}

\* The labels at which an addition may have opened a socket that no relay has.
Opened == {"start", "map", "remove_vf2", "wait_vf", "deregister", "wait_device"}

\* A socket is open exactly while a relay has it or an addition is at it.
DriverUse ==
  /\ \A r \in Relays : map[r] # None => driver[map[r]] # "none"
  /\ \A p \in Paths : driver[p] # "none" =>
       \/ \E r \in Relays : map[r] = p
       \/ ctl.path = p /\ ctl.op = "ADD_SOCK" /\ ctl.pc \in Opened

\* Unless waits time out the service waits for every answer about a VF.
Waits ==
  "timeout" \notin Faults =>
    \A r \in Relays : dpdk[r] = "REMOVING" => ctl.pc = "wait_vf" /\ ctl.relay = r

\* What an addition of a pair has done at each label.
AddStage ==
  ctl.op = "ADD_SOCK" =>
    /\ ctl.pc \notin {"ADD_SOCK", "reply"} =>
         ctl.path \in Paths /\ ctl.relay \in Relays /\ \A r \in Relays : map[r] = ctl.path => r = ctl.relay
    /\ ctl.pc = "attach" =>
         dpdk[ctl.relay] = "UNINIT" /\ driver[ctl.path] = "none" /\ ctl.dev \notin ports
    /\ ctl.pc \in {"register", "start", "map", "remove_vf2"} =>
         dpdk[ctl.relay] = "ADDED" /\ dbdf[ctl.relay] = ctl.dev
    /\ ctl.pc = "map" => driver[ctl.path] = "started"
    /\ ctl.pc \in {"deregister", "wait_device"} =>
         /\ dpdk[ctl.relay] # "ADDED"
         /\ ~wild => \A r \in Relays : dpdk[r] = "ADDED" => dbdf[r] # ctl.dev
    /\ ctl.pc = "reply" /\ ctl.ret = 0 => ctl.relay \in Relays
    /\ AddAllOrNothing

\* The socket of a removal is closed and its VM is disconnected.
SocketClosed ==
  /\ ctl.path \in Paths /\ driver[ctl.path] = "none" /\ \A r \in Relays : map[r] # ctl.path
  /\ ctl.relay \in Relays /\ map[ctl.relay] = None
  /\ vm[ctl.path] = "gone"

\* What a removal of a pair, or of a device, has done at each label.
RemoveStage ==
  /\ ctl.pc = "wait_vf" =>
       ctl.relay \in Relays /\ ctl.dev = dbdf[ctl.relay] /\ ctl.dev # None /\ dpdk[ctl.relay] # "ADDED"
  /\ ctl.op = "REMOVE_SOCK" =>
       /\ ctl.pc \in {"remove_virtio", "wait_virtio", "deregister", "wait_device"} =>
            /\ ctl.relay \in Relays /\ ctl.path = map[ctl.relay] /\ ctl.dev = dbdf[ctl.relay]
            /\ ctl.path = None /\ ~wild => ctl.dev \in alone
       /\ ctl.pc = "undefined" /\ ~wild => ctl.dev \in alone
       /\ ctl.pc \in {"remove_vf2", "wait_vf"} => ctl.dev = dbdf[ctl.relay] /\ SocketClosed
       /\ ctl.pc = "reply" /\ ctl.ret = 0 =>
            /\ SocketClosed
            /\ ctl.dev \in ports /\ ~wild => ctl.dev \in alone
            /\ "timeout" \notin Faults => dpdk[ctl.relay] = "UNINIT"

\* What is attached has a name, and a relay with a device knows it.
Named ==
  /\ ports \subseteq Devs /\ alone \subseteq Devs /\ wild \in BOOLEAN
  /\ \A r \in Relays : dpdk[r] = "ADDED" => dbdf[r] # None

\* The devices of a relay, a bond's slaves with it, are attached, and no two
\* relays have one.
OwnDevices ==
  /\ \A r \in Relays : dbdf[r] # None => DetachSet(dbdf[r]) \subseteq ports
  /\ \A r, s \in Relays : r # s /\ dbdf[r] # None /\ dbdf[s] # None
       => DetachSet(dbdf[r]) \cap DetachSet(dbdf[s]) = {}

\* A request is at work on the devices of relay r.
Midway(r) ==
  /\ ctl.relay = r
  /\ \/ ctl.pc \in {"register", "start", "map", "wait_vf"}
     \/ ctl.pc = "remove_vf2" /\ dpdk[r] = "ADDED"

\* The devices of a relay go with its socket, or it is known why not.
Explained ==
  \A r \in Relays : dbdf[r] # None =>
     \/ dpdk[r] = "ADDED" /\ map[r] # None
     \/ DetachSet(dbdf[r]) \subseteq alone
     \/ Midway(r)

\* What is attached, and not known to be left over, belongs to a relay.
Placed == \A d \in ports \ alone : \E r \in Relays : dbdf[r] # None /\ d \in DetachSet(dbdf[r])

Devices == OwnDevices /\ Explained /\ Placed

Stages == Program /\ DeviceFits /\ AddStage /\ RemoveStage

PairInv == Stages /\ DriverUse /\ Waits /\ Named /\ (~wild => Devices)

-----------------------------------------------------------------------------
(* Requests, and steps that change the request only *)

\* What the stages of a request are about, the request apart.
Data == <<map, dpdk, dbdf, ports, slaves, driver, vm, alone, wild>>

\* A step that attaches, detaches, opens and closes nothing.
LEMMA SamePair ==
  ASSUME Types, PairInv, UNCHANGED <<map, dbdf, ports, slaves, alone, wild>>, Stages', Waits',
         \A p \in Paths : driver'[p] = "none" <=> driver[p] = "none",
         \A r \in Relays : /\ dpdk'[r] = "ADDED" => dpdk[r] = "ADDED"
                           /\ dpdk[r] = "ADDED" => dpdk'[r] = "ADDED" \/ Midway(r)'
                           /\ Midway(r) => Midway(r)',
         ctl.pc \in Opened /\ ctl.op = "ADD_SOCK" =>
           ctl'.pc \in Opened /\ ctl'.op = "ADD_SOCK" /\ ctl'.path = ctl.path
  PROVE  PairInv'
<1>1. DriverUse'
  BY DEF PairInv, DriverUse, Types
<1>2. Named'
  BY Zenon DEF PairInv, Named
<1>3. \A d : DetachSet(d)' = DetachSet(d)
  BY Zenon DEF DetachSet
<1>4. ASSUME ~wild' PROVE Devices'
  <2>1. Devices
    BY Zenon, <1>4 DEF PairInv
  <2>2. OwnDevices' /\ Placed'
    BY Zenon, <1>3, <2>1 DEF Devices, OwnDevices, Placed
  <2>3. Explained'
    BY Zenon, <1>3, <2>1 DEF Devices, Explained
  <2> QED BY Zenon, <2>2, <2>3 DEF Devices
<1> QED BY Zenon, <1>1, <1>2, <1>4 DEF PairInv

\* A step that changes the request only, and ends no wait.
LEMMA QuietPair ==
  ASSUME Types, PairInv, UNCHANGED Data, Stages',
         ctl.pc # "wait_vf",
         ctl.pc \in Opened /\ ctl.op = "ADD_SOCK" =>
           ctl'.pc \in Opened /\ ctl'.op = "ADD_SOCK" /\ ctl'.path = ctl.path,
         \A r \in Relays : Midway(r) => Midway(r)'
  PROVE  PairInv'
<1>1. Waits'
  BY Zenon DEF PairInv, Waits, Data
<1> QED BY Zenon, <1>1, SamePair DEF Data

\* A new request, and its answer.
LEMMA RequestPair ==
  ASSUME Types, PairInv, handle_PortControlRequest \/ Reply
  PROVE  PairInv'
<1>1. CASE handle_PortControlRequest
  <2>1. PICK q \in Requests :
          /\ ctl'.pc = q.op /\ ctl'.op = q.op
          /\ q.op \in {"ADD", "ADD_SOCK"} => ctl'.vfs = q.vfs /\ ctl'.dev = DeviceOf(q)
    BY <1>1 DEF handle_PortControlRequest
  <2>2. /\ q.op \in {"ADD", "REMOVE", "ADD_SOCK", "REMOVE_SOCK", "QUERY_PCI"}
        /\ q.vfs \in SUBSET Vfs /\ q.name \in Bonds \cup {None}
    BY Zenon DEF Requests
  <2>3. IF Single(q.vfs) THEN DeviceOf(q) \in q.vfs ELSE DeviceOf(q) \in Bonds \cup {None}
    BY Zenon, <2>2, DeviceInRequest
  <2>4. DeviceFits'
    BY Zenon, <2>1, <2>2, <2>3 DEF DeviceFits
  <2>5. Program' /\ AddStage' /\ RemoveStage'
    BY Zenon, <2>1, <2>2 DEF Program, AddStage, AddAllOrNothing, RemoveStage
  <2>6. UNCHANGED Data /\ ctl.pc = "idle"
    BY Zenon, <1>1 DEF handle_PortControlRequest, Data, Sockets, Virtio, Ethdevs, History
  <2> QED BY Zenon, <2>4, <2>5, <2>6, QuietPair DEF Stages, Opened, Midway
<1>2. CASE Reply
  <2>1. ctl'.pc = "idle" /\ ctl'.op = "NONE"
    BY Zenon, <1>2 DEF Reply, Idle
  <2>2. Stages'
    BY Zenon, <2>1 DEF Stages, Program, DeviceFits, AddStage, RemoveStage
  <2>3. UNCHANGED Data /\ ctl.pc = "reply"
    BY Zenon, <1>2 DEF Reply, Data, Sockets, Virtio, Ethdevs, History
  <2> QED BY Zenon, <2>2, <2>3, QuietPair DEF Opened, Midway
<1> QED BY Zenon, <1>1, <1>2

\* An addition that is refused leaves all as it is.
LEMMA RefusedPair ==
  ASSUME Types, SocketInv, PairInv, UNCHANGED Data, ctl.pc \in {"ADD", "ADD_SOCK", "attach"},
         NEW e \in -17 .. 8, Return(e),
         ctl.pc = "ADD_SOCK" => e \in {-1, -17, 1, 2}, ctl.pc = "attach" => e \in {3, 4}
  PROVE  PairInv'
<1>1. /\ ctl'.pc = "reply" /\ ctl'.ret = e /\ ctl'.op = ctl.op
      /\ ctl.op = "ADD_SOCK" =>
           ctl'.path = ctl.path /\ ctl'.dev = ctl.dev /\ ctl'.relay = ctl.relay
  BY Zenon, ReturnFields DEF Types
<1>2. ctl.op = IF ctl.pc = "attach" THEN "ADD_SOCK" ELSE ctl.pc
  BY Zenon DEF PairInv, Stages, Program
<1>3. ASSUME ctl.pc = "attach", ~wild
      PROVE  /\ \A r \in Relays : map[r] # ctl.path /\ (dpdk[r] = "ADDED" => dbdf[r] # ctl.dev)
             /\ driver[ctl.path] = "none"
  <2>1. Devices /\ Named /\ AddStage /\ PathFree
    BY Zenon, <1>3 DEF PairInv, Stages, SocketInv
  <2>2. /\ \A r \in Relays : map[r] # ctl.path
        /\ driver[ctl.path] = "none" /\ ctl.dev \notin ports
    BY Zenon, <1>2, <1>3, <2>1 DEF AddStage, PathFree
  <2>3. \A r \in Relays : dpdk[r] = "ADDED" => dbdf[r] \in ports
    BY Zenon, <2>1 DEF Devices, OwnDevices, Named, DetachSet
  <2> QED BY Zenon, <2>2, <2>3
<1>4. AddAllOrNothing'
  BY <1>1, <1>2, <1>3 DEF AddAllOrNothing, Data, get_relay_for_sock
<1>5. Stages'
  BY <1>1, <1>2, <1>4 DEF Stages, Program, DeviceFits, AddStage, RemoveStage
<1> QED BY Zenon, <1>5, QuietPair DEF Opened, Midway

-----------------------------------------------------------------------------
(* Additions *)

\* What an addition attaches was not attached, so it is no other relay's; what
\* the relay had before is known to be left over.
LEMMA AddedDevices ==
  ASSUME Types, Devices, ctl.pc \in {"ADD", "attach"}, ctl.relay \in Relays, dpdk[ctl.relay] = "UNINIT",
         NEW devs, Added(devs), devs \cap ports = {},
         NEW d \in Devs, d = ctl.dev, d \in devs, DetachSet(d)' = devs,
         \A b \in Bonds : b # d => slaves'[b] = slaves[b], UNCHANGED map,
         ctl.op # "ADD" => ctl'.pc = "register" /\ ctl'.relay = ctl.relay
  PROVE  Devices'
<1>1. /\ ports' = ports \cup devs /\ dpdk' = [dpdk EXCEPT ![ctl.relay] = "ADDED"]
      /\ dbdf' = [dbdf EXCEPT ![ctl.relay] = ctl.dev]
      /\ alone' = IF ctl.op = "ADD" /\ map[ctl.relay] = None THEN alone \cup devs ELSE alone \ devs
  BY Zenon DEF Added
<1>2. OwnDevices /\ Explained /\ Placed
  BY Zenon DEF Devices
<1>3. PICK t \in Relays : t = ctl.relay
  BY Zenon
<1>4. dpdk'[t] = "ADDED" /\ dbdf'[t] = d
  BY Zenon, <1>1, <1>3 DEF Types
<1>5. DetachSet(dbdf[t])' = devs
  BY Zenon, <1>4 DEF DetachSet
<1>6. ASSUME NEW s \in Relays, s # t
      PROVE  dpdk'[s] = dpdk[s] /\ dbdf'[s] = dbdf[s]
  BY Zenon, <1>1, <1>3, <1>6 DEF Types
<1>7. ASSUME NEW s \in Relays, s # t, dbdf[s] # None
      PROVE  DetachSet(dbdf[s])' = DetachSet(dbdf[s]) /\ DetachSet(dbdf[s]) \subseteq ports
  <2>1. DetachSet(dbdf[s]) \subseteq ports
    BY Zenon, <1>2, <1>7 DEF OwnDevices
  <2>2. dbdf[s] \in ports
    BY Zenon, <2>1 DEF DetachSet
  <2>3. dbdf[s] # d
    BY Zenon, <2>2
  <2>4. DetachSet(dbdf[s])' = DetachSet(dbdf[s])
    BY ZenonT(30), <1>6, <1>7, <2>3 DEF DetachSet
  <2> QED BY Zenon, <2>1, <2>4
<1>8. OwnDevices'
  <2>1. \A r \in Relays : dbdf'[r] # None => DetachSet(dbdf[r])' \subseteq ports'
    BY SMTT(30), <1>1, <1>5, <1>6, <1>7
  <2>2. ASSUME NEW r \in Relays, NEW s \in Relays, r # s, dbdf'[r] # None, dbdf'[s] # None
        PROVE  DetachSet(dbdf[r])' \cap DetachSet(dbdf[s])' = {}
    <3>1. CASE r = t
      BY SMTT(30), <1>5, <1>6, <1>7, <2>2, <3>1
    <3>2. CASE s = t
      BY SMTT(30), <1>5, <1>6, <1>7, <2>2, <3>2
    <3>3. CASE r # t /\ s # t
      <4>1. dbdf[r] # None /\ dbdf[s] # None
        BY Zenon, <1>6, <2>2, <3>3
      <4>2. DetachSet(dbdf[r]) \cap DetachSet(dbdf[s]) = {}
        BY Zenon, <1>2, <2>2, <4>1 DEF OwnDevices
      <4> QED BY Zenon, <1>7, <2>2, <3>3, <4>1, <4>2
    <3> QED BY Zenon, <3>1, <3>2, <3>3
  <2> QED BY Zenon, <2>1, <2>2 DEF OwnDevices
<1>9. Explained'
  <2>1. (dpdk[t] = "ADDED" /\ map[t] # None)' \/ DetachSet(dbdf[t])' \subseteq alone' \/ Midway(t)'
    <3>1. CASE ctl.op # "ADD"
      BY Zenon, <1>3, <3>1 DEF Midway
    <3>2. CASE ctl.op = "ADD"
      BY Zenon, <1>1, <1>3, <1>4, <1>5, <3>2
    <3> QED BY Zenon, <3>1, <3>2
  <2>2. ASSUME NEW s \in Relays, s # t, dbdf'[s] # None
        PROVE  (dpdk[s] = "ADDED" /\ map[s] # None)' \/ DetachSet(dbdf[s])' \subseteq alone'
    <3>1. dbdf[s] # None /\ ~Midway(s)
      BY Zenon, <1>6, <2>2 DEF Midway
    <3>2. (dpdk[s] = "ADDED" /\ map[s] # None) \/ DetachSet(dbdf[s]) \subseteq alone
      BY Zenon, <1>2, <3>1 DEF Explained
    <3>3. DetachSet(dbdf[s])' = DetachSet(dbdf[s]) /\ DetachSet(dbdf[s]) \subseteq ports
      BY Zenon, <1>7, <2>2, <3>1
    <3>4. DetachSet(dbdf[s]) \subseteq alone => DetachSet(dbdf[s]) \subseteq alone'
      BY Zenon, <1>1, <3>3
    <3> QED BY ZenonT(30), <1>6, <2>2, <3>2, <3>3, <3>4
  <2> QED BY Zenon, <2>1, <2>2 DEF Explained
<1>10. Placed'
  <2> SUFFICES ASSUME NEW x \in ports' \ alone'
               PROVE  \E r \in Relays : dbdf'[r] # None /\ x \in DetachSet(dbdf[r])'
    BY Zenon DEF Placed
  <2>1. CASE x \in devs
    <3>1. d # None
      BY Zenon, SockAssumption
    <3> QED BY Zenon, <1>4, <1>5, <2>1, <3>1
  <2>2. CASE x \notin devs
    <3>1. x \in ports \ alone
      BY Zenon, <1>1, <2>2
    <3>2. PICK r \in Relays : dbdf[r] # None /\ x \in DetachSet(dbdf[r])
      BY Zenon, <1>2, <3>1 DEF Placed
    <3>3. r # t
      <4>1. ~Midway(t) /\ dpdk[t] # "ADDED"
        BY Zenon, <1>3 DEF Midway
      <4> QED BY Zenon, <1>2, <3>1, <3>2, <4>1 DEF Explained
    <3> QED BY SMTT(30), <1>6, <1>7, <3>2, <3>3
  <2> QED BY Zenon, <2>1, <2>2
<1> QED BY Zenon, <1>8, <1>9, <1>10 DEF Devices

\* An addition to a relay.
LEMMA AddedPair ==
  ASSUME Types, SocketInv, PairInv, ctl.pc \in {"ADD", "attach"},
         ctl.relay \in Relays, dpdk[ctl.relay] = "UNINIT",
         NEW devs, Added(devs), devs \cap ports = {}, devs \subseteq Devs,
         NEW d \in Devs, d = ctl.dev, d \in devs, DetachSet(d)' = devs,
         \A b \in Bonds : b # d => slaves'[b] = slaves[b], UNCHANGED <<map, driver, vio, vm, cb>>
  PROVE  PairInv'
<1>1. /\ ports' = ports \cup devs /\ dpdk' = [dpdk EXCEPT ![ctl.relay] = "ADDED"]
      /\ dbdf' = [dbdf EXCEPT ![ctl.relay] = ctl.dev] /\ wild' = wild
      /\ alone' = IF ctl.op = "ADD" /\ map[ctl.relay] = None THEN alone \cup devs ELSE alone \ devs
  BY Zenon DEF Added
<1>2. ctl.op = IF ctl.pc = "ADD" THEN "ADD" ELSE "ADD_SOCK"
  BY Zenon DEF PairInv, Stages, Program
<1>3. /\ ctl'.pc = IF ctl.op = "ADD" THEN "reply" ELSE "register"
      /\ ctl'.op = ctl.op
      /\ ctl.op # "ADD" => ctl'.path = ctl.path /\ ctl'.dev = ctl.dev /\ ctl'.relay = ctl.relay
  <2>1. ctl \in CtlStruct /\ "register" \in Labels
    BY Zenon DEF Types, Labels
  <2> QED BY <2>1, GotoFields, ReturnFields DEF Added
<1>4. /\ dpdk'[ctl.relay] = "ADDED" /\ dbdf'[ctl.relay] = ctl.dev
      /\ \A s \in Relays : s # ctl.relay => dpdk'[s] = dpdk[s] /\ dbdf'[s] = dbdf[s]
  BY SMTT(30), <1>1 DEF Types
<1>5. AddStage'
  BY Zenon, <1>2, <1>3, <1>4 DEF SocketInv, PathFree, AddStage, AddAllOrNothing
<1>6. Stages'
  BY Zenon, <1>2, <1>3, <1>5 DEF Stages, Program, DeviceFits, RemoveStage
<1>7. DriverUse'
  BY Zenon DEF PairInv, DriverUse, Opened
<1>8. Waits'
  BY Zenon, <1>4 DEF PairInv, Waits
<1>9. Named'
  <2>1. None \notin Devs
    BY Zenon, SockAssumption
  <2> QED BY <1>1, <1>4, <2>1 DEF PairInv, Named
<1>10. ~wild' => Devices'
  BY Zenon, <1>1, <1>3, AddedDevices DEF PairInv
<1> QED BY Zenon, <1>6, <1>7, <1>8, <1>9, <1>10 DEF PairInv

\* A VF or a bond is attached, or not: add_vf2 and bond_add.
LEMMA AttachPair ==
  ASSUME Types, SocketInv, PairInv, add_vf2_refused \/ init_vf \/ virtio_forwarder_bond_add
  PROVE  PairInv'
<1> USE DEF Sockets, Virtio, Ethdevs, History
<1>0. ctl \in CtlStruct
  BY Zenon DEF Types
<1>1. ctl.op = IF ctl.pc = "ADD" THEN "ADD" ELSE "ADD_SOCK"
  BY Zenon DEF PairInv, Stages, Program, add_vf2_refused, init_vf, virtio_forwarder_bond_add
<1>2. ASSUME NEW ret \in 1 .. 8, AddFails(ret), ctl.pc \in {"ADD", "attach"},
             UNCHANGED <<map, driver, vio, vm, cb>>
      PROVE  PairInv'
  <2>1. PICK e \in -17 .. 8 : Return(e) /\ (ctl.pc = "attach" => e \in {3, 4})
    BY <1>1, <1>2 DEF AddFails
  <2>2. UNCHANGED Data
    BY Zenon, <1>2 DEF AddFails, Data
  <2> QED BY Zenon, <1>2, <2>1, <2>2, RefusedPair
<1>3. CASE add_vf2_refused
  <2>0. ctl.pc \in {"ADD", "attach"} /\ UNCHANGED <<map, driver, vio, vm, cb>>
    BY Zenon, <1>3 DEF add_vf2_refused
  <2>1. CASE AddFails(1) \/ AddFails(8)
    BY <1>2, <2>0, <2>1
  <2>2. CASE dpdk[ctl.relay] # "UNINIT" /\ Return(0) /\ UNCHANGED <<Ethdevs, History>>
    <3>1. ctl.pc = "ADD"
      BY Zenon, <1>1, <2>0, <2>2 DEF PairInv, Stages, AddStage
    <3>2. UNCHANGED Data
      BY Zenon, <2>0, <2>2 DEF Data
    <3> QED BY <2>2, <3>1, <3>2, RefusedPair
  <2> QED BY Zenon, <1>3, <2>1, <2>2 DEF add_vf2_refused
<1>4. CASE init_vf
  <2>0. ctl.pc \in {"ADD", "attach"} /\ UNCHANGED <<map, driver, vio, vm, cb>>
    BY Zenon, <1>4 DEF init_vf
  <2>1. CASE ctl.dev \notin ports /\ Added({ctl.dev}) /\ UNCHANGED slaves
    <3>1. PICK d : d = ctl.dev
      BY Zenon
    <3>2. ctl.relay \in Relays /\ dpdk[ctl.relay] = "UNINIT"
      BY Zenon, <1>4 DEF init_vf
    <3>3. d \in Vfs
      BY Zenon, <1>0, <1>4, <3>1 DEF init_vf, PairInv, Stages, DeviceFits, CtlStruct
    <3>4. d \in Devs /\ DetachSet(d)' = {d}
      BY Zenon, <3>3, SockAssumption DEF Devs, DetachSet
    <3> QED BY <2>0, <2>1, <3>1, <3>2, <3>4, AddedPair
  <2>2. CASE AddFails(2)
    BY <1>2, <2>0, <2>2
  <2> QED BY Zenon, <1>4, <2>1, <2>2 DEF init_vf
<1>5. CASE virtio_forwarder_bond_add
  <2>0. ctl.pc \in {"ADD", "attach"} /\ UNCHANGED <<map, driver, vio, vm, cb>>
    BY Zenon, <1>5 DEF virtio_forwarder_bond_add
  <2>1. CASE /\ ctl.dev # None /\ ({ctl.dev} \cup ctl.vfs) \cap ports = {}
             /\ Added({ctl.dev} \cup ctl.vfs) /\ slaves' = [slaves EXCEPT ![ctl.dev] = ctl.vfs]
    <3>1. PICK d : d = ctl.dev
      BY Zenon
    <3>2. PICK devs : devs = {ctl.dev} \cup ctl.vfs
      BY ZenonT(30)
    <3>3. ctl.relay \in Relays /\ dpdk[ctl.relay] = "UNINIT"
      BY Zenon, <1>5 DEF virtio_forwarder_bond_add
    <3>4. d \in Bonds /\ ctl.vfs \subseteq Vfs
      BY Zenon, <1>0, <1>5, <2>1, <3>1 DEF virtio_forwarder_bond_add, PairInv, Stages, DeviceFits, CtlStruct
    <3>5. slaves'[d] = ctl.vfs /\ \A b \in Bonds : b # d => slaves'[b] = slaves[b]
      BY Zenon, <2>1, <3>1, <3>4 DEF Types
    <3>6. d \in Devs /\ d \in devs /\ devs \subseteq Devs /\ DetachSet(d)' = devs
      BY Zenon, <3>1, <3>2, <3>4, <3>5 DEF Devs, DetachSet
    <3> QED BY ZenonT(30), <2>0, <2>1, <3>1, <3>2, <3>3, <3>5, <3>6, AddedPair
  <2>2. CASE AddFails(4)
    BY <1>2, <2>0, <2>2
  <2>3. CASE /\ \E closed \in SUBSET ports : ports' = ports \ closed
             /\ Return(IF ctl.op = "ADD" THEN 5 ELSE 4)
             /\ wild' = TRUE /\ UNCHANGED <<dpdk, dbdf, slaves, alone, back>>
    <3>1. ctl'.pc = "reply" /\ ctl'.op = ctl.op /\ (ctl.op = "ADD_SOCK" => ctl'.ret = 4)
      BY SMTT(30), <1>0, <2>3, ReturnFields
    <3>2. Stages'
      BY <1>1, <2>3, <3>1 DEF Stages, Program, DeviceFits, AddStage, AddAllOrNothing, RemoveStage
    <3>3. DriverUse'
      BY Zenon, <2>0 DEF PairInv, DriverUse, Opened
    <3>4. Waits'
      BY Zenon, <2>0, <2>3 DEF PairInv, Waits
    <3>5. Named'
      BY Zenon, <2>3 DEF PairInv, Named
    <3> QED BY Zenon, <2>3, <3>2, <3>3, <3>4, <3>5 DEF PairInv
  <2> QED BY ZenonT(30), <1>5, <2>1, <2>2, <2>3 DEF virtio_forwarder_bond_add
<1> QED BY Zenon, <1>3, <1>4, <1>5

\* The first checks of an addition: a path without a relay is not open.
LEMMA CheckedPair ==
  ASSUME Types, SocketInv, PairInv, virtio_add_sock_dev_pair
  PROVE  PairInv'
<1>0. ctl \in CtlStruct /\ ctl.pc = "ADD_SOCK" /\ ctl.op = "ADD_SOCK" /\ UNCHANGED Data
  BY Zenon DEF Types, PairInv, Stages, Program, virtio_add_sock_dev_pair, Data, Sockets, Virtio, Ethdevs, History
<1>1. CASE \E e \in {-1, -17, 1, 2} : Return(e)
  BY <1>0, <1>1, RefusedPair
<1>2. CASE /\ ctl.path # None /\ ctl.dev \notin ports /\ get_relay_for_sock(ctl.path) = {}
           /\ \E t \in First(virtio_get_free_relay_id) : Take(t)
  <2>1. PICK t \in First(virtio_get_free_relay_id) : ctl' = [ctl EXCEPT !.pc = "attach", !.relay = t]
    BY ZenonT(30), <1>2 DEF Take
  <2>2. t \in Relays /\ dpdk[t] = "UNINIT"
    BY Zenon DEF First, virtio_get_free_relay_id
  <2>3. /\ ctl'.pc = "attach" /\ ctl'.op = "ADD_SOCK" /\ ctl'.path = ctl.path /\ ctl'.dev = ctl.dev
        /\ ctl'.vfs = ctl.vfs /\ ctl'.relay = t
    BY Zenon, <1>0, <1>2, <2>1 DEF CtlStruct
  <2>4. ctl.path \in Paths /\ \A r \in Relays : map[r] # ctl.path
    BY Zenon, <1>0, <1>2 DEF CtlStruct, get_relay_for_sock
  <2>5. driver[ctl.path] = "none"
    BY ZenonT(30), <1>0, <2>4 DEF PairInv, DriverUse, Opened
  <2>6. AddStage'
    BY Zenon, <1>0, <1>2, <2>2, <2>3, <2>4, <2>5 DEF AddStage, AddAllOrNothing, Data
  <2>7. DeviceFits'
    BY Zenon, <1>0, <2>3 DEF PairInv, Stages, DeviceFits
  <2>8. Stages'
    BY Zenon, <2>3, <2>6, <2>7 DEF Stages, Program, RemoveStage
  <2> QED BY Zenon, <1>0, <2>8, QuietPair DEF Opened, Midway
<1> QED BY Zenon, <1>0, <1>1, <1>2 DEF virtio_add_sock_dev_pair

\* The socket is opened and entered in the map, or the device has to go again.
LEMMA OpenPair ==
  ASSUME Types, SocketInv, PairInv,
         register_relay_socket \/ rte_vhost_driver_start \/ register_relay_socket_map
  PROVE  PairInv'
<1> USE DEF Sockets, Virtio, Ethdevs, History
<1>0. /\ ctl \in CtlStruct /\ {"remove_vf2", "start", "map"} \subseteq Labels
      /\ ctl.pc \in {"register", "start", "map"} /\ ctl.op = "ADD_SOCK"
      /\ UNCHANGED <<vio, dpdk, dbdf, ports, slaves, vm, cb, alone, wild>>
  BY Zenon DEF Types, Labels, PairInv, Stages, Program, register_relay_socket, rte_vhost_driver_start,
         register_relay_socket_map
<1>1. /\ ctl.path \in Paths /\ ctl.relay \in Relays /\ map[ctl.relay] = None
      /\ \A r \in Relays : map[r] # ctl.path
      /\ dpdk[ctl.relay] = "ADDED" /\ dbdf[ctl.relay] = ctl.dev
      /\ ctl.pc = "map" => driver[ctl.path] = "started"
  BY Zenon, <1>0 DEF SocketInv, PathFree, PairInv, Stages, AddStage
<1>2. /\ ctl'.op = "ADD_SOCK" /\ ctl'.path = ctl.path /\ ctl'.dev = ctl.dev /\ ctl'.relay = ctl.relay
      /\ \/ ctl.pc \in {"register", "start"} /\ ctl'.pc = "remove_vf2" /\ UNCHANGED <<map, driver>>
         \/ /\ ctl.pc = "register" /\ ctl'.pc = "start" /\ UNCHANGED map
            /\ driver' = [driver EXCEPT ![ctl.path] = "registered"]
         \/ /\ ctl.pc = "start" /\ ctl'.pc = "map" /\ UNCHANGED map
            /\ driver' = [driver EXCEPT ![ctl.path] = "started"]
         \/ /\ ctl.pc = "map" /\ (ctl'.pc = "remove_vf2" \/ (ctl'.pc = "reply" /\ ctl'.ret = 0))
            /\ map' = [map EXCEPT ![ctl.relay] = ctl.path] /\ UNCHANGED driver
  BY <1>0, GotoFields, ReturnFields DEF register_relay_socket, rte_vhost_driver_start, register_relay_socket_map
<1>3. ctl'.pc \in {"remove_vf2", "start", "map", "reply"}
  BY Zenon, <1>2
<1>4. /\ \A r \in Relays : map'[r] = ctl.path => r = ctl.relay
      /\ ctl'.pc = "map" => driver'[ctl.path] = "started"
      /\ ctl'.pc = "reply" => map'[ctl.relay] = ctl.path /\ driver'[ctl.path] = "started" /\ ctl'.ret = 0
  BY SMTT(30), <1>1, <1>2 DEF Types
<1>5. AddStage'
  BY ZenonT(30), <1>0, <1>1, <1>2, <1>3, <1>4 DEF AddStage, AddAllOrNothing
<1>6. Stages'
  BY Zenon, <1>2, <1>3, <1>5 DEF Stages, Program, DeviceFits, RemoveStage
<1>7. DriverUse'
  <2>1. DriverUse
    BY Zenon DEF PairInv
  <2>2. CASE ctl.pc = "map"
    <3>1. \A r \in Relays : map'[r] = IF r = ctl.relay THEN ctl.path ELSE map[r]
      BY Zenon, <1>2, <2>2 DEF Types
    <3>2. driver' = driver /\ driver[ctl.path] = "started"
      BY Zenon, <1>1, <1>2, <2>2
    <3>3. ASSUME NEW p \in Paths, driver[p] # "none" PROVE \E r \in Relays : map'[r] = p
      <4>1. CASE p = ctl.path
        BY Zenon, <1>1, <3>1, <4>1
      <4>2. CASE p # ctl.path
        <5>1. PICK r \in Relays : map[r] = p
          BY Zenon, <2>1, <3>3, <4>2 DEF DriverUse
        <5> QED BY Zenon, <1>1, <3>1, <3>3, <5>1, SockAssumption
      <4> QED BY Zenon, <4>1, <4>2
    <3> QED BY SMTT(30), <1>1, <2>1, <3>1, <3>2, <3>3 DEF DriverUse
  <2>3. CASE ctl.pc # "map"
    <3>1. /\ map' = map /\ \A p \in Paths : p # ctl.path => driver'[p] = driver[p]
          /\ driver[ctl.path] # "none" => driver'[ctl.path] # "none"
      BY SMTT(30), <1>1, <1>2, <2>3 DEF Types
    <3>2. \A r \in Relays : map[r] # None => map[r] \in Paths /\ map[r] # ctl.path
      BY <1>1 DEF Types
    <3>3. ctl'.pc \in Opened \/ driver'[ctl.path] = driver[ctl.path]
      BY Zenon, <1>2, <2>3 DEF Opened
    <3> QED BY ZenonT(30), <1>2, <2>1, <3>1, <3>2, <3>3, <1>3, <2>3 DEF DriverUse, Opened
  <2> QED BY Zenon, <2>2, <2>3
<1>8. Waits'
  <2>1. \A r \in Relays : r # ctl.relay => map'[r] = map[r]
    BY Zenon, <1>2 DEF Types
  <2> QED BY ZenonT(30), <1>0, <1>1, <2>1 DEF PairInv, Waits
<1>9. Named'
  BY Zenon, <1>0 DEF PairInv, Named
<1>10. ASSUME ~wild' PROVE Devices'
  <2>1. Devices
    BY Zenon, <1>0, <1>10 DEF PairInv
  <2>2. \A d : DetachSet(d)' = DetachSet(d)
    BY ZenonT(30), <1>0 DEF DetachSet
  <2>3. OwnDevices' /\ Placed'
    BY Zenon, <1>0, <2>1, <2>2 DEF Devices, OwnDevices, Placed
  <2>4. (dpdk[ctl.relay] = "ADDED" /\ map'[ctl.relay] # None) \/ ctl'.pc # "reply"
    BY Zenon, <1>1, <1>4, SockAssumption
  <2>5. \A r \in Relays : r # ctl.relay => map'[r] = map[r] /\ ~Midway(r)
    BY ZenonT(30), <1>2 DEF Types, Midway
  <2>6. Explained'
    BY ZenonT(30), <1>0, <1>1, <1>2, <1>3, <2>1, <2>2, <2>4, <2>5 DEF Devices, Explained, Midway
  <2> QED BY Zenon, <2>3, <2>6 DEF Devices
<1> QED BY ZenonT(30), <1>6, <1>7, <1>8, <1>9, <1>10 DEF PairInv

-----------------------------------------------------------------------------
(* Removals *)

\* The relay of a removal: one without a socket has a device that is left over.
LEMMA FoundPair ==
  ASSUME Types, PairInv, virtio_remove_sock_dev_pair
  PROVE  PairInv'
<1>0. ctl \in CtlStruct /\ ctl.pc = "REMOVE_SOCK" /\ ctl.op = "REMOVE_SOCK" /\ UNCHANGED Data
  BY Zenon DEF Types, PairInv, Stages, Program, virtio_remove_sock_dev_pair, Data, Sockets, Virtio, Ethdevs, History
<1>1. CASE \E e \in {-1, 1, 2} : Return(e)
  <2>1. ctl'.pc = "reply" /\ ctl'.op = "REMOVE_SOCK" /\ ctl'.ret # 0
    BY SMTT(30), <1>0, <1>1, ReturnFields
  <2>2. Stages'
    BY Zenon, <2>1 DEF Stages, Program, DeviceFits, AddStage, RemoveStage
  <2> QED BY Zenon, <1>0, <2>2, QuietPair DEF Opened, Midway
<1>2. CASE /\ ~(ctl.path = None /\ ctl.dev = None)
           /\ \E r \in First(RelaysOf) : Follow(r)
  <2>1. PICK r \in First(RelaysOf) :
          ctl' = [ctl EXCEPT !.pc = "remove_virtio", !.relay = r, !.dev = dbdf[r], !.path = map[r]]
    BY ZenonT(30), <1>2 DEF Follow
  <2>2. RelaysOf \subseteq Relays
    BY Zenon DEF RelaysOf, get_relay_for_sock
  <2>3. r \in RelaysOf
    BY Zenon DEF First
  <2>4. r \in Relays /\ (map[r] = None => dbdf[r] # None)
    BY Zenon, <1>2, <2>2, <2>3 DEF RelaysOf, get_relay_for_sock
  <2>5. /\ ctl'.pc = "remove_virtio" /\ ctl'.op = "REMOVE_SOCK" /\ ctl'.relay = r
        /\ ctl'.dev = dbdf[r] /\ ctl'.path = map[r]
    BY Zenon, <1>0, <2>1 DEF CtlStruct
  <2>6. ASSUME map[r] = None, ~wild PROVE dbdf[r] \in alone
    <3>1. Explained /\ ~Midway(r) /\ dbdf[r] # None
      BY Zenon, <1>0, <2>4, <2>6 DEF PairInv, Devices, Midway
    <3>2. DetachSet(dbdf[r]) \subseteq alone
      BY Zenon, <2>4, <2>6, <3>1 DEF Explained
    <3> QED BY Zenon, <3>2 DEF DetachSet
  <2>7. RemoveStage'
    BY Zenon, <1>0, <2>4, <2>5, <2>6 DEF RemoveStage, Data
  <2>8. Stages'
    BY Zenon, <2>5, <2>7 DEF Stages, Program, DeviceFits, AddStage
  <2> QED BY Zenon, <1>0, <2>8, QuietPair DEF Opened, Midway
<1> QED BY Zenon, <1>0, <1>1, <1>2 DEF virtio_remove_sock_dev_pair

\* The wait for the VM.
LEMMA RemoveVirtioPair ==
  ASSUME Types, PairInv, remove_virtio
  PROVE  PairInv'
<1>0. /\ ctl \in CtlStruct /\ {"wait_virtio", "deregister"} \subseteq Labels
      /\ ctl.pc \in {"remove_virtio", "wait_virtio"} /\ ctl.op = "REMOVE_SOCK"
      /\ UNCHANGED <<map, driver, dpdk, dbdf, ports, slaves, vm, cb, alone, wild>>
  BY Zenon DEF Types, Labels, PairInv, Stages, Program, remove_virtio, Sockets, Virtio, Ethdevs, History
<1>1. /\ ctl'.pc \in {"wait_virtio", "deregister"} /\ ctl'.op = "REMOVE_SOCK" /\ ctl'.path = ctl.path
      /\ ctl'.dev = ctl.dev /\ ctl'.relay = ctl.relay
  BY Zenon, <1>0, GotoFields DEF remove_virtio
<1>2. ctl.relay \in Relays /\ RemoveStage'
  BY Zenon, <1>0, <1>1 DEF PairInv, Stages, RemoveStage
<1>3. Stages'
  BY Zenon, <1>1, <1>2 DEF Stages, Program, DeviceFits, AddStage
<1>4. Waits'
  BY Zenon, <1>0 DEF PairInv, Waits
<1> QED BY Zenon, <1>0, <1>1, <1>3, <1>4, SamePair DEF Opened, Midway

\* The device of a connected VM is destroyed by the service's thread.
LEMMA DestroyedPair ==
  ASSUME Types, PairInv, deregister_socket_vm
  PROVE  PairInv'
<1>0. /\ ctl \in CtlStruct /\ "wait_device" \in Labels /\ ctl.pc = "deregister" /\ cb = None
      /\ ctl.path \in Paths /\ ctl.op \in {"ADD_SOCK", "REMOVE_SOCK"}
      /\ driver' = [driver EXCEPT ![ctl.path] = "closing"]
      /\ UNCHANGED <<map, dpdk, dbdf, ports, slaves, vm, cb, alone, wild>>
  BY Zenon DEF Types, CtlStruct, Labels, PairInv, Stages, Program, deregister_socket_vm, Ethdevs, History
<1>1. /\ ctl'.pc = "wait_device" /\ ctl'.op = ctl.op /\ ctl'.path = ctl.path /\ ctl'.dev = ctl.dev
      /\ ctl'.relay = ctl.relay
  BY Zenon, <1>0, GotoFields DEF deregister_socket_vm
<1>2. AddStage' /\ RemoveStage'
  BY ZenonT(30), <1>0, <1>1 DEF PairInv, Stages, AddStage, AddAllOrNothing, RemoveStage
<1>3. Stages'
  BY Zenon, <1>0, <1>1, <1>2 DEF Stages, Program, DeviceFits
<1>5. Waits'
  BY Zenon, <1>0, <1>1 DEF PairInv, Waits
<1>6. driver[ctl.path] # "none"
  <2>1. \E r \in Relays : map[r] = ctl.path /\ ctl.path # None
    BY Zenon DEF deregister_socket_vm, Asks, get_relay_for_sock
  <2> QED BY Zenon, <2>1 DEF PairInv, DriverUse
<1>7. \A p \in Paths : driver'[p] = "none" <=> driver[p] = "none"
  BY Zenon, <1>0, <1>6 DEF Types
<1> QED BY ZenonT(30), <1>0, <1>1, <1>3, <1>5, <1>7, SamePair DEF Opened, Midway

\* The socket is closed and its relay leaves the map.
LEMMA DeregisterPair ==
  ASSUME Types, SocketInv, PairInv, deregister_socket
  PROVE  PairInv'
<1>0. /\ ctl \in CtlStruct /\ "remove_vf2" \in Labels /\ ctl.pc \in {"deregister", "wait_device"}
      /\ ctl.path \in Paths /\ ctl.op \in {"ADD_SOCK", "REMOVE_SOCK"} /\ None \notin Paths
      /\ driver' = [driver EXCEPT ![ctl.path] = "none"] /\ vm' = [vm EXCEPT ![ctl.path] = "gone"]
      /\ UNCHANGED <<vio, dpdk, dbdf, ports, slaves, cb, alone, wild>>
  BY Zenon, SockAssumption DEF Types, CtlStruct, Labels, PairInv, Stages, Program, deregister_socket, Ethdevs, History
<1>1. \A r \in Relays : map'[r] = IF map[r] = ctl.path THEN None ELSE map[r]
  BY ZenonT(30), <1>0 DEF deregister_socket, get_relay_for_sock
<1>2. ctl.relay \in Relays /\ \A r \in Relays : map[r] = ctl.path => r = ctl.relay
  <2>1. CASE ctl.op = "ADD_SOCK"
    BY Zenon, <1>0, <2>1 DEF PairInv, Stages, AddStage
  <2>2. CASE ctl.op = "REMOVE_SOCK"
    <3>1. ctl.relay \in Relays /\ map[ctl.relay] = ctl.path
      BY Zenon, <1>0, <2>2 DEF PairInv, Stages, RemoveStage
    <3> QED BY Zenon, <1>0, <3>1 DEF SocketInv, OnePath
  <2> QED BY Zenon, <1>0, <2>1, <2>2
<1>4. ctl.op = "REMOVE_SOCK" => driver[ctl.path] # "none" /\ get_relay_for_sock(ctl.path) # {}
  <2>1. ctl.op = "REMOVE_SOCK" => map[ctl.relay] = ctl.path
    BY Zenon, <1>0 DEF PairInv, Stages, RemoveStage
  <2> QED BY SMTT(30), <1>0, <1>2, <2>1 DEF PairInv, DriverUse, get_relay_for_sock
<1>5. /\ ctl'.op = ctl.op /\ ctl'.path = ctl.path /\ ctl'.dev = ctl.dev /\ ctl'.relay = ctl.relay
      /\ ctl.op = "ADD_SOCK" => ctl'.pc = "reply" /\ ctl'.ret = 5
      /\ ctl.op = "REMOVE_SOCK" => ctl'.pc = "remove_vf2"
  <2>1. CASE ctl.op = "ADD_SOCK"
    BY SMTT(30), <1>0, <2>1, ReturnFields DEF deregister_socket, AfterDeregister
  <2>2. CASE ctl.op = "REMOVE_SOCK"
    BY Zenon, <1>0, <1>4, <2>2, GotoFields DEF deregister_socket, AfterDeregister
  <2> QED BY Zenon, <1>0, <2>1, <2>2
<1>6. /\ \A r \in Relays : map'[r] # ctl.path
      /\ driver'[ctl.path] = "none" /\ vm'[ctl.path] = "gone"
      /\ \A p \in Paths : p # ctl.path => driver'[p] = driver[p]
  BY SMTT(30), <1>0, <1>1 DEF Types
<1>7. AddStage'
  <2>1. CASE ctl.op = "ADD_SOCK"
    <3>1. ~wild => \A r \in Relays : dpdk[r] = "ADDED" => dbdf[r] # ctl.dev
      BY Zenon, <1>0, <2>1 DEF PairInv, Stages, AddStage
    <3>2. AddAllOrNothing'
      BY SMTT(30), <1>0, <1>5, <1>6, <2>1, <3>1 DEF AddAllOrNothing, get_relay_for_sock
    <3> QED BY SMTT(30), <1>5, <2>1, <3>2 DEF AddStage
  <2> QED BY Zenon, <1>5, <2>1 DEF AddStage
<1>8. RemoveStage'
  <2>1. CASE ctl.op = "REMOVE_SOCK"
    <3>1. ctl.dev = dbdf[ctl.relay] /\ map[ctl.relay] = ctl.path
      BY Zenon, <1>0, <2>1 DEF PairInv, Stages, RemoveStage
    <3>2. map'[ctl.relay] = None
      BY Zenon, <1>1, <1>2, <3>1
    <3>4. SocketClosed'
      BY ZenonT(30), <1>0, <1>2, <1>5, <1>6, <3>2 DEF SocketClosed
    <3> QED BY Zenon, <1>0, <1>5, <2>1, <3>1, <3>4 DEF RemoveStage
  <2> QED BY Zenon, <1>0, <1>5, <2>1 DEF RemoveStage
<1>9. Stages'
  BY Zenon, <1>0, <1>5, <1>7, <1>8 DEF Stages, Program, DeviceFits
<1>10. DriverUse'
  <2>1. \A r \in Relays : map'[r] # None => map'[r] = map[r] /\ map[r] \in Paths /\ map[r] # ctl.path
    BY <1>0, <1>1 DEF Types
  <2>2. ASSUME NEW p \in Paths, driver'[p] # "none" PROVE \E r \in Relays : map'[r] = p
    <3>1. p # ctl.path /\ driver[p] # "none"
      BY Zenon, <1>6, <2>2
    <3>2. PICK r \in Relays : map[r] = p
      BY Zenon, <3>1 DEF PairInv, DriverUse
    <3> QED BY Zenon, <1>1, <3>1, <3>2
  <2> QED BY SMTT(30), <1>6, <2>1, <2>2 DEF PairInv, DriverUse
<1>11. Waits'
  BY Zenon, <1>0 DEF PairInv, Waits
<1>12. Named'
  BY Zenon, <1>0 DEF PairInv, Named
<1>13. ASSUME ~wild' PROVE Devices'
  <2>1. Devices
    BY Zenon, <1>0, <1>13 DEF PairInv
  <2>2. \A d : DetachSet(d)' = DetachSet(d)
    BY Zenon, <1>0 DEF DetachSet
  <2>3. OwnDevices' /\ Placed'
    BY Zenon, <1>0, <2>1, <2>2 DEF Devices, OwnDevices, Placed
  <2>4. dpdk[ctl.relay] = "ADDED" => ctl'.pc = "remove_vf2"
    BY Zenon, <1>0, <1>5 DEF PairInv, Stages, AddStage
  <2>5. \A r \in Relays : r # ctl.relay => map'[r] = map[r]
    BY Zenon, <1>1, <1>2
  <2>6. Explained'
    BY Zenon, <1>0, <1>5, <2>1, <2>2, <2>4, <2>5 DEF Devices, Explained, Midway
  <2> QED BY Zenon, <2>3, <2>6 DEF Devices
<1> QED BY Zenon, <1>9, <1>10, <1>11, <1>12, <1>13 DEF PairInv

\* A relay without a socket ends the removal, or the program goes wrong.
LEMMA NullPair ==
  ASSUME Types, PairInv, deregister_socket_null
  PROVE  PairInv'
<1>0. ctl \in CtlStruct /\ "undefined" \in Labels /\ ctl.pc = "deregister" /\ ctl.path = None /\ UNCHANGED Data
  BY Zenon DEF Types, Labels, deregister_socket_null, Data, Sockets, Virtio, Ethdevs, History
<1>1. ctl.op = "REMOVE_SOCK"
  BY Zenon, <1>0, SockAssumption DEF PairInv, Stages, Program, AddStage
<1>2. /\ ctl'.op = "REMOVE_SOCK" /\ ctl'.dev = ctl.dev
      /\ ctl'.pc = "undefined" \/ (ctl'.pc = "reply" /\ ctl'.ret = 3)
  <2>1. CASE Goto("undefined")
    BY Zenon, <1>0, <1>1, <2>1, GotoFields
  <2>2. CASE AfterDeregister(1)
    BY SMTT(30), <1>0, <1>1, <2>2, ReturnFields DEF AfterDeregister
  <2> QED BY Zenon, <2>1, <2>2 DEF deregister_socket_null
<1>3. ~wild => ctl.dev \in alone
  BY Zenon, <1>0, <1>1 DEF PairInv, Stages, RemoveStage
<1>4. RemoveStage'
  BY <1>0, <1>2, <1>3 DEF RemoveStage, Data
<1>5. Stages'
  BY Zenon, <1>2, <1>4 DEF Stages, Program, DeviceFits, AddStage
<1> QED BY Zenon, <1>0, <1>1, <1>5, QuietPair DEF Opened, Midway

\* The removal of a device: a worker is asked, unless the relay has none.
LEMMA RemoveVfPair ==
  ASSUME Types, PairInv, virtio_forwarder_remove_vf2
  PROVE  PairInv'
<1>0. /\ ctl \in CtlStruct /\ "wait_vf" \in Labels /\ ctl.pc \in {"REMOVE", "remove_vf2"}
      /\ ctl.pc = "REMOVE" => ctl.op = "REMOVE"
      /\ ctl.pc = "remove_vf2" => ctl.op \in {"ADD_SOCK", "REMOVE_SOCK"}
      /\ UNCHANGED <<map, driver, vio, dbdf, ports, slaves, vm, cb, alone, wild>>
  BY Zenon DEF Types, Labels, PairInv, Stages, Program, virtio_forwarder_remove_vf2, Sockets, Virtio, History
<1>1. /\ ctl.op = "ADD_SOCK" => ctl.relay \in Relays /\ dpdk[ctl.relay] = "ADDED" /\ dbdf[ctl.relay] = ctl.dev
      /\ ctl.op = "REMOVE_SOCK" => SocketClosed /\ ctl.relay \in Relays /\ ctl.dev = dbdf[ctl.relay]
  BY ZenonT(30), <1>0 DEF PairInv, Stages, AddStage, RemoveStage, SocketClosed
<1>2. CASE /\ ctl.relay \in Relays /\ dpdk[ctl.relay] = "ADDED" /\ ctl.dev = dbdf[ctl.relay]
           /\ Goto("wait_vf") /\ dpdk' = [dpdk EXCEPT ![ctl.relay] = "REMOVING"]
  <2>1. /\ ctl'.pc = "wait_vf" /\ ctl'.op = ctl.op /\ ctl'.path = ctl.path /\ ctl'.dev = ctl.dev
        /\ ctl'.relay = ctl.relay
    BY Zenon, <1>0, <1>2, GotoFields
  <2>2. dpdk'[ctl.relay] = "REMOVING" /\ \A r \in Relays : r # ctl.relay => dpdk'[r] = dpdk[r]
    BY Zenon, <1>2 DEF Types
  <2>3. AddStage'
    BY ZenonT(30), <1>0, <2>1 DEF PairInv, Stages, AddStage, AddAllOrNothing
  <2>4. ctl.dev # None
    BY Zenon, <1>2 DEF PairInv, Named
  <2>5. ctl.op = "REMOVE_SOCK" => SocketClosed'
    BY Zenon, <1>0, <1>1, <2>1 DEF SocketClosed
  <2>6. RemoveStage'
    BY ZenonT(30), <1>0, <1>2, <2>1, <2>2, <2>4, <2>5 DEF RemoveStage
  <2>7. Stages'
    BY Zenon, <1>0, <2>1, <2>3, <2>6 DEF Stages, Program, DeviceFits
  <2>8. Waits'
    BY ZenonT(30), <1>0, <2>1, <2>2 DEF PairInv, Waits
  <2> QED BY Zenon, <1>0, <2>1, <2>2, <2>7, <2>8, SamePair DEF Opened, Midway
<1>3. CASE /\ ~(ctl.relay \in Relays /\ dpdk[ctl.relay] = "ADDED" /\ ctl.dev = dbdf[ctl.relay])
           /\ UNCHANGED dpdk /\ \E err \in {0, 1, 3, 4} : AfterRemove(err)
  <2>1. ctl.op \in {"REMOVE", "REMOVE_SOCK"}
    BY Zenon, <1>0, <1>1, <1>3
  <2>2. \E e \in -17 .. 8 : Return(e)
    BY <1>3, <2>1 DEF AfterRemove
  <2>3. /\ ctl'.pc = "reply" /\ ctl'.op = ctl.op
        /\ ctl.op = "REMOVE_SOCK" =>
             ctl'.path = ctl.path /\ ctl'.dev = ctl.dev /\ ctl'.relay = ctl.relay
    BY Zenon, <1>0, <2>2, ReturnFields
  <2>4. UNCHANGED Data
    BY ZenonT(30), <1>0, <1>3 DEF Data
  <2>5. ASSUME ctl.op = "REMOVE_SOCK"
        PROVE  /\ SocketClosed' /\ (ctl.dev \in ports /\ ~wild => ctl.dev \in alone)
               /\ "timeout" \notin Faults => dpdk[ctl.relay] = "UNINIT"
    <3>1. SocketClosed'
      BY Zenon, <1>0, <1>1, <2>3, <2>5 DEF SocketClosed
    <3>2. ctl.pc = "remove_vf2" /\ ctl.relay \in Relays /\ dpdk[ctl.relay] # "ADDED" /\ ctl.dev = dbdf[ctl.relay]
      BY Zenon, <1>0, <1>1, <1>3, <2>5
    <3>3. "timeout" \notin Faults => dpdk[ctl.relay] = "UNINIT"
      BY Zenon, <3>2 DEF PairInv, Waits, Types
    <3>4. ASSUME ctl.dev \in ports, ~wild PROVE ctl.dev \in alone
      <4>1. ctl.dev # None
        BY Zenon, <3>4, SockAssumption DEF PairInv, Named
      <4>2. Explained /\ ~Midway(ctl.relay)
        BY Zenon, <3>2, <3>4 DEF PairInv, Devices, Midway
      <4>3. DetachSet(dbdf[ctl.relay]) \subseteq alone
        BY Zenon, <3>2, <4>1, <4>2 DEF Explained
      <4> QED BY Zenon, <3>2, <4>3 DEF DetachSet
    <3> QED BY Zenon, <3>1, <3>3, <3>4
  <2>6. RemoveStage'
    BY Zenon, <2>3, <2>4, <2>5 DEF RemoveStage, Data
  <2>7. Stages'
    BY Zenon, <2>1, <2>3, <2>6 DEF Stages, Program, DeviceFits, AddStage
  <2>8. \A r \in Relays : ~Midway(r)
    BY Zenon, <1>0, <1>1, <1>3 DEF Midway
  <2> QED BY Zenon, <1>0, <2>1, <2>4, <2>7, <2>8, QuietPair
<1> QED BY ZenonT(30), <1>0, <1>2, <1>3 DEF virtio_forwarder_remove_vf2

\* What is detached belongs to no other relay; what stays is left over.
LEMMA DetachedDevices ==
  ASSUME Types, Devices, NEW t \in Relays, t = ctl.relay, NEW d, d = dbdf[t], d # None, dpdk[t] # "ADDED",
         UNCHANGED <<map, dpdk>>,
         \/ /\ ports' = ports \ DetachSet(d) /\ alone' = alone \ DetachSet(d)
            /\ slaves' = [b \in Bonds |-> IF b = d THEN {} ELSE slaves[b]]
            /\ dbdf' = [dbdf EXCEPT ![t] = None]
         \/ alone' = alone \cup DetachSet(d) /\ UNCHANGED <<ports, slaves, dbdf>>
  PROVE  Devices'
<1>1. OwnDevices /\ Explained /\ Placed
  BY Zenon DEF Devices
<1>2. \A s \in Relays : s # t => ~Midway(s)
  BY Zenon DEF Midway
<1>3. CASE alone' = alone \cup DetachSet(d) /\ UNCHANGED <<ports, slaves, dbdf>>
  <2>1. \A x : DetachSet(x)' = DetachSet(x)
    BY Zenon, <1>3 DEF DetachSet
  <2>2. OwnDevices' /\ Placed'
    BY Zenon, <1>1, <1>3, <2>1 DEF OwnDevices, Placed
  <2>3. Explained'
    BY Zenon, <1>1, <1>2, <1>3, <2>1 DEF Explained
  <2> QED BY Zenon, <2>2, <2>3 DEF Devices
<1>4. CASE /\ ports' = ports \ DetachSet(d) /\ alone' = alone \ DetachSet(d)
           /\ slaves' = [b \in Bonds |-> IF b = d THEN {} ELSE slaves[b]]
           /\ dbdf' = [dbdf EXCEPT ![t] = None]
  <2>1. dbdf'[t] = None /\ \A s \in Relays : s # t => dbdf'[s] = dbdf[s]
    BY Zenon, <1>4 DEF Types
  <2>2. ASSUME NEW s \in Relays, s # t, dbdf[s] # None
        PROVE  /\ DetachSet(d) \cap DetachSet(dbdf[s]) = {} /\ DetachSet(dbdf[s])' = DetachSet(dbdf[s])
               /\ DetachSet(dbdf[s]) \subseteq ports'
    <3>1. DetachSet(d) \cap DetachSet(dbdf[s]) = {} /\ DetachSet(dbdf[s]) \subseteq ports
      BY Zenon, <1>1, <2>2 DEF OwnDevices
    <3>2. d \in DetachSet(d) /\ dbdf[s] \in DetachSet(dbdf[s])
      BY Zenon DEF DetachSet
    <3>3. dbdf[s] # d
      BY Zenon, <3>1, <3>2
    <3>4. DetachSet(dbdf[s])' = DetachSet(dbdf[s])
      BY Zenon, <1>4, <2>1, <2>2, <3>3 DEF DetachSet
    <3> QED BY Zenon, <1>4, <3>1, <3>4
  <2>3. OwnDevices'
    <3>1. ASSUME NEW r \in Relays, NEW s \in Relays, r # s, dbdf'[r] # None, dbdf'[s] # None
          PROVE  DetachSet(dbdf[r])' \cap DetachSet(dbdf[s])' = {}
      <4>1. r # t /\ s # t /\ dbdf[r] # None /\ dbdf[s] # None
        BY Zenon, <2>1, <3>1
      <4>2. DetachSet(dbdf[r]) \cap DetachSet(dbdf[s]) = {}
        BY Zenon, <1>1, <3>1, <4>1 DEF OwnDevices
      <4> QED BY Zenon, <2>2, <4>1, <4>2
    <3>2. \A r \in Relays : dbdf'[r] # None => DetachSet(dbdf[r])' \subseteq ports'
      BY ZenonT(30), <2>1, <2>2
    <3> QED BY Zenon, <3>1, <3>2 DEF OwnDevices
  <2>4. Explained'
    <3> SUFFICES ASSUME NEW s \in Relays, dbdf'[s] # None
                 PROVE  (dpdk[s] = "ADDED" /\ map[s] # None)' \/ DetachSet(dbdf[s])' \subseteq alone'
      BY Zenon DEF Explained
    <3>1. s # t /\ dbdf[s] # None
      BY Zenon, <2>1
    <3>2. (dpdk[s] = "ADDED" /\ map[s] # None) \/ DetachSet(dbdf[s]) \subseteq alone
      BY Zenon, <1>1, <1>2, <3>1 DEF Explained
    <3> QED BY SMTT(30), <1>4, <2>2, <3>1, <3>2
  <2>5. Placed'
    <3> SUFFICES ASSUME NEW x \in ports' \ alone'
                 PROVE  \E r \in Relays : dbdf'[r] # None /\ x \in DetachSet(dbdf[r])'
      BY Zenon DEF Placed
    <3>1. x \in ports \ alone /\ x \notin DetachSet(d)
      BY Zenon, <1>4
    <3>2. PICK r \in Relays : dbdf[r] # None /\ x \in DetachSet(dbdf[r])
      BY Zenon, <1>1, <3>1 DEF Placed
    <3>3. r # t
      BY Zenon, <3>1, <3>2
    <3> QED BY SMTT(30), <2>1, <2>2, <3>2, <3>3
  <2> QED BY Zenon, <2>3, <2>4, <2>5 DEF Devices
<1> QED BY Zenon, <1>3, <1>4

\* The end of the removal of a device.
LEMMA DetachPair ==
  ASSUME Types, PairInv, detach_device
  PROVE  PairInv'
<1>0. /\ ctl \in CtlStruct /\ "deregister" \in Labels /\ ctl.pc = "wait_vf"
      /\ ctl.op \in {"REMOVE", "ADD_SOCK", "REMOVE_SOCK"}
      /\ UNCHANGED <<map, driver, vio, dpdk, vm, cb, wild>>
  BY Zenon DEF Types, Labels, PairInv, Stages, Program, detach_device, Sockets, Virtio
<1>1. PICK t \in Relays : t = ctl.relay /\ ctl.dev = dbdf[t] /\ ctl.dev # None /\ dpdk[t] # "ADDED"
  BY Zenon, <1>0 DEF PairInv, Stages, RemoveStage
<1>2. PICK d : d = ctl.dev
  BY Zenon
<1>3. PICK err \in {0, 2, 5} :
        /\ AfterRemove(err) /\ (dpdk[t] = "UNINIT" \/ "timeout" \in Faults)
        /\ \/ /\ ports' = ports \ DetachSet(d) /\ alone' = alone \ DetachSet(d)
              /\ slaves' = [b \in Bonds |-> IF b = d THEN {} ELSE slaves[b]]
              /\ dbdf' = [dbdf EXCEPT ![t] = None]
           \/ err # 0 /\ alone' = alone \cup DetachSet(d) /\ UNCHANGED <<ports, slaves, dbdf>>
  BY SMTT(30), <1>1, <1>2 DEF detach_device
<1>4. /\ ctl'.op = ctl.op
      /\ ctl.op # "REMOVE" => ctl'.path = ctl.path /\ ctl'.dev = ctl.dev /\ ctl'.relay = ctl.relay
      /\ ctl'.pc = IF ctl.op = "ADD_SOCK" THEN "deregister" ELSE "reply"
      /\ ctl.op = "REMOVE_SOCK" /\ ctl'.ret = 0 => err = 0
  <2>1. CASE ctl.op = "ADD_SOCK"
    BY Zenon, <1>0, <1>3, <2>1, GotoFields DEF AfterRemove
  <2>2. CASE ctl.op # "ADD_SOCK"
    <3>1. PICK e \in -17 .. 8 : Return(e) /\ (ctl.op = "REMOVE_SOCK" /\ e = 0 => err = 0)
      BY SMTT(30), <1>3, <2>2 DEF AfterRemove
    <3> QED BY Zenon, <1>0, <2>2, <3>1, ReturnFields
  <2> QED BY Zenon, <2>1, <2>2
<1>5. \A s \in Relays : s # t => dbdf'[s] = dbdf[s]
  BY Zenon, <1>3 DEF Types
<1>6. AddStage'
  <2>1. CASE ctl.op = "ADD_SOCK"
    <3>1. ctl.path \in Paths /\ \A r \in Relays : map[r] = ctl.path => r = ctl.relay
      BY Zenon, <1>0, <2>1 DEF PairInv, Stages, AddStage
    <3>2. ASSUME ~wild, NEW r \in Relays, dpdk[r] = "ADDED" PROVE dbdf'[r] # d
      <4>1. r # t /\ dbdf[r] # None /\ dbdf[t] # None
        BY Zenon, <1>1, <3>2 DEF PairInv, Named
      <4>2. DetachSet(dbdf[r]) \cap DetachSet(dbdf[t]) = {}
        BY Zenon, <3>2, <4>1 DEF PairInv, Devices, OwnDevices
      <4>3. dbdf[r] \in DetachSet(dbdf[r]) /\ dbdf[t] \in DetachSet(dbdf[t])
        BY Zenon DEF DetachSet
      <4> QED BY Zenon, <1>1, <1>2, <1>5, <4>1, <4>2, <4>3
    <3> QED BY Zenon, <1>0, <1>1, <1>2, <1>4, <2>1, <3>1, <3>2 DEF AddStage, AddAllOrNothing
  <2> QED BY Zenon, <1>4, <2>1 DEF AddStage
<1>7. RemoveStage'
  <2>1. CASE ctl.op = "REMOVE_SOCK"
    <3>1. SocketClosed
      BY ZenonT(30), <1>0, <2>1 DEF PairInv, Stages, RemoveStage
    <3>2. SocketClosed'
      BY ZenonT(30), <1>0, <1>4, <2>1, <3>1 DEF SocketClosed
    <3>3. err = 0 => ctl.dev \notin ports'
      BY Zenon, <1>2, <1>3 DEF DetachSet
    <3> QED BY ZenonT(30), <1>0, <1>1, <1>3, <1>4, <2>1, <3>2, <3>3 DEF RemoveStage
  <2> QED BY Zenon, <1>0, <1>4, <2>1 DEF RemoveStage
<1>8. Stages'
  BY Zenon, <1>0, <1>4, <1>6, <1>7 DEF Stages, Program, DeviceFits
<1>9. DriverUse'
  BY ZenonT(30), <1>0, <1>4 DEF PairInv, DriverUse, Opened
<1>10. Waits'
  BY Zenon, <1>0, <1>1, <1>3 DEF PairInv, Waits
<1>11. Named'
  <2>1. DetachSet(d) \subseteq Devs
    BY SMTT(30), <1>1, <1>2 DEF DetachSet, Devs, Types
  <2> QED BY Zenon, <1>0, <1>1, <1>3, <1>5, <2>1 DEF PairInv, Named
<1>12. ~wild' => Devices'
  BY <1>0, <1>1, <1>2, <1>3, DetachedDevices DEF PairInv
<1> QED BY Zenon, <1>8, <1>9, <1>10, <1>11, <1>12 DEF PairInv

-----------------------------------------------------------------------------
(* Workers and the vhost thread *)

\* They change neither sockets nor devices, and no VM comes to a closed socket.
LEMMA ThreadSteps ==
  ASSUME Types,
         \/ \E r \in Relays : worker_remove_virtio(r) \/ worker_remove_vf(r)
         \/ \E p \in Paths : Connect(p) \/ new_device_cb(p) \/ destroy_device_cb(p)
  PROVE  /\ UNCHANGED <<map, driver, dbdf, ports, slaves, ctl, alone, wild>>
         /\ \A r \in Relays : /\ dpdk'[r] = "ADDED" <=> dpdk[r] = "ADDED"
                              /\ dpdk'[r] = "REMOVING" => dpdk[r] = "REMOVING"
         /\ \A p \in Paths : driver[p] = "none" /\ vm[p] = "gone" => vm'[p] = "gone"
<1> USE DEF Types, Sockets, Virtio, Ethdevs, History
<1>1. ASSUME NEW t \in Relays, worker_remove_virtio(t) \/ worker_remove_vf(t)
      PROVE  /\ UNCHANGED <<map, driver, dbdf, ports, slaves, ctl, alone, wild, vm>>
             /\ \A r \in Relays : /\ dpdk'[r] = "ADDED" <=> dpdk[r] = "ADDED"
                                  /\ dpdk'[r] = "REMOVING" => dpdk[r] = "REMOVING"
  BY Zenon, <1>1 DEF worker_remove_virtio, worker_remove_vf
<1>2. ASSUME NEW q \in Paths, Connect(q) \/ new_device_cb(q) \/ destroy_device_cb(q)
      PROVE  /\ UNCHANGED <<map, driver, dpdk, dbdf, ports, slaves, ctl, alone, wild>>
             /\ \A p \in Paths : driver[p] = "none" /\ vm[p] = "gone" => vm'[p] = "gone"
  <2>1. CASE Connect(q)
    BY Zenon, <2>1 DEF Connect
  <2>2. CASE new_device_cb(q)
    BY Zenon, <2>2 DEF new_device_cb
  <2>3. CASE destroy_device_cb(q)
    BY Zenon, <2>3 DEF destroy_device_cb
  <2> QED BY Zenon, <1>2, <2>1, <2>2, <2>3
<1>3. CASE \E r \in Relays : worker_remove_virtio(r) \/ worker_remove_vf(r)
  BY ZenonT(30), <1>1, <1>3
<1>4. CASE \E p \in Paths : Connect(p) \/ new_device_cb(p) \/ destroy_device_cb(p)
  BY Zenon, <1>2, <1>4
<1> QED BY ZenonT(30), <1>3, <1>4

\* So they keep the invariant.
LEMMA ThreadPair ==
  ASSUME Types, PairInv,
         \/ \E r \in Relays : worker_remove_virtio(r) \/ worker_remove_vf(r)
         \/ \E p \in Paths : Connect(p) \/ new_device_cb(p) \/ destroy_device_cb(p)
  PROVE  PairInv'
<1>1. /\ UNCHANGED <<map, driver, dbdf, ports, slaves, ctl, alone, wild>>
      /\ \A r \in Relays : /\ dpdk'[r] = "ADDED" <=> dpdk[r] = "ADDED"
                           /\ dpdk'[r] = "REMOVING" => dpdk[r] = "REMOVING"
      /\ \A p \in Paths : driver[p] = "none" /\ vm[p] = "gone" => vm'[p] = "gone"
  BY ZenonT(30), ThreadSteps
<1>2. Waits'
  BY ZenonT(30), <1>1 DEF PairInv, Waits
<1>3. \A r \in Relays : dpdk[r] = "UNINIT" => dpdk'[r] = "UNINIT"
  <2>1. \A r \in Relays : dpdk'[r] \in {"UNINIT", "ADDED", "REMOVING"}
    BY Zenon, ThreadTypes DEF Types
  <2> QED BY ZenonT(30), <1>1, <2>1
<1>4. AddStage'
  BY ZenonT(30), <1>1, <1>3 DEF PairInv, Stages, AddStage, AddAllOrNothing, get_relay_for_sock
<1>5. SocketClosed => SocketClosed'
  BY ZenonT(30), <1>1 DEF SocketClosed
<1>6. RemoveStage'
  BY ZenonT(30), <1>1, <1>3, <1>5 DEF PairInv, Stages, RemoveStage, SocketClosed
<1>7. Stages'
  BY ZenonT(30), <1>1, <1>4, <1>6 DEF PairInv, Stages, Program, DeviceFits
<1> QED BY Zenon, <1>1, <1>2, <1>7, SamePair DEF Midway

-----------------------------------------------------------------------------
(* Theorems *)

\* The service has done nothing yet, and its sockets are open.
LEMMA InitPair ==
  ASSUME Init
  PROVE  PairInv
<1>1. Stages
  BY ZenonT(30) DEF Init, Idle, Stages, Program, DeviceFits, AddStage, RemoveStage
<1>2. map \in [Relays -> Paths \cup {None}]
  BY ZenonT(30), SockAssumption DEF Init
<1>3. DriverUse
  BY ZenonT(30), <1>2, SockAssumption DEF Init, DriverUse, get_relay_for_sock
<1>4. Waits /\ Named /\ Devices
  BY ZenonT(30) DEF Init, Waits, Named, Devices, OwnDevices, Explained, Placed
<1> QED BY Zenon, <1>1, <1>3, <1>4 DEF PairInv

\* Every step of the service, of a worker and of the vhost thread keeps the
\* invariant.
LEMMA PairsAlways == Spec => []PairInv
<1>1. Init => PairInv
  BY Zenon, InitPair
<1>2. Types /\ SocketInv /\ PairInv /\ [Next]_vars => PairInv'
  <2> SUFFICES ASSUME Types, SocketInv, PairInv, [Next]_vars PROVE PairInv'
    BY Zenon
  <2>1. CASE UNCHANGED vars
    <3>1. AddStage'
      BY ZenonT(30), <2>1 DEF vars, PairInv, Stages, AddStage, AddAllOrNothing, get_relay_for_sock
    <3>2. RemoveStage'
      BY ZenonT(30), <2>1 DEF vars, PairInv, Stages, RemoveStage, SocketClosed
    <3>3. Program' /\ DeviceFits' /\ Waits'
      BY ZenonT(30), <2>1 DEF vars, PairInv, Stages, Program, DeviceFits, Waits
    <3>4. Stages'
      BY Zenon, <3>1, <3>2, <3>3 DEF Stages
    <3> QED BY ZenonT(30), <2>1, <3>3, <3>4, SamePair DEF vars, Midway
  <2>2. CASE \/ \E r \in Relays : worker_remove_virtio(r) \/ worker_remove_vf(r)
             \/ \E p \in Paths : Connect(p) \/ new_device_cb(p) \/ destroy_device_cb(p)
    BY Zenon, <2>2, ThreadPair
  <2>3. CASE handle_PortControlRequest \/ Reply
    BY Zenon, <2>3, RequestPair
  <2>4. CASE virtio_add_sock_dev_pair
    BY Zenon, <2>4, CheckedPair
  <2>5. CASE add_vf2_refused \/ init_vf \/ virtio_forwarder_bond_add
    BY Zenon, <2>5, AttachPair
  <2>6. CASE register_relay_socket \/ rte_vhost_driver_start \/ register_relay_socket_map
    BY Zenon, <2>6, OpenPair
  <2>7. CASE virtio_remove_sock_dev_pair \/ remove_virtio \/ deregister_socket_vm
    BY Zenon, <2>7, FoundPair, RemoveVirtioPair, DestroyedPair
  <2>8. CASE deregister_socket \/ deregister_socket_null
    BY Zenon, <2>8, DeregisterPair, NullPair
  <2>9. CASE virtio_forwarder_remove_vf2 \/ detach_device
    BY Zenon, <2>9, RemoveVfPair, DetachPair
  <2>10. CASE virtio_query_pci
    <3>1. ctl.op = "QUERY_PCI" /\ ctl.pc = "QUERY_PCI" /\ UNCHANGED Data
      BY Zenon, <2>10 DEF virtio_query_pci, PairInv, Stages, Program, Data, Sockets, Virtio, Ethdevs, History
    <3>2. ctl'.pc = "reply" /\ ctl'.op = "QUERY_PCI"
      BY SMTT(30), <2>10, <3>1, ReturnFields DEF virtio_query_pci, Types
    <3>3. Stages'
      BY ZenonT(30), <3>2 DEF Stages, Program, DeviceFits, AddStage, RemoveStage
    <3> QED BY ZenonT(30), <3>1, <3>3, QuietPair DEF Opened, Midway
  <2> QED BY Zenon, <2>1, <2>2, <2>3, <2>4, <2>5, <2>6, <2>7, <2>8, <2>9, <2>10 DEF Next, PortControl
<1> QED BY <1>1, <1>2, SocketsAlways, PTL DEF Spec

\* Every variable keeps its type: the record of the request, the maps, and the
\* sets of devices that are attached or left over.
THEOREM TypeCorrect == Spec => []TypeOK
<1>1. ASSUME Types, PairInv PROVE TypeOK
  BY Zenon, <1>1 DEF Types, CtlStruct, Labels, Operations, PairInv, Named, TypeOK
<1> QED BY <1>1, SocketsAlways, PairsAlways, PTL

\* No two relays have one socket, one device, or a slave of the other's bond.
THEOREM OneToOneAlways == Spec => []OneToOne
<1>1. ASSUME SocketInv, PairInv PROVE OneToOne
  <2>1. OnePath /\ Named /\ (~wild => OwnDevices)
    BY Zenon, <1>1 DEF SocketInv, PairInv, Devices
  <2>2. ASSUME NEW r \in Relays, NEW s \in Relays, r # s, dpdk[r] = "ADDED", dpdk[s] = "ADDED", ~wild
        PROVE  dbdf[r] # dbdf[s] /\ (dbdf[s] \in Bonds => dbdf[r] \notin slaves[dbdf[s]])
    <3>1. DetachSet(dbdf[r]) \cap DetachSet(dbdf[s]) = {}
      BY Zenon, <2>1, <2>2 DEF OwnDevices, Named
    <3>2. /\ dbdf[r] \in DetachSet(dbdf[r]) /\ dbdf[s] \in DetachSet(dbdf[s])
          /\ dbdf[s] \in Bonds => slaves[dbdf[s]] \subseteq DetachSet(dbdf[s])
      BY Zenon DEF DetachSet
    <3> QED BY Zenon, <3>1, <3>2
  <2> QED BY ZenonT(30), <2>1, <2>2 DEF OneToOne, OnePath
<1> QED BY <1>1, SocketsAlways, PairsAlways, PTL

\* Between requests what is attached belongs to a relay with a socket, or it is
\* known why not: no failure of a step loses a device.
THEOREM NothingLeakedCorrect == Spec => []NothingLeaked
<1>1. ASSUME PairInv PROVE NothingLeaked
  <2> SUFFICES ASSUME ctl.pc = "idle", ~wild, NEW d \in ports \ alone
               PROVE  \E r \in Relays : dpdk[r] = "ADDED" /\ map[r] # None /\ d \in DetachSet(dbdf[r])
    BY Zenon DEF NothingLeaked
  <2>1. Explained /\ Placed
    BY Zenon, <1>1 DEF PairInv, Devices
  <2>2. PICK r \in Relays : dbdf[r] # None /\ d \in DetachSet(dbdf[r])
    BY Zenon, <2>1 DEF Placed
  <2>3. dpdk[r] = "ADDED" /\ map[r] # None
    BY Zenon, <2>1, <2>2 DEF Explained, Midway
  <2> QED BY Zenon, <2>2, <2>3
<1> QED BY <1>1, PairsAlways, PTL

\* An addition makes the pair, or leaves neither socket nor device, whichever
\* of its steps fails.
THEOREM AddAllOrNothingCorrect == Spec => []AddAllOrNothing
<1>1. PairInv => AddAllOrNothing
  BY Zenon DEF PairInv, Stages, AddStage, AddAllOrNothing
<1> QED BY <1>1, PairsAlways, PTL

\* A removal that is answered with OK has closed the socket and detached the
\* device, whatever VMs did meanwhile, and unless waits time out it has freed
\* the relay: only a VM that came back while it waited may be left without a
\* worker.
THEOREM RemovedIsGoneCorrect == Spec => []RemovedIsGone
<1>1. ASSUME Types, SocketInv, WorkInv, PairInv PROVE RemovedIsGone
  <2> SUFFICES ASSUME ctl.pc = "reply", ctl.op = "REMOVE_SOCK", ctl.ret = 0
               PROVE  /\ driver[ctl.path] = "none" /\ get_relay_for_sock(ctl.path) = {}
                      /\ vm[ctl.path] = "gone" /\ vio[ctl.relay] # "READY"
                      /\ ctl.dev \in ports /\ ~wild => ctl.dev \in alone
                      /\ "timeout" \notin Faults =>
                           dpdk[ctl.relay] = "UNINIT" /\ (vio[ctl.relay] = "UNINIT" \/ ctl.relay \in back)
    BY Zenon DEF RemovedIsGone
  <2>1. /\ SocketClosed
        /\ ctl.dev \in ports /\ ~wild => ctl.dev \in alone
        /\ "timeout" \notin Faults => dpdk[ctl.relay] = "UNINIT"
    BY Zenon, <1>1 DEF PairInv, Stages, RemoveStage
  <2>2. PICK r \in Relays : r = ctl.relay /\ map[r] = None
    BY Zenon, <2>1 DEF SocketClosed
  <2>3. vio[r] # "READY"
    BY Zenon, <1>1, <2>2 DEF SocketInv, ReadyConnected
  <2>4. ASSUME "timeout" \notin Faults, vio[r] # "UNINIT" PROVE r \in back
    <3>1. vio[r] = "REMOVING"
      BY Zenon, <1>1, <2>3, <2>4 DEF Types
    <3>2. ~vio2vf[r]
      BY Zenon, <1>1, <2>2, <2>4, <3>1 DEF WorkInv, Waited
    <3> QED BY Zenon, <1>1, <2>4, <3>2 DEF WorkInv, HasWorker
  <2>5. driver[ctl.path] = "none" /\ get_relay_for_sock(ctl.path) = {} /\ vm[ctl.path] = "gone"
    BY Zenon, <2>1 DEF SocketClosed, get_relay_for_sock
  <2> QED BY Zenon, <2>1, <2>2, <2>3, <2>4, <2>5
<1> QED BY <1>1, SocketsAlways, PairsAlways, PTL

\* The NULL path of a relay is met only for a device that no socket goes with.
THEOREM NullPathExplainedCorrect == Spec => []NullPathExplained
<1>1. PairInv => NullPathExplained
  BY ZenonT(30) DEF PairInv, Stages, Program, RemoveStage, NullPathExplained
<1> QED BY <1>1, PairsAlways, PTL
=============================================================================
