------------------------------ MODULE RxQueues ------------------------------
(***************************************************************************)
(* The queues of a VM in the direction VF to VM (virtio_worker.c): how the *)
(* vhost thread tells the worker which queues are enabled, and how the     *)
(* worker spreads a burst of packets over them, field by field while the   *)
(* vhost thread writes.  One relay; the worker has both of its directions. *)
(* The handshakes that connect and remove a VM are those of Relay, reduced *)
(* to the steps that change what is modelled here.                         *)
(***************************************************************************)
EXTENDS Integers, FiniteSets, SequencesExt, Bitwise

CONSTANTS
  MaxPairs,   \* queue pairs of the VM, at most MAX_MULTIQUEUE_PAIRS
  Burst,      \* BURST_LEN
  Hash        \* [flow -> hash value]: calc_eth_header_hash of its packets

ASSUME QueueAssumption == MaxPairs \in Nat \ {0} /\ Burst \in Nat \ {0}

Pairs == 0 .. MaxPairs - 1
Flows == DOMAIN Hash

\* A packet of the burst in hand: its flow, its place in the burst as the VF
\* delivered it, and hash.fdir.id (Unset: whatever the driver left there).
Unset == MaxPairs
Packet == [flow : Flows, n : 1 .. Burst, q : Pairs \cup {Unset}]

VARIABLES
  vio,      \* the queue fields of struct relay_virtio
  state,    \* vio.state and dpdk.state
  cb,       \* the locals of the vhost thread's callback
  rx,       \* rx_pkts[used ..] and rx_pkts_used of struct relay_dpdk
  wk,       \* the locals of the worker
  sent,     \* history: the packets of the burst in the VM's rings
  settled   \* history: the VM's queues are the first ones and stay as they were
            \* when it connected: "no", "next" (from the next burst on), "yes"

vars == <<vio, state, cb, rx, wk, sent, settled>>

-----------------------------------------------------------------------------
(* The vhost thread *)

\* queue_id >> 1 and the parity of queue_id: only even queues (VF to VM)
\* matter here.  bmp and idx are the locals of the loop over the bitmap.
Callback(pc, bmp, idx) == cb' = [pc |-> pc, bmp |-> bmp, idx |-> idx]

\* (active & (active - 1)) == 0, which holds of zero too.
IsPow2(active) == active = 0 \/ (active & (active - 1)) = 0

\* vring_state_change: set or clear the bit ...
vring_state_change(q) ==
  /\ cb.pc = "idle"
  /\ \E bmp \in {vio.rx_q_bitmap \cup {q}, vio.rx_q_bitmap \ {q}} :
       /\ vio' = [vio EXCEPT !.rx_q_bitmap = bmp]
       /\ Callback("pow2", bmp, 0)
  /\ settled' = "no"
  /\ UNCHANGED <<state, rx, wk, sent>>

\* Mutant of vring_lut: __builtin_ffsl counts from one.
vring_lut_ffs ==
  /\ cb.pc = "lut" /\ cb.bmp # {}
  /\ LET val == CHOOSE q \in cb.bmp : \A p \in cb.bmp : q <= p IN
     /\ vio' = [vio EXCEPT !.rx_q_lut[cb.idx] = val + 1]
     /\ Callback("lut", cb.bmp \ {val}, cb.idx + 1)
  /\ UNCHANGED <<state, rx, wk, sent, settled>>

\* ... decide how the hash is reduced ...
vring_pow2 ==
  /\ cb.pc = "pow2"
  /\ vio' = [vio EXCEPT !.pow2queues = IsPow2(Cardinality(vio.rx_q_bitmap))]
  /\ Callback("lut", cb.bmp, 0)
  /\ UNCHANGED <<state, rx, wk, sent, settled>>

\* ... write the lookup table, lowest queue first ...
vring_lut ==
  /\ cb.pc = "lut" /\ cb.bmp # {}
  /\ LET val == CHOOSE q \in cb.bmp : \A p \in cb.bmp : q <= p IN
     /\ vio' = [vio EXCEPT !.rx_q_lut[cb.idx] = val]
     /\ Callback("lut", cb.bmp \ {val}, cb.idx + 1)
  /\ UNCHANGED <<state, rx, wk, sent, settled>>

\* ... and publish the number of queues.
vring_active ==
  /\ cb.pc = "lut" /\ cb.bmp = {}
  /\ vio' = [vio EXCEPT !.rx_q_active = Cardinality(vio.rx_q_bitmap)]
  /\ Callback("idle", {}, 0)
  /\ UNCHANGED <<state, rx, wk, sent, settled>>

\* The queues of a VM are the first ones.
Prefix(queues) == queues = 0 .. Cardinality(queues) - 1

\* add_virtio publishes the VM, then starts the VF.
add_virtio ==
  \/ /\ cb.pc = "idle" /\ state.vio = "UNINIT"
     /\ state' = [state EXCEPT !.vio = "READY"]
     /\ settled' = IF Prefix(vio.rx_q_bitmap) THEN "next" ELSE "no"
     /\ Callback("added", {}, 0)
     /\ UNCHANGED <<vio, rx, wk, sent>>
  \/ /\ cb.pc = "added"
     /\ state' = [state EXCEPT !.dpdk = "READY"]
     /\ Callback("idle", {}, 0)
     /\ UNCHANGED <<vio, rx, wk, sent, settled>>

\* remove_virtio: ask the worker, then clear the bitmaps, then stop the VF.
\* The lookup table, rx_q_active and pow2queues keep their values.
remove_virtio ==
  \/ /\ cb.pc = "idle" /\ state.vio = "READY"
     /\ state' = [state EXCEPT !.vio = "REMOVING"]
     /\ Callback("wait", {}, 0)
     /\ UNCHANGED <<vio, rx, wk, sent, settled>>
  \/ /\ cb.pc = "wait" /\ state.vio = "UNINIT"
     /\ vio' = [vio EXCEPT !.rx_q_bitmap = {}]
     /\ Callback("removed", {}, 0)
     /\ UNCHANGED <<state, rx, wk, sent, settled>>
  \/ /\ cb.pc = "removed"
     /\ state' = [state EXCEPT !.dpdk = "ADDED"]
     /\ Callback("idle", {}, 0)
     /\ UNCHANGED <<vio, rx, wk, sent, settled>>

VhostThread ==
  \/ \E q \in Pairs : vring_state_change(q)
  \/ vring_pow2 \/ vring_lut \/ vring_active \/ add_virtio \/ remove_virtio

-----------------------------------------------------------------------------
(* The worker: relay_vf2vm_traffic *)

Multiqueue == vio.rx_q_bitmap \ {0} # {}       \* rx_q_bitmap > 1

\* An access outside an array: nothing is known of what follows.
Undefined == wk' = [pc |-> "undefined", i |-> 0, alloc |-> 0, kept |-> <<>>]

Goto(pc) == wk' = [pc |-> pc, i |-> 0, alloc |-> 0, kept |-> <<>>]

\* The burst that begins is the first one received from a settled VM's VF.
\* One in hand when the VM connects (the removal of the VM before it leaves
\* the VF READY for a while) was not hashed for the VM's queues.
Settles == IF settled = "next" THEN "yes" ELSE settled

\* Mutant of dpdk_rx: rx_pkts_used is not reset.
dpdk_rx_used ==
  /\ wk.pc = "dpdk_rx" /\ rx.pkts = <<>> /\ state.dpdk = "READY"
  /\ \E flows \in BoundedSeq(Flows, Burst) :
       rx' = [rx EXCEPT !.pkts = [n \in DOMAIN flows |-> [flow |-> flows[n], n |-> n, q |-> Unset]]]
  /\ sent' = {} /\ settled' = Settles
  /\ Goto(IF Multiqueue THEN "hash" ELSE "virtio_tx")
  /\ UNCHANGED <<vio, state, cb>>

\* A burst is received when none is in hand and the VF is READY; how long it
\* may be depends on the room in the VM's first queue.
dpdk_rx ==
  /\ wk.pc = "dpdk_rx" /\ rx.pkts = <<>> /\ state.dpdk = "READY"
  /\ \E flows \in BoundedSeq(Flows, Burst) :
       rx' = [used |-> 0,
              pkts |-> [n \in DOMAIN flows |-> [flow |-> flows[n], n |-> n, q |-> Unset]]]
  /\ sent' = {} /\ settled' = Settles
  /\ Goto(IF Multiqueue THEN "hash" ELSE "virtio_tx")
  /\ UNCHANGED <<vio, state, cb>>

dpdk_rx_skip ==
  /\ wk.pc = "dpdk_rx" /\ (rx.pkts # <<>> \/ state.dpdk # "READY")
  /\ Goto("virtio_tx")
  /\ UNCHANGED <<vio, state, cb, rx, sent, settled>>

\* calc_mbuf_queue, one packet a step.  Without an active queue the index is
\* the hash itself, or the remainder of a division by zero.
calc_eth_header_hash(p) == Hash[p.flow]

Reduced(h) == IF vio.pow2queues THEN h & (vio.rx_q_active - 1) ELSE h % vio.rx_q_active

calc_mbuf_queue ==
  /\ wk.pc = "hash"
  /\ IF wk.i = Len(rx.pkts) THEN Goto("virtio_tx") /\ UNCHANGED rx
     ELSE IF vio.rx_q_active = 0 THEN Undefined /\ UNCHANGED rx
     ELSE LET k == wk.i + 1 IN
          /\ rx' = [rx EXCEPT !.pkts[k].q = vio.rx_q_lut[Reduced(calc_eth_header_hash(rx.pkts[k]))]]
          /\ wk' = [wk EXCEPT !.i = k]
  /\ UNCHANGED <<vio, state, cb, sent, settled>>

\* The first s packets of row, which the VM's queue has taken.
Taken(row, s, queue) ==
  sent' = sent \cup {[flow |-> row[k].flow, n |-> row[k].n, to |-> queue] : k \in 1 .. s}

\* virtio_tx, and the caller frees the burst if the VM is not READY.  The
\* bitmap and the state are read in one step.
virtio_tx ==
  /\ wk.pc = "virtio_tx"
  /\ IF rx.pkts # <<>> /\ state.vio # "READY" THEN rx' = [rx EXCEPT !.pkts = <<>>] /\ Goto("tail")
     ELSE UNCHANGED rx /\ Goto(IF rx.pkts = <<>> THEN "tail"
                               ELSE IF Multiqueue THEN "batch" ELSE "single")
  /\ UNCHANGED <<vio, state, cb, sent, settled>>

\* With one queue, rte_vhost_enqueue_burst (repeated while it makes progress)
\* takes any number of packets from the front.
virtio_tx_single ==
  /\ wk.pc = "single"
  /\ \E s \in 0 .. Len(rx.pkts) :
       /\ rx' = [pkts |-> SubSeq(rx.pkts, s + 1, Len(rx.pkts)), used |-> rx.used + s]
       /\ Taken(rx.pkts, s, 0)
  /\ Goto("tail")
  /\ UNCHANGED <<vio, state, cb, settled>>

\* Mutant of virtio_tx_batch: the arrays have a row too few.
virtio_tx_batch_short ==
  /\ wk.pc = "batch"
  /\ IF \E k \in DOMAIN rx.pkts : rx.pkts[k].q >= vio.rx_q_active - 1
       THEN Undefined
       ELSE wk' = [pc |-> "queue", i |-> 0, alloc |-> vio.rx_q_active - 1, kept |-> <<>>]
  /\ UNCHANGED <<vio, state, cb, rx, sent, settled>>

\* q_pkts and q_len have rx_q_active rows; a packet whose queue has no row is
\* written outside.
virtio_tx_batch ==
  /\ wk.pc = "batch"
  /\ IF \E k \in DOMAIN rx.pkts : rx.pkts[k].q >= vio.rx_q_active
       THEN Undefined
       ELSE wk' = [pc |-> "queue", i |-> 0, alloc |-> vio.rx_q_active, kept |-> <<>>]
  /\ UNCHANGED <<vio, state, cb, rx, sent, settled>>

Row(i) == SelectSeq(rx.pkts, LAMBDA p : p.q = i)

\* Mutant of virtio_tx_queue: one packet too many is put back.
virtio_tx_queue_off_by_one ==
  /\ wk.pc = "queue" /\ wk.i < vio.rx_q_active
  /\ IF wk.i >= wk.alloc THEN Undefined /\ UNCHANGED sent
     ELSE \E s \in 0 .. Len(Row(wk.i)) :
            /\ wk' = [wk EXCEPT !.i = @ + 1,
                        !.kept = @ \o Reverse(SubSeq(Row(wk.i), IF s = 0 THEN 1 ELSE s, Len(Row(wk.i))))]
            /\ Taken(Row(wk.i), s, wk.i)
  /\ UNCHANGED <<vio, state, cb, rx, settled>>

\* One turn of the loop over the queues, which reads rx_q_active anew: row i
\* goes to queue i, and what the queue does not take is put back, last first.
virtio_tx_queue ==
  /\ wk.pc = "queue" /\ wk.i < vio.rx_q_active
  /\ IF wk.i >= wk.alloc THEN Undefined /\ UNCHANGED sent
     ELSE \E s \in 0 .. Len(Row(wk.i)) :
            /\ wk' = [wk EXCEPT !.i = @ + 1,
                        !.kept = @ \o Reverse(SubSeq(Row(wk.i), s + 1, Len(Row(wk.i))))]
            /\ Taken(Row(wk.i), s, wk.i)
  /\ UNCHANGED <<vio, state, cb, rx, settled>>

\* rx_pkts_avail becomes the number of packets put back; rx_pkts_used stays.
virtio_tx_end ==
  /\ wk.pc = "queue" /\ wk.i >= vio.rx_q_active
  /\ rx' = [rx EXCEPT !.pkts = wk.kept]
  /\ Goto("tail")
  /\ UNCHANGED <<vio, state, cb, sent, settled>>

\* The removal of the VM frees the burst.
worker_remove_virtio ==
  /\ wk.pc = "tail"
  /\ IF state.vio = "REMOVING"
       THEN rx' = [pkts |-> <<>>, used |-> IF rx.pkts = <<>> THEN rx.used ELSE 0]
            /\ state' = [state EXCEPT !.vio = "UNINIT"]
       ELSE UNCHANGED <<rx, state>>
  /\ Goto("dpdk_rx")
  /\ UNCHANGED <<vio, cb, sent, settled>>

relay_vf2vm_traffic ==
  \/ dpdk_rx \/ dpdk_rx_skip \/ calc_mbuf_queue \/ virtio_tx \/ virtio_tx_single
  \/ virtio_tx_batch \/ virtio_tx_queue \/ virtio_tx_end \/ worker_remove_virtio

Init ==
  /\ vio = [rx_q_bitmap |-> {}, pow2queues |-> FALSE, rx_q_active |-> 0,
            rx_q_lut |-> [k \in Pairs |-> 0]]
  /\ state = [vio |-> "UNINIT", dpdk |-> "ADDED"]
  /\ cb = [pc |-> "idle", bmp |-> {}, idx |-> 0]
  /\ rx = [pkts |-> <<>>, used |-> 0]
  /\ wk = [pc |-> "dpdk_rx", i |-> 0, alloc |-> 0, kept |-> <<>>]
  /\ sent = {} /\ settled = "no"

Next == VhostThread \/ relay_vf2vm_traffic

Spec == Init /\ [][Next]_vars

-----------------------------------------------------------------------------
(* Properties *)

\* The queue fields, the burst and the locals are well formed; the lookup
\* table holds queues of the VM (virtio_forwarder_vring_state_change).
TypeOK ==
  /\ vio \in [rx_q_bitmap : SUBSET Pairs, pow2queues : BOOLEAN, rx_q_active : 0 .. MaxPairs,
              rx_q_lut : [Pairs -> Pairs]]
  /\ state \in [vio : {"UNINIT", "READY", "REMOVING"}, dpdk : {"ADDED", "READY"}]
  /\ cb \in [pc : {"idle", "pow2", "lut", "added", "wait", "removed"},
             bmp : SUBSET Pairs, idx : 0 .. MaxPairs]
  /\ rx.used \in 0 .. Burst /\ \A k \in DOMAIN rx.pkts : rx.pkts[k] \in Packet
  /\ wk.pc \in {"dpdk_rx", "hash", "virtio_tx", "single", "batch", "queue", "tail", "undefined"}
  /\ wk.i \in 0 .. MaxPairs + Burst /\ wk.alloc \in 0 .. MaxPairs
  /\ sent \subseteq [flow : Flows, n : 1 .. Burst, to : Pairs] /\ settled \in {"no", "next", "yes"}

\* rx_pkts_used + rx_pkts_avail never exceeds the burst array, and the packets
\* put back fit where they came from, however the single-queue path (which
\* moves rx_pkts_used) and the multiqueue path (which does not) alternate.
BurstInArray ==
  /\ rx.used + Len(rx.pkts) <= Burst
  /\ rx.used + Len(wk.kept) <= Burst

\* dpdk_rx and virtio_tx leave their arrays only for a VM that changes its
\* queues while it is connected or does not use its first ones, and with a
\* burst that the worker received before the VM connected.
IndexesInRange == settled = "yes" => wk.pc # "undefined"

\* The packets in hand: while the loop of virtio_tx runs, those put back and
\* those of the rows it has not come to.
InHand ==
  LET all == IF wk.pc = "queue"
               THEN ToSet(wk.kept) \cup {p \in ToSet(rx.pkts) : p.q >= wk.i}
               ELSE {p \in ToSet(rx.pkts) : wk.pc # "undefined"}
  IN  {[flow |-> p.flow, n |-> p.n] : p \in all}

Channel == INSTANCE RxChannel WITH
  Queues <- Pairs, pending <- InHand, queues <- vio.rx_q_bitmap, settled <- settled = "yes",
  vm <- CASE state.vio = "UNINIT" -> "gone" [] state.vio = "READY" -> "up" [] OTHER -> "leaving"

\* The worker's bursts, put back and sent again in parts, keep the promise of
\* RxChannel: no packet of a settled VM is lost, repeated or in a queue that
\* is not its flow's.
KeepsPromise == Channel!Spec

\* "Order within a flow remains." (virtio_tx): when a packet is in the VM's
\* ring, no earlier packet of its flow is still in hand, as long as the VM
\* leaves its queues alone.
FlowOrder ==
  settled = "yes" => \A p \in InHand, s \in sent : p.flow = s.flow => p.n > s.n
=============================================================================
