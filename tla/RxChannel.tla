------------------------------ MODULE RxChannel ------------------------------
(***************************************************************************)
(* What the relay promises a VM about the packets of one burst from its    *)
(* VF.  As long as the VM's queues stay as they were when it connected,    *)
(* and from the first burst received since: every packet is put once into  *)
(* the queue its flow belongs to, or freed because the VM leaves; none is  *)
(* lost, repeated or put elsewhere.  A VM that changes its queues while it *)
(* is connected has no such promise for the packets in hand, but still     *)
(* gets none of them twice.                                                *)
(***************************************************************************)
EXTENDS Integers, FiniteSets

CONSTANTS
  Burst,    \* the longest burst
  Hash,     \* [flow -> hash value]
  Queues    \* the queues a VM may have

VARIABLES
  pending,  \* the packets of the burst in hand
  sent,     \* those the VM has, with the queue they are in
  queues,   \* the queues the VM has enabled
  vm,       \* "gone", "up", "leaving"
  settled   \* the queues are the first ones, as they were at the connection, and
            \* the burst in hand was received since

vars == <<pending, sent, queues, vm, settled>>

\* The flow's queue: the k-th enabled one where k is the hash modulo their number.
QueueFor(flow) ==
  IF Cardinality(queues) <= 1 THEN 0
  ELSE CHOOSE q \in queues :
         Cardinality({p \in queues : p < q}) = Hash[flow] % Cardinality(queues)

Init == pending = {} /\ sent = {} /\ queues = {} /\ vm = "gone" /\ settled = FALSE

Receive ==
  /\ pending = {} /\ sent' = {} /\ settled' \in {settled, TRUE}
  /\ \E len \in 0 .. Burst : \E flows \in [1 .. len -> DOMAIN Hash] :
       pending' = {[flow |-> flows[n], n |-> n] : n \in 1 .. len}
  /\ UNCHANGED <<queues, vm>>

Deliver ==
  /\ vm # "gone"
  /\ \E S \in SUBSET pending : \E to \in [S -> Queues] :
       /\ settled => \A p \in S : to[p] = QueueFor(p.flow)
       /\ sent' = sent \cup {[flow |-> p.flow, n |-> p.n, to |-> to[p]] : p \in S}
       /\ pending' = pending \ S
  /\ UNCHANGED <<queues, vm, settled>>

Free ==
  /\ vm # "up" \/ ~settled
  /\ pending' \in SUBSET pending
  /\ UNCHANGED <<sent, queues, vm, settled>>

Connect ==
  /\ vm = "gone" /\ vm' = "up" /\ settled' = FALSE
  /\ UNCHANGED <<pending, sent, queues>>

Leave ==
  \/ vm = "up" /\ vm' = "leaving" /\ UNCHANGED <<pending, sent, queues, settled>>
  \/ vm = "leaving" /\ vm' = "gone" /\ pending' = {} /\ UNCHANGED <<sent, queues, settled>>

ChangeQueues ==
  /\ queues' \in SUBSET Queues
  /\ settled' = FALSE \/ (vm = "gone" /\ queues' = {} /\ settled' = settled)
  /\ UNCHANGED <<pending, sent, vm>>

Next == Receive \/ Deliver \/ Free \/ Connect \/ Leave \/ ChangeQueues

Spec == Init /\ [][Next]_vars
=============================================================================
