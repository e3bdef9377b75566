--------------------------- MODULE RelayToldProofs ---------------------------
(***************************************************************************)
(* No worker misses a relay, for any number of relays and workers:         *)
(* ForwarderTold is an invariant of module Relay when a port always        *)
(* starts, in every interleaving of the control threads; UpdateNotLost,    *)
(* which also counts the relays being removed, is one when control         *)
(* operations on a relay come one at a time.  One argument proves both: in *)
(* the form Told, which says of each direction that its worker knows or    *)
(* will be flagged, they are inductive; the second rests on ApartInv.      *)
(***************************************************************************)
EXTENDS RelayApartProofs

\* The labels at which a thread promises to flag the worker of a direction.
VmPromise == {"av_ready", "av_flag", "mg_vio_flag"}
VfPromise ==
  {"av_start", "av_vf_ready", "av_vf_flag", "af_cpu", "af_state", "af_flag", "mg_dpdk_flag"}

\* The directions a worker has to know of: those it forwards in, or all those
\* that update_thread counts.
UsesVm(k, v) == v.vio_state = "READY" \/ (k = "all" /\ v.vio_state # "UNINIT")
UsesVf(k, v) ==
  \/ v.dpdk_state = "READY" /\ v.vf_dev = "started"
  \/ k = "all" /\ v.dpdk_state # "UNINIT"

\* It knows of them or will be flagged.  Told("forwarding") is ForwarderTold.
Told(k) ==
  \A c \in Cpus, r \in Relays :
    /\ UsesVm(k, relay[r]) /\ relay[r].vio2vf_cpu = c
         => Knows(c, r) \/ \E t \in Threads : WillFlagVm(t, r, c)
    /\ UsesVf(k, relay[r]) /\ relay[r].vf2vio_cpu = c
         => Knows(c, r) \/ \E t \in Threads : WillFlagVf(t, r, c)

\* A direction of v in use was in use in u, on the same CPU.
UsedBefore(k, u, v) ==
  /\ UsesVm(k, v) => UsesVm(k, u) /\ u.vio2vf_cpu = v.vio2vf_cpu
  /\ UsesVf(k, v) => UsesVf(k, u) /\ u.vf2vio_cpu = v.vf2vio_cpu

\* Told, for one worker and one relay.
LEMMA ToldHere ==
  ASSUME NEW k, Told(k), NEW d \in Cpus, NEW r \in Relays
  PROVE  /\ UsesVm(k, relay[r]) /\ relay[r].vio2vf_cpu = d
              => Knows(d, r) \/ \E t \in Threads : WillFlagVm(t, r, d)
         /\ UsesVf(k, relay[r]) /\ relay[r].vf2vio_cpu = d
              => Knows(d, r) \/ \E t \in Threads : WillFlagVf(t, r, d)
BY ZenonT(30) DEF Told

\* A worker's step inside a pass never makes a relay forward and never moves
\* it to another CPU.
LEMMA WStepTold ==
  ASSUME TypeOK, NEW k, Told(k), NEW c \in Cpus,
         NEW at \in WorkerLabels \ {"scan"}, NEW l \in WorkerLabels \ {"scan"},
         NEW v \in RelayStruct, WStep(c, at, l, v),
         v.vio2vf_cpu = Mine(c).vio2vf_cpu, v.vf2vio_cpu = Mine(c).vf2vio_cpu,
         UsedBefore(k, Mine(c), v)
  PROVE  Told(k)'
<1> SUFFICES ASSUME NEW d \in Cpus, NEW r \in Relays
             PROVE  /\ UsesVm(k, relay'[r]) /\ relay'[r].vio2vf_cpu = d
                         => Knows(d, r)' \/ \E t \in Threads : WillFlagVm(t, r, d)'
                    /\ UsesVf(k, relay'[r]) /\ relay'[r].vf2vio_cpu = d
                         => Knows(d, r)' \/ \E t \in Threads : WillFlagVf(t, r, d)'
  BY ZenonT(30) DEF Told
<1>1. /\ ctl' = ctl /\ need_update' = need_update
      /\ worker[c].pc = at
      /\ worker' = [worker EXCEPT ![c] = [worker[c] EXCEPT !.pc = l]]
      /\ relay' = [relay EXCEPT ![worker[c].r] = v]
  BY Zenon DEF WStep
<1>2. worker \in [Cpus -> WorkerStruct] /\ relay \in [Relays -> RelayStruct]
      /\ worker[c] \in WorkerStruct /\ worker[c].r \in Relays
  BY ZenonT(30) DEF TypeOK, WorkerStruct
<1>3. /\ relay'[r].vio2vf_cpu = relay[r].vio2vf_cpu
      /\ relay'[r].vf2vio_cpu = relay[r].vf2vio_cpu
      /\ UsedBefore(k, relay[r], relay'[r])
  BY ZenonT(30), <1>1, <1>2 DEF Mine, UsedBefore
<1>4. Knows(d, r) => Knows(d, r)'
  <2>1. /\ worker'[d].scan = worker[d].scan /\ worker'[d].new = worker[d].new
        /\ worker'[d].active = worker[d].active
        /\ (worker'[d].pc = "scan") <=> (worker[d].pc = "scan")
    BY ZenonT(30), <1>1, <1>2 DEF WorkerStruct
  <2> QED BY ZenonT(30), <1>1, <2>1 DEF Knows
<1>5. \A t \in Threads : /\ WillFlagVm(t, r, d) => WillFlagVm(t, r, d)'
                         /\ WillFlagVf(t, r, d) => WillFlagVf(t, r, d)'
  BY ZenonT(30), <1>1, <1>3 DEF WillFlagVm, WillFlagVf
<1> QED BY ZenonT(30), <1>3, <1>4, <1>5, ToldHere DEF UsedBefore

\* What a step of control thread t that leaves relay q as v and its locals as
\* w must see to: a direction that forwards afterwards has a worker that is
\* flagged now or later, or it forwarded before and not on t's promise.
VmKept(k, t, q, v, w) ==
  \A d \in Cpus :
    UsesVm(k, v) /\ v.vio2vf_cpu = d =>
      \/ need_update'[d]
      \/ w.pc \in {"av_ready", "av_flag"}
      \/ w.pc = "mg_vio_flag" /\ w.cpu = d
      \/ /\ UsesVm(k, relay[q]) /\ relay[q].vio2vf_cpu = d
         /\ ~WillFlagVm(t, q, d)

VfKept(k, t, q, v, w) ==
  \A d \in Cpus :
    UsesVf(k, v) /\ v.vf2vio_cpu = d =>
      \/ need_update'[d]
      \/ w.pc \in {"av_start", "av_vf_ready", "av_vf_flag", "af_cpu", "af_state", "af_flag"}
      \/ w.pc = "mg_dpdk_flag" /\ w.cpu = d
      \/ /\ UsesVf(k, relay[q])
         /\ relay[q].vf2vio_cpu = d /\ ~WillFlagVf(t, q, d)

\* A step of a control thread that sees to this keeps Told.
LEMMA CtlTold ==
  ASSUME TypeOK, NEW k, Told(k), NEW t \in Threads, NEW q \in Relays,
         NEW v \in RelayStruct, NEW w \in CtlStruct, w.r = q,
         ctl[t].r = q \/ ctl[t].pc = "idle",
         relay' = [relay EXCEPT ![q] = v], ctl' = [ctl EXCEPT ![t] = w], worker' = worker,
         \A d \in Cpus : need_update[d] => need_update'[d],
         VmKept(k, t, q, v, w), VfKept(k, t, q, v, w)
  PROVE  Told(k)'
<1> SUFFICES ASSUME NEW d \in Cpus, NEW r \in Relays
             PROVE  /\ UsesVm(k, relay'[r]) /\ relay'[r].vio2vf_cpu = d
                         => Knows(d, r)' \/ \E u \in Threads : WillFlagVm(u, r, d)'
                    /\ UsesVf(k, relay'[r]) /\ relay'[r].vf2vio_cpu = d
                         => Knows(d, r)' \/ \E u \in Threads : WillFlagVf(u, r, d)'
  BY ZenonT(30) DEF Told
<1>1. relay \in [Relays -> RelayStruct] /\ ctl \in [Threads -> CtlStruct]
  BY Zenon DEF TypeOK
<1>2. /\ \A x \in Relays \ {q} : relay'[x] = relay[x]
      /\ relay'[q] = v
      /\ \A u \in Threads \ {t} : ctl'[u] = ctl[u]
      /\ ctl'[t] = w
  BY ZenonT(30), <1>1
<1>3. need_update'[d] => Knows(d, r)'
  BY Zenon DEF Knows
<1>4. Knows(d, r) => Knows(d, r)'
  BY ZenonT(30) DEF Knows
<1>5. ASSUME r # q, NEW u \in Threads
      PROVE  /\ WillFlagVm(u, r, d) => WillFlagVm(u, r, d)'
             /\ WillFlagVf(u, r, d) => WillFlagVf(u, r, d)'
  BY ZenonT(30), <1>2, <1>5 DEF WillFlagVm, WillFlagVf
<1>6. CASE r # q
  BY <1>2, <1>4, <1>5, <1>6, ToldHere
<1>7. CASE r = q
  <2>1. ASSUME UsesVm(k, v), v.vio2vf_cpu = d
        PROVE  Knows(d, r)' \/ \E u \in Threads : WillFlagVm(u, r, d)'
    <3>1. CASE w.pc \in {"av_ready", "av_flag"} \/ (w.pc = "mg_vio_flag" /\ w.cpu = d)
      BY ZenonT(30), <1>2, <1>7, <2>1, <3>1 DEF WillFlagVm
    <3>2. CASE /\ UsesVm(k, relay[q]) /\ relay[q].vio2vf_cpu = d
               /\ ~WillFlagVm(t, q, d)
      <4>1. \A u \in Threads \ {t} : WillFlagVm(u, r, d) => WillFlagVm(u, r, d)'
        BY ZenonT(30), <1>2, <1>7, <2>1 DEF WillFlagVm
      <4> QED BY SMTT(30), <1>4, <1>7, <3>2, <4>1, ToldHere
    <3> QED BY <1>3, <2>1, <3>1, <3>2 DEF VmKept
  <2>2. ASSUME UsesVf(k, v), v.vf2vio_cpu = d
        PROVE  Knows(d, r)' \/ \E u \in Threads : WillFlagVf(u, r, d)'
    <3>1. CASE \/ w.pc \in {"av_start", "av_vf_ready", "av_vf_flag", "af_cpu", "af_state", "af_flag"}
               \/ w.pc = "mg_dpdk_flag" /\ w.cpu = d
      BY ZenonT(30), <1>2, <1>7, <2>2, <3>1 DEF WillFlagVf
    <3>2. CASE /\ UsesVf(k, relay[q])
               /\ relay[q].vf2vio_cpu = d /\ ~WillFlagVf(t, q, d)
      <4>1. \A u \in Threads \ {t} : WillFlagVf(u, r, d) => WillFlagVf(u, r, d)'
        BY ZenonT(30), <1>2, <1>7, <2>2 DEF WillFlagVf
      <4> QED BY SMTT(30), <1>4, <1>7, <3>2, <4>1, ToldHere
    <3> QED BY SMTT(30), <1>3, <2>2, <3>1, <3>2 DEF VfKept
  <2> QED BY ZenonT(30), <1>2, <1>7, <2>1, <2>2
<1> QED BY ZenonT(30), <1>6, <1>7

\* The same for CStep: what forwards afterwards does so on a promise, or did so
\* before on that of another thread or a worker that knows.
LEMMA CStepTold ==
  ASSUME TypeOK, NEW k, Told(k), NEW t \in Threads, NEW at \in CtlLabels,
         NEW l \in CtlLabels, NEW v \in RelayStruct, CStep(t, at, l, v),
         UsesVm(k, v) /\ v.vio2vf_cpu # NoCpu =>
           \/ l \in {"av_ready", "av_flag"}
           \/ /\ UsesVm(k, Held(t)) /\ Held(t).vio2vf_cpu = v.vio2vf_cpu
              /\ at \notin VmPromise,
         UsesVf(k, v) /\ v.vf2vio_cpu # NoCpu =>
           \/ l \in VfPromise \ {"mg_dpdk_flag"}
           \/ /\ UsesVf(k, Held(t))
              /\ Held(t).vf2vio_cpu = v.vf2vio_cpu /\ at \notin VfPromise
  PROVE  Told(k)'
<1> DEFINE q == ctl[t].r
           w == Locals(t, l)
<1>1. w \in CtlStruct /\ q \in Relays
  BY Zenon, LocalsType DEF TypeOK, CtlStruct
<1>2. w.r = q /\ w.pc = l
  BY Zenon DEF Locals, TypeOK, CtlStruct
<1>3. /\ ctl[t].pc = at /\ ctl' = [ctl EXCEPT ![t] = w]
      /\ relay' = [relay EXCEPT ![q] = v] /\ need_update' = need_update /\ worker' = worker
  BY Zenon DEF CStep
<1>4. VmKept(k, t, q, v, w)
  BY ZenonT(30), <1>2, <1>3, CpuAssumption DEF VmKept, WillFlagVm, VmPromise, Held
<1>5. VfKept(k, t, q, v, w)
  BY ZenonT(30), <1>2, <1>3, CpuAssumption DEF VfKept, WillFlagVf, VfPromise, Held
<1> QED BY ZenonT(30), <1>1, <1>2, <1>3, <1>4, <1>5, CtlTold

\* The common case: the step neither starts nor moves a direction.
LEMMA CStepSame ==
  ASSUME TypeOK, NEW k, Told(k), NEW t \in Threads,
         NEW at \in CtlLabels \ (VmPromise \cup VfPromise), NEW l \in CtlLabels,
         NEW v \in RelayStruct, CStep(t, at, l, v), UsedBefore(k, Held(t), v)
  PROVE  Told(k)'
BY CStepTold DEF UsedBefore

\* A thread that raises a flag keeps its promise.
LEMMA CFlagTold ==
  ASSUME TypeOK, NEW k, Told(k), NEW t \in Threads, NEW at \in CtlLabels,
         NEW l \in CtlLabels, NEW c \in CpuOrNone, CFlag(t, at, l, c),
         at \in VmPromise => at \in {"av_flag", "mg_vio_flag"},
         at = "av_flag" => c = Held(t).vio2vf_cpu,
         at \in VfPromise => at \in {"av_vf_flag", "af_flag", "mg_dpdk_flag"},
         at \in {"av_vf_flag", "af_flag"} => c = Held(t).vf2vio_cpu,
         at \in {"mg_vio_flag", "mg_dpdk_flag"} => c = ctl[t].cpu
  PROVE  Told(k)'
<1> DEFINE q == ctl[t].r
           w == Locals(t, l)
<1>1. w \in CtlStruct /\ q \in Relays /\ Held(t) \in RelayStruct
  BY ZenonT(30), LocalsType, HeldType DEF TypeOK, CtlStruct
<1>2. w.r = q /\ w.pc = l
  BY Zenon DEF Locals, TypeOK, CtlStruct
<1>3. /\ ctl[t].pc = at /\ ctl' = [ctl EXCEPT ![t] = w]
      /\ relay' = relay /\ Flag(c) /\ worker' = worker
  BY ZenonT(30) DEF CFlag
<1>4. relay' = [relay EXCEPT ![q] = Held(t)]
  BY ZenonT(30), <1>1, <1>3 DEF TypeOK, Held
<1>5. \A d \in Cpus : (need_update[d] \/ d = c) => need_update'[d]
  BY ZenonT(30), <1>3, CpuAssumption DEF Flag, TypeOK
<1>6. VmKept(k, t, q, Held(t), w)
  BY ZenonT(30), <1>3, <1>5 DEF VmKept, WillFlagVm, VmPromise, Held
<1>7. VfKept(k, t, q, Held(t), w)
  BY ZenonT(30), <1>3, <1>5 DEF VfKept, WillFlagVf, VfPromise, Held
<1> QED BY ZenonT(30), <1>1, <1>2, <1>3, <1>4, <1>5, <1>6, <1>7, CtlTold

\* An operation that begins.
LEMMA CallTold ==
  ASSUME TypeOK, NEW k, Told(k), NEW t \in Threads, NEW op, NEW r \in Relays,
         NEW l \in CtlLabels, NEW v \in RelayStruct, Call(t, op, r, l, v),
         UsedBefore(k, relay[r], v)
  PROVE  Told(k)'
<1> DEFINE w == [ctl[t] EXCEPT !.pc = l, !.r = r]
<1>1. w \in CtlStruct /\ w.r = r /\ w.pc = l
  BY ZenonT(30) DEF TypeOK, CtlStruct
<1>2. /\ ctl[t].pc = "idle" /\ ctl' = [ctl EXCEPT ![t] = w]
      /\ relay' = [relay EXCEPT ![r] = v] /\ need_update' = need_update /\ worker' = worker
  BY Zenon DEF Call
<1>3. VmKept(k, t, r, v, w) /\ VfKept(k, t, r, v, w)
  BY ZenonT(30), <1>2 DEF VmKept, VfKept, WillFlagVm, WillFlagVf, UsedBefore
<1> QED BY ZenonT(30), <1>1, <1>2, <1>3, CtlTold

-----------------------------------------------------------------------------
(* Workers *)

\* update_thread loses no relay: the flag is cleared before the scan starts,
\* and a relay that is the worker's is put into the set when the scan passes it.
LEMMA WorkerLoopKnows ==
  ASSUME TypeOK, NEW c \in Cpus,
         worker_func_head(c) \/ update_thread(c) \/ worker_func_next(c)
  PROVE  /\ ctl' = ctl /\ relay' = relay
         /\ \A d \in Cpus, r \in Relays : Knows(d, r) /\ Serves(d, r) => Knows(d, r)'
<1> DEFINE w == worker[c]
<1>1. /\ worker \in [Cpus -> WorkerStruct] /\ w \in WorkerStruct
      /\ need_update \in [Cpus -> BOOLEAN]
  BY ZenonT(30) DEF TypeOK
<1>2. ctl' = ctl /\ relay' = relay
  BY ZenonT(60) DEF worker_func_head, update_thread, worker_func_next, WLocal
<1> SUFFICES ASSUME NEW d \in Cpus, NEW r \in Relays, Knows(d, r), Serves(d, r)
             PROVE  Knows(d, r)'
  BY ZenonT(30), <1>2
<1>3. d # c => worker'[d] = worker[d] /\ need_update'[d] = need_update[d]
  BY ZenonT(30), <1>1 DEF worker_func_head, update_thread, worker_func_next, WLocal
<1>4. CASE d # c
  BY ZenonT(30), <1>3, <1>4 DEF Knows
<1>5. CASE d = c /\ worker_func_head(c)
  <2>1. CASE need_update[c]
    <3>1. worker'[c].pc = "scan" /\ worker'[c].scan = Relays
      BY ZenonT(30), <1>1, <1>5, <2>1 DEF worker_func_head, WorkerStruct
    <3> QED BY ZenonT(30), <1>5, <3>1 DEF Knows
  <2>2. CASE ~need_update[c]
    <3>1. worker'[c].pc = "next" /\ worker'[c].active = w.active /\ w.pc = "head"
      BY ZenonT(30), <1>1, <1>5, <2>2 DEF worker_func_head, WorkerStruct
    <3> QED BY ZenonT(30), <1>5, <2>2, <3>1 DEF Knows
  <2> QED BY Zenon, <2>1, <2>2
<1>6. CASE d = c /\ update_thread(c)
  <2>1. need_update' = need_update /\ w.pc = "scan"
    BY ZenonT(30), <1>6 DEF update_thread, WLocal
  <2>2. ASSUME NEW x \in w.scan,
               worker' = [worker EXCEPT ![c] = [w EXCEPT
                 !.scan = w.scan \ {x}, !.new = w.new \cup {y \in {x} : Serves(c, y)}]]
        PROVE  Knows(c, r)'
    <3>1. /\ worker'[c].pc = "scan" /\ worker'[c].scan = w.scan \ {x}
          /\ worker'[c].new = w.new \cup {y \in {x} : Serves(c, y)}
      BY ZenonT(30), <1>1, <2>1, <2>2 DEF WorkerStruct
    <3> QED BY <1>6, <2>1, <3>1 DEF Knows
  <2>3. ASSUME w.scan = {},
               worker' = [worker EXCEPT
                 ![c] = [w EXCEPT !.active = w.new, !.new = {}, !.pc = "next"]]
        PROVE  Knows(c, r)'
    <3>1. worker'[c].pc = "next" /\ worker'[c].active = w.new
      BY ZenonT(30), <1>1, <2>3 DEF WorkerStruct
    <3> QED BY <1>6, <2>1, <2>3, <3>1 DEF Knows
  <2> QED BY ZenonT(60), <1>6, <2>2, <2>3 DEF update_thread, WLocal
<1>7. CASE d = c /\ worker_func_next(c)
  <2> DEFINE Goal == /\ need_update' = need_update /\ w.pc # "scan"
                     /\ worker'[c].pc # "scan" /\ worker'[c].active = w.active
  <2>1. Goal
    <3>1. w.pc = "next"
      BY ZenonT(30), <1>7 DEF worker_func_next
    <3>2. CASE WLocal(c, [w EXCEPT !.pc = "head"])
      BY ZenonT(30), <1>1, <3>1, <3>2 DEF WLocal, WorkerStruct
    <3>3. ASSUME NEW x \in w.todo, NEW l \in {"lock_vio", "vf2vm"},
                 WLocal(c, [w EXCEPT !.r = x, !.todo = w.todo \ {x}, !.pc = l])
          PROVE  Goal
      BY SMTT(30), <1>1, <3>1, <3>3 DEF WLocal, WorkerStruct
    <3> QED BY ZenonT(60), <1>7, <3>2, <3>3 DEF worker_func_next
  <2> QED BY <1>7, <2>1 DEF Knows
<1> QED BY ZenonT(30), <1>4, <1>5, <1>6, <1>7

\* So the loop of worker_func keeps Told.
LEMMA WorkerLoopTold ==
  ASSUME TypeOK, NEW k, Told(k), NEW c \in Cpus,
         worker_func_head(c) \/ update_thread(c) \/ worker_func_next(c)
  PROVE  Told(k)'
<1> SUFFICES ASSUME NEW d \in Cpus, NEW r \in Relays
             PROVE  /\ UsesVm(k, relay'[r]) /\ relay'[r].vio2vf_cpu = d
                         => Knows(d, r)' \/ \E t \in Threads : WillFlagVm(t, r, d)'
                    /\ UsesVf(k, relay'[r]) /\ relay'[r].vf2vio_cpu = d
                         => Knows(d, r)' \/ \E t \in Threads : WillFlagVf(t, r, d)'
  BY ZenonT(30) DEF Told
<1>1. ctl' = ctl /\ relay' = relay /\ (Knows(d, r) /\ Serves(d, r) => Knows(d, r)')
  BY ZenonT(30), WorkerLoopKnows
<1>2. \A t \in Threads : /\ WillFlagVm(t, r, d) => WillFlagVm(t, r, d)'
                         /\ WillFlagVf(t, r, d) => WillFlagVf(t, r, d)'
  BY ZenonT(30), <1>1 DEF WillFlagVm, WillFlagVf
<1>3. \/ UsesVm(k, relay[r]) /\ relay[r].vio2vf_cpu = d
      \/ UsesVf(k, relay[r]) /\ relay[r].vf2vio_cpu = d
      => Serves(d, r)
  BY Zenon DEF Serves, UsesVm, UsesVf
<1> QED BY ZenonT(30), <1>1, <1>2, <1>3, ToldHere

\* A relay that becomes v uses no direction anew, on the same CPUs.
Keeps(k, u, v) ==
  /\ v \in RelayStruct
  /\ v.vio2vf_cpu = u.vio2vf_cpu /\ v.vf2vio_cpu = u.vf2vio_cpu
  /\ UsedBefore(k, u, v)

\* The updates of a relay that keep the directions in use, or end one.
LEMMA KeepsSelf ==
  ASSUME NEW k, NEW u \in RelayStruct PROVE Keeps(k, u, u)
BY ZenonT(30) DEF Keeps, UsedBefore

\* Locks, packet caches, lm_pending and the vhost device,
LEMMA KeepsFlags ==
  ASSUME NEW k, NEW u, NEW v, Keeps(k, u, v), NEW b \in BOOLEAN
  PROVE  /\ Keeps(k, u, [v EXCEPT !.vio_sl = b]) /\ Keeps(k, u, [v EXCEPT !.dpdk_sl = b])
         /\ Keeps(k, u, [v EXCEPT !.tx_pkts = b]) /\ Keeps(k, u, [v EXCEPT !.rx_pkts = b])
         /\ Keeps(k, u, [v EXCEPT !.lm_pending = b]) /\ Keeps(k, u, [v EXCEPT !.vio_dev = b])
BY DEF Keeps, UsedBefore, UsesVm, UsesVf, RelayStruct

\* the end of a removal, and its beginning if there is something to remove,
LEMMA KeepsState ==
  ASSUME NEW k, NEW u, NEW v, Keeps(k, u, v)
  PROVE  /\ Keeps(k, u, [v EXCEPT !.vio_state = "UNINIT"])
         /\ Keeps(k, u, [v EXCEPT !.dpdk_state = "UNINIT"])
         /\ k # "all" \/ v.vio_state # "UNINIT" =>
              \A s \in {"REMOVING1", "REMOVING2"} : Keeps(k, u, [v EXCEPT !.vio_state = s])
         /\ k # "all" \/ v.dpdk_state # "UNINIT" =>
              \A s \in {"ADDED", "REMOVING1", "REMOVING2"} : Keeps(k, u, [v EXCEPT !.dpdk_state = s])
BY DEF Keeps, UsedBefore, UsesVm, UsesVf, RelayStruct

\* a port that is not started, the pool, and the pool of the port's queues,
LEMMA KeepsPort ==
  ASSUME NEW k, NEW u, NEW v, Keeps(k, u, v)
  PROVE  /\ \A p \in Pools : Keeps(k, u, [v EXCEPT !.mempool = p])
         /\ \A d \in {"detached", "stopped", "closed"} : Keeps(k, u, [v EXCEPT !.vf_dev = d])
         /\ \A p \in {"none", "current", "freed"} : Keeps(k, u, [v EXCEPT !.vf_pool = p])
BY DEF Keeps, UsedBefore, UsesVm, UsesVf, RelayStruct

\* and what the operations do to the devices.
LEMMA KeepsDevice ==
  ASSUME NEW k, NEW u, NEW v, Keeps(k, u, v)
  PROVE  /\ \A p \in Pools : Keeps(k, u, PoolFreed(v, p))
         /\ Keeps(k, u, PoolThere(v)) /\ Keeps(k, u, Attached(v))
         /\ Keeps(k, u, Stopped(v)) /\ Keeps(k, u, DeviceGone(v))
         /\ Keeps(k, u, Detached(v)) /\ \A x \in DetachFailed(v) : Keeps(k, u, x)
<1>1. v \in RelayStruct
  BY ZenonT(30) DEF Keeps
<1>p. \A p \in Pools : Keeps(k, u, [v EXCEPT !.mempool = p])
  BY ZenonT(30), KeepsPort
<1>2. \A p \in Pools : Keeps(k, u, PoolFreed(v, p))
  <2> SUFFICES ASSUME NEW p \in Pools PROVE Keeps(k, u, PoolFreed(v, p))
    OBVIOUS
  <2>1. PICK m : m = [v EXCEPT !.mempool = p]
    BY Zenon
  <2>2. Keeps(k, u, m) /\ m \in RelayStruct
    BY ZenonT(30), <1>p, <2>1 DEF Keeps
  <2>3. PoolFreed(v, p) = [m EXCEPT !.vf_pool = IF m.vf_pool = "current" THEN "freed" ELSE m.vf_pool]
    BY <1>1, <2>1 DEF PoolFreed, RelayStruct
  <2>4. (IF m.vf_pool = "current" THEN "freed" ELSE m.vf_pool) \in {"none", "current", "freed"}
    BY ZenonT(30), <2>2, RelayFields
  <2>5. \A x \in {"none", "current", "freed"} : Keeps(k, u, [m EXCEPT !.vf_pool = x])
    BY ZenonT(30), <2>2, KeepsPort
  <2> QED BY Zenon, <2>3, <2>4, <2>5
<1>7. Keeps(k, u, PoolThere(v))
  <2>1. PICK p \in Pools : PoolThere(v) = [v EXCEPT !.mempool = p]
    BY ZenonT(30), <1>1, RelayFields DEF PoolThere, Pools
  <2> QED BY ZenonT(30), <1>p, <2>1
<1>8. Keeps(k, u, Attached(v))
  <2>1. PICK p \in {"none", "current", "freed"} :
          Attached(v) = [PoolThere(v) EXCEPT !.vf_dev = "stopped", !.vf_pool = p]
    BY ZenonT(30) DEF Attached
  <2>2. PICK m : m = [PoolThere(v) EXCEPT !.vf_dev = "stopped"]
    BY Zenon
  <2>3. Keeps(k, u, m)
    BY ZenonT(30), <1>7, <2>2, KeepsPort
  <2>4. Attached(v) = [m EXCEPT !.vf_pool = p]
    BY ZenonT(30), <2>1, <2>2
  <2>5. \A x \in {"none", "current", "freed"} : Keeps(k, u, [m EXCEPT !.vf_pool = x])
    BY ZenonT(30), <2>3, KeepsPort
  <2> QED BY Zenon, <2>4, <2>5
<1>3. Keeps(k, u, Stopped(v))
  <2>1. CASE v.vf_dev = "started"
    BY ZenonT(30), <2>1, KeepsPort DEF Stopped
  <2>2. CASE v.vf_dev # "started"
    BY ZenonT(30), <1>1, <2>2 DEF Stopped, RelayStruct
  <2> QED BY <2>1, <2>2
<1>4. Keeps(k, u, DeviceGone(v))
  BY ZenonT(30), KeepsFlags DEF DeviceGone
<1>5. Keeps(k, u, Detached(v))
  BY ZenonT(30), KeepsPort DEF Detached
<1>6. \A x \in DetachFailed(v) : Keeps(k, u, x)
  <2>1. Keeps(k, u, [v EXCEPT !.vf_dev = "stopped"]) /\ Keeps(k, u, [v EXCEPT !.vf_dev = "closed"])
    BY ZenonT(30), KeepsPort
  <2>2. DetachFailed(v) \subseteq {v, [v EXCEPT !.vf_dev = "stopped"], [v EXCEPT !.vf_dev = "closed"]}
    BY Zenon DEF DetachFailed
  <2> QED BY ZenonT(30), <2>1, <2>2
<1> QED BY ZenonT(30), <1>2, <1>3, <1>4, <1>5, <1>6, <1>7, <1>8

\* Every step of a pass over a relay.
LEMMA WorkerPassTold ==
  ASSUME TypeOK, NEW k, Told(k), NEW c \in Cpus,
         \/ worker_trylock_vio(c) \/ relay_vm2vf_traffic(c) \/ worker_unlock_vio(c)
         \/ worker_func_vf2vm(c) \/ worker_trylock_dpdk(c) \/ relay_vf2vm_traffic(c)
         \/ worker_unlock_dpdk(c)
  PROVE  Told(k)'
<1> DEFINE m == Mine(c)
<1>1. ASSUME NEW at \in WorkerLabels \ {"scan"}, NEW l \in WorkerLabels \ {"scan"},
             NEW v, WStep(c, at, l, v), Keeps(k, m, v)
      PROVE  Told(k)'
  BY ZenonT(30), <1>1, WStepTold DEF Keeps
<1>m. m \in RelayStruct
  BY ZenonT(30), MineType
<1>k. Keeps(k, m, m)
  BY SMTT(30), <1>m, KeepsSelf
<1> HIDE DEF m
<1> USE <1>1, <1>k DEF WorkerLabels
<1>2. CASE worker_trylock_vio(c)
  BY ZenonT(30), <1>2, KeepsFlags DEF worker_trylock_vio, m
<1>3. CASE virtio_rx(c)
  BY ZenonT(30), <1>3 DEF virtio_rx, m
<1>4. CASE virtio_rx_dequeue(c)
  BY ZenonT(30), <1>4, KeepsFlags DEF virtio_rx_dequeue, m
<1>5. CASE dpdk_tx(c)
  BY ZenonT(30), <1>5, KeepsFlags DEF dpdk_tx, m
<1>6. CASE dpdk_tx_burst(c)
  BY ZenonT(30), <1>6, KeepsFlags DEF dpdk_tx_burst, m
<1>7. CASE vm2vf_signal(c)
  BY ZenonT(30), <1>7, KeepsState DEF vm2vf_signal, m
<1>8. CASE vm2vf_alone(c)
  <2>1. Keeps(k, m, [m EXCEPT !.vio_state = IF m.vf2vio_cpu = NoCpu THEN "UNINIT" ELSE m.vio_state])
    BY ZenonT(30), <1>m, KeepsState DEF RelayStruct
  <2> QED BY ZenonT(30), <1>8, <2>1 DEF vm2vf_alone, m
<1>9. CASE worker_remove_vf_lock(c)
  BY ZenonT(30), <1>9, KeepsFlags DEF worker_remove_vf_lock, m
<1>10. CASE worker_remove_vf_free(c)
  BY ZenonT(30), <1>10, KeepsFlags, KeepsState DEF worker_remove_vf_free, m
<1>11. CASE worker_unlock_vio(c)
  BY ZenonT(30), <1>11, KeepsFlags DEF worker_unlock_vio, m
<1>12. CASE worker_func_vf2vm(c)
  BY ZenonT(30), <1>12 DEF worker_func_vf2vm, m
<1>13. CASE worker_trylock_dpdk(c)
  BY ZenonT(30), <1>13, KeepsFlags DEF worker_trylock_dpdk, m
<1>14. CASE dpdk_rx(c)
  BY ZenonT(30), <1>14 DEF dpdk_rx, m
<1>15. CASE dpdk_rx_burst(c)
  BY ZenonT(30), <1>15, KeepsFlags DEF dpdk_rx_burst, m
<1>16. CASE virtio_tx(c)
  BY ZenonT(30), <1>16, KeepsFlags DEF virtio_tx, m
<1>17. CASE virtio_tx_enqueue(c)
  BY ZenonT(30), <1>17, KeepsFlags DEF virtio_tx_enqueue, m
<1>18. CASE worker_remove_virtio_lock(c)
  BY ZenonT(30), <1>18, KeepsFlags DEF worker_remove_virtio_lock, m
<1>19. CASE worker_remove_virtio_free(c)
  BY ZenonT(30), <1>19, KeepsFlags, KeepsState DEF worker_remove_virtio_free, m
<1>20. CASE vf2vm_signal(c)
  BY ZenonT(30), <1>20, KeepsState DEF vf2vm_signal, m
<1>21. CASE vf2vm_alone(c)
  <2>1. Keeps(k, m, [m EXCEPT !.dpdk_state = IF m.vio2vf_cpu = NoCpu THEN "UNINIT" ELSE m.dpdk_state])
    BY ZenonT(30), <1>m, KeepsState DEF RelayStruct
  <2> QED BY <1>21, <2>1 DEF vf2vm_alone, m
<1>22. CASE worker_unlock_dpdk(c)
  BY ZenonT(30), <1>22, KeepsFlags DEF worker_unlock_dpdk, m
<1> QED
  BY <1>2, <1>3, <1>4, <1>5, <1>6, <1>7, <1>8, <1>9, <1>10, <1>11, <1>12, <1>13, <1>14, <1>15, <1>16, <1>17, <1>18, <1>19, <1>20, <1>21, <1>22
     DEF relay_vm2vf_traffic, relay_vf2vm_traffic

-----------------------------------------------------------------------------
(* Control threads *)

\* The relay of thread t has what the next step starts or removes.
Meant(t) ==
  /\ ctl[t].pc = "av_start" => Held(t).vf_dev \in {"stopped", "started"}
  /\ ctl[t].pc = "rv_mark" => Held(t).vio_state # "UNINIT"
  /\ ctl[t].pc \in {"rv_vf_added", "rf_mark"} => Held(t).dpdk_state # "UNINIT"

\* CStepSame, in terms of Keeps.
LEMMA CStepKeeps ==
  ASSUME TypeOK, NEW k, Told(k), NEW t \in Threads,
         NEW at \in CtlLabels \ (VmPromise \cup VfPromise), NEW l \in CtlLabels,
         NEW v, CStep(t, at, l, v), Keeps(k, Held(t), v)
  PROVE  Told(k)'
BY ZenonT(30), CStepSame DEF Keeps

\* The search for a CPU ends at a label that promises a flag, whatever CPU it
\* ends with; the CPU given up is flagged.
LEMMA FindVioCpuTold ==
  ASSUME TypeOK, NEW k, Told(k), NEW t \in Threads,
         find_virtio2vf_cpu(t, "av_cpu", "av_cpu_pick", "av_ready")
  PROVE  Told(k)'
<1> DEFINE v == Held(t)
           conf == ConfCpu[ctl[t].r].vio2vf
<1>1. v \in RelayStruct /\ ctl[t].r \in Relays /\ conf \in CpuOrNone
  BY Zenon, HeldType, ConfAssumption DEF TypeOK, CtlStruct
<1>2. /\ {"av_cpu", "av_cpu_pick", "av_ready"} \subseteq CtlLabels
      /\ "av_cpu" \notin VfPromise /\ "av_cpu_pick" \notin VfPromise
  BY ZenonT(30) DEF CtlLabels, VfPromise
<1>3. \A c \in CpuOrNone :
        /\ ToVioCpu(v, c) \in RelayStruct
        /\ ToVioCpu(v, c).dpdk_state = v.dpdk_state /\ ToVioCpu(v, c).vf_dev = v.vf_dev
        /\ ToVioCpu(v, c).vf2vio_cpu = v.vf2vio_cpu /\ ToVioCpu(v, c).vio2vf_cpu = c
        /\ UsesVf(k, ToVioCpu(v, c)) <=> UsesVf(k, v)
  BY ZenonT(30), <1>1 DEF RelayStruct, ToVioCpu, UsesVf
<1>4. \A c \in Cpus : c \in CpuOrNone /\ NoCpu \in CpuOrNone
  BY DEF CpuOrNone
<1>5. ASSUME NEW at \in {"av_cpu", "av_cpu_pick"}, NEW c \in CpuOrNone,
             CStep(t, at, "av_ready", ToVioCpu(v, c))
      PROVE  Told(k)'
  BY ZenonT(30), <1>2, <1>3, <1>5, CStepTold
<1>6. CASE /\ ctl[t].pc = "av_cpu"
           /\ Flag(v.vio2vf_cpu)
           /\ relay' = [relay EXCEPT ![ctl[t].r] = ToVioCpu(v, NoCpu)]
           /\ ctl' = [ctl EXCEPT ![t] = Locals(t, "av_cpu_pick")]
           /\ UNCHANGED worker
  <2> DEFINE q == ctl[t].r
             u == ToVioCpu(v, NoCpu)
             w == Locals(t, "av_cpu_pick")
  <2>1. w \in CtlStruct /\ w.r = q /\ u \in RelayStruct
    BY <1>2, <1>3, <1>4, LocalsType DEF Locals, TypeOK, CtlStruct, CpuOrNone
  <2>2. \A d \in Cpus : need_update[d] => need_update'[d]
    BY Zenon, <1>6 DEF Flag, TypeOK
  <2>3. u.vio2vf_cpu = NoCpu /\ u.dpdk_state = v.dpdk_state /\ u.vf_dev = v.vf_dev /\ u.vf2vio_cpu = v.vf2vio_cpu
    BY Zenon, <1>3 DEF CpuOrNone
  <2>4. VmKept(k, t, q, u, w)
    BY Zenon, <2>3, CpuAssumption DEF VmKept
  <2>5. \A d \in Cpus : ~WillFlagVf(t, q, d)
    BY ZenonT(30), <1>6 DEF WillFlagVf
  <2> HIDE DEF u
  <2>6. VfKept(k, t, q, u, w)
    BY ZenonT(30), <2>3, <2>5 DEF VfKept, UsesVf, Held
  <2> QED BY ZenonT(30), <1>1, <1>6, <2>1, <2>2, <2>4, <2>6, CtlTold DEF u
<1> QED BY SMTT(30), <1>1, <1>4, <1>5, <1>6 DEF find_virtio2vf_cpu, FindCpu

\* The same for the direction VF to VM, from add_virtio and configure_dev.
LEMMA FindVfCpuTold ==
  ASSUME TypeOK, NEW k, Told(k), NEW t \in Threads,
         \/ find_vf2virtio_cpu(t, "av_vf_cpu", "av_vf_cpu_pick", "av_start")
         \/ find_vf2virtio_cpu(t, "af_cpu", "af_cpu_pick", "af_state")
  PROVE  Told(k)'
<1> DEFINE v == Held(t)
           conf == ConfCpu[ctl[t].r].vf2vio
           Find == {"av_vf_cpu", "av_vf_cpu_pick", "af_cpu", "af_cpu_pick"}
           Pick == {"av_vf_cpu_pick", "af_cpu_pick"}
           Done == {"av_start", "af_state"}
<1>1. v \in RelayStruct /\ ctl[t].r \in Relays /\ conf \in CpuOrNone
  BY ZenonT(30), HeldType, ConfAssumption DEF TypeOK, CtlStruct
<1>2. /\ Find \cup Pick \cup Done \subseteq CtlLabels
      /\ Find \cap VmPromise = {}
      /\ Done \subseteq VfPromise \ {"mg_dpdk_flag"}
  BY ZenonT(30) DEF CtlLabels, VmPromise, VfPromise
<1>3. \A c \in CpuOrNone :
        /\ ToVfCpu(v, c) \in RelayStruct
        /\ ToVfCpu(v, c).vio_state = v.vio_state
        /\ ToVfCpu(v, c).vio2vf_cpu = v.vio2vf_cpu /\ ToVfCpu(v, c).vf2vio_cpu = c
        /\ UsesVm(k, ToVfCpu(v, c)) <=> UsesVm(k, v)
  BY Zenon, <1>1 DEF RelayStruct, ToVfCpu, UsesVm
<1>4. \A c \in Cpus : c \in CpuOrNone /\ NoCpu \in CpuOrNone
  BY ZenonT(30) DEF CpuOrNone
<1>5. ASSUME NEW at \in Find, NEW l \in Done, NEW c \in CpuOrNone,
             CStep(t, at, l, ToVfCpu(v, c))
      PROVE  Told(k)'
  BY ZenonT(30), <1>2, <1>3, <1>5, CStepTold
<1>6. ASSUME NEW at \in Find, NEW l \in Pick, ctl[t].pc = at,
             Flag(v.vf2vio_cpu), relay' = [relay EXCEPT ![ctl[t].r] = ToVfCpu(v, NoCpu)],
             ctl' = [ctl EXCEPT ![t] = Locals(t, l)], UNCHANGED worker
      PROVE  Told(k)'
  <2> DEFINE q == ctl[t].r
             u == ToVfCpu(v, NoCpu)
             w == Locals(t, l)
  <2>1. w \in CtlStruct /\ w.r = q /\ u \in RelayStruct
    BY SMTT(30), <1>2, <1>3, <1>4, LocalsType DEF Locals, TypeOK, CtlStruct, CpuOrNone
  <2>2. \A d \in Cpus : need_update[d] => need_update'[d]
    BY Zenon, <1>6 DEF Flag, TypeOK
  <2>3. u.vf2vio_cpu = NoCpu /\ u.vio_state = v.vio_state /\ u.vio2vf_cpu = v.vio2vf_cpu
    BY ZenonT(30), <1>3 DEF CpuOrNone
  <2>4. VfKept(k, t, q, u, w)
    BY Zenon, <2>3, CpuAssumption DEF VfKept
  <2>5. \A d \in Cpus : ~WillFlagVm(t, q, d)
    BY ZenonT(30), <1>6 DEF WillFlagVm
  <2> HIDE DEF u
  <2>6. VmKept(k, t, q, u, w)
    BY ZenonT(30), <2>3, <2>5 DEF VmKept, UsesVm, Held
  <2> QED BY ZenonT(60), <1>1, <1>6, <2>1, <2>2, <2>4, <2>6, CtlTold DEF u
<1>7. ASSUME NEW find \in Find, NEW pick \in Pick, NEW done \in Done,
             find_vf2virtio_cpu(t, find, pick, done)
      PROVE  Told(k)'
  BY SMTT(30), <1>1, <1>4, <1>5, <1>6, <1>7 DEF find_vf2virtio_cpu, FindCpu
<1> QED BY ZenonT(30), <1>7

\* migrate_mempool and the connection of a VM: the VM is published at a label
\* that promises the flag, the VF too; only a port that fails to start while
\* it runs would break the promise made at "av_start".
LEMMA AddVirtioTold ==
  ASSUME TypeOK, NEW k, Told(k), "start" \notin Faults, NEW t \in Threads, k = "all" => Meant(t),
         add_virtio_body(t)
  PROVE  Told(k)'
<1> DEFINE v == Held(t)
<1>1. v \in RelayStruct /\ v.vio2vf_cpu \in CpuOrNone /\ v.vf2vio_cpu \in CpuOrNone
  BY ZenonT(30), HeldType, RelayFields
<1>k. Keeps(k, v, v)
  BY ZenonT(30), <1>1, KeepsSelf
<1> HIDE DEF v
<1>2. ASSUME NEW at \in {"mig_alloc", "mig_lock_vio", "mig_lock_dpdk", "mig_free", "mig_swap", "mig_unlock",
                         "mig_queues", "av_pool", "av_vf"},
             NEW l \in CtlLabels, NEW u, CStep(t, at, l, u), Keeps(k, v, u)
      PROVE  Told(k)'
  <2>1. at \in CtlLabels \ (VmPromise \cup VfPromise)
    BY DEF CtlLabels, VmPromise, VfPromise
  <2> QED BY ZenonT(30), <1>2, <2>1, CStepKeeps DEF v
<1>3. AfterMigration(t) \in CtlLabels
  BY Zenon DEF AfterMigration, CtlLabels
<1>l. {"idle", "av_cpu", "mig_alloc", "mig_lock_vio", "mig_lock_dpdk", "mig_free", "mig_swap", "mig_unlock",
       "mig_queues", "av_ready", "av_flag", "av_vf", "av_vf_cpu", "av_start", "av_vf_ready",
       "av_vf_flag"} \subseteq CtlLabels
  BY DEF CtlLabels
<1>4. CASE migrate_mempool_alloc(t)
  BY Zenon, <1>2, <1>3, <1>4, <1>k, <1>l, KeepsDevice DEF migrate_mempool_alloc, v
<1>5. CASE migrate_mempool_lock(t)
  BY ZenonT(30), <1>2, <1>5, <1>k, <1>l, KeepsFlags DEF migrate_mempool_lock, v
<1>6. CASE migrate_mempool_swap(t)
  <2>1. /\ Keeps(k, v, IF v.mempool = "NULL" THEN v ELSE PoolFreed(v, "freed"))
        /\ Keeps(k, v, [v EXCEPT !.mempool = "pool"])
    <3>1. Keeps(k, v, PoolFreed(v, "freed")) /\ Keeps(k, v, [v EXCEPT !.mempool = "pool"])
      BY ZenonT(30), <1>k, KeepsDevice, KeepsPort DEF Pools
    <3> QED BY ZenonT(30), <1>k, <3>1
  <2>2. Keeps(k, v, [v EXCEPT !.dpdk_sl = FALSE, !.vio_sl = FALSE])
    <3>1. Keeps(k, v, [v EXCEPT !.dpdk_sl = FALSE])
      BY ZenonT(30), <1>k, KeepsFlags
    <3>2. Keeps(k, v, [[v EXCEPT !.dpdk_sl = FALSE] EXCEPT !.vio_sl = FALSE])
      BY ZenonT(30), <3>1, KeepsFlags
    <3> QED BY ZenonT(30), <1>1, <3>2
  <2>3. \/ CStep(t, "mig_free", "mig_swap", IF v.mempool = "NULL" THEN v ELSE PoolFreed(v, "freed"))
        \/ CStep(t, "mig_swap", "mig_unlock", [v EXCEPT !.mempool = "pool"])
        \/ CStep(t, "mig_unlock", "mig_queues", [v EXCEPT !.dpdk_sl = FALSE, !.vio_sl = FALSE])
    BY Zenon, <1>6 DEF migrate_mempool_swap, v
  <2> QED BY ZenonT(30), <1>2, <1>l, <2>1, <2>2, <2>3
<1>7. CASE migrate_mempool_queues(t)
  <2>1. Keeps(k, v, [v EXCEPT !.vf_pool = IF v.dpdk_state = "ADDED" THEN "current" ELSE v.vf_pool])
    BY ZenonT(30), <1>1, <1>k, RelayFields, KeepsPort
  <2>2. Keeps(k, v, [v EXCEPT !.vf_dev = "closed"])
    BY ZenonT(30), <1>k, KeepsPort
  <2>3. PICK u : CStep(t, "mig_queues", AfterMigration(t), u) /\ Keeps(k, v, u)
    BY ZenonT(30), <1>7, <1>k, <2>1, <2>2 DEF migrate_mempool_queues, v
  <2> QED BY <1>2, <1>3, <2>3
<1>8. CASE add_virtio_pool(t)
  <2>1. Keeps(k, v, PoolThere(v)) /\ Keeps(k, v, [v EXCEPT !.vio_dev = FALSE])
    BY ZenonT(30), <1>k, KeepsDevice, KeepsFlags
  <2> QED BY ZenonT(30), <1>2, <1>8, <1>k, <1>l, <2>1 DEF add_virtio_pool, v
<1>9. CASE add_virtio_ready(t)
  <2>1. CASE CStep(t, "av_ready", "av_flag", [v EXCEPT !.vio_state = "READY"])
    <3> DEFINE u == [v EXCEPT !.vio_state = "READY"]
    <3>1. u \in RelayStruct /\ u.vf2vio_cpu = v.vf2vio_cpu /\ (UsesVf(k, u) <=> UsesVf(k, v))
      BY ZenonT(30), <1>1 DEF RelayStruct, UsesVf
    <3> HIDE DEF u
    <3>2. "av_ready" \notin VfPromise /\ "av_ready" \in CtlLabels
      BY Zenon DEF VfPromise, CtlLabels
    <3> QED BY ZenonT(30), <1>l, <2>1, <3>1, <3>2, CStepTold DEF v, u
  <2>2. CASE CFlag(t, "av_flag", "av_vf", v.vio2vf_cpu)
    BY <1>1, <1>l, <2>2, CFlagTold DEF v, VfPromise
  <2>3. CASE CStep(t, "av_vf", IF v.dpdk_state = "ADDED" THEN "av_vf_cpu" ELSE "idle", v)
    BY ZenonT(30), <1>2, <1>k, <1>l, <2>3
  <2> QED BY Zenon, <1>9, <2>1, <2>2, <2>3 DEF add_virtio_ready, v
<1>10. CASE add_virtio_start(t)
  <2>1. CASE v.vf_dev \in {"detached", "closed"} /\ CStep(t, "av_start", "idle", v)
    <3>1. k # "all"
      BY ZenonT(30), <2>1 DEF Meant, CStep, v
    <3>2. ~UsesVf(k, v) /\ "av_start" \notin VmPromise
      BY ZenonT(30), <2>1, <3>1 DEF UsesVf, VmPromise
    <3> QED BY ZenonT(30), <1>1, <1>l, <2>1, <3>2, CStepTold DEF v
  <2>2. CASE CStep(t, "av_start", "av_vf_ready", [v EXCEPT !.vf_dev = "started", !.lm_pending = FALSE])
    <3> DEFINE u == [v EXCEPT !.vf_dev = "started", !.lm_pending = FALSE]
    <3>1. u \in RelayStruct /\ u.vio2vf_cpu = v.vio2vf_cpu /\ (UsesVm(k, u) <=> UsesVm(k, v))
      BY ZenonT(30), <1>1 DEF RelayStruct, UsesVm
    <3>2. "av_start" \notin VmPromise /\ "av_vf_ready" \in VfPromise \ {"mg_dpdk_flag"}
      BY Zenon DEF VmPromise, VfPromise
    <3> HIDE DEF u
    <3> QED BY ZenonT(30), <1>l, <2>2, <3>1, <3>2, CStepTold DEF v, u
  <2> QED BY SMTT(30), <1>10, <2>1, <2>2 DEF add_virtio_start, v
<1>11. CASE add_virtio_vf_ready(t)
  <2>1. CASE CStep(t, "av_vf_ready", "av_vf_flag", [v EXCEPT !.dpdk_state = "READY"])
    <3> DEFINE u == [v EXCEPT !.dpdk_state = "READY"]
    <3>1. u \in RelayStruct /\ u.vio2vf_cpu = v.vio2vf_cpu /\ (UsesVm(k, u) <=> UsesVm(k, v))
      BY ZenonT(30), <1>1 DEF RelayStruct, UsesVm
    <3>2. "av_vf_ready" \notin VmPromise /\ "av_vf_flag" \in VfPromise \ {"mg_dpdk_flag"}
      BY Zenon DEF VmPromise, VfPromise
    <3> HIDE DEF u
    <3> QED BY ZenonT(30), <1>l, <2>1, <3>1, <3>2, CStepTold DEF v, u
  <2>2. CASE CFlag(t, "av_vf_flag", "idle", v.vf2vio_cpu)
    BY <1>1, <1>l, <2>2, CFlagTold DEF v, VmPromise
  <2> QED BY <1>11, <2>1, <2>2 DEF add_virtio_vf_ready, v
<1> QED BY Zenon, <1>4, <1>5, <1>6, <1>7, <1>8, <1>9, <1>10, <1>11, FindVioCpuTold, FindVfCpuTold
        DEF add_virtio_body, migrate_mempool

\* The removal of a VM, which gives its worker up.
LEMMA RemoveVirtioTold ==
  ASSUME TypeOK, NEW k, Told(k), NEW t \in Threads, k = "all" => Meant(t), remove_virtio_body(t)
  PROVE  Told(k)'
<1> DEFINE v == Held(t)
           q == ctl[t].r
<1>1. v \in RelayStruct /\ v.vio2vf_cpu \in CpuOrNone /\ v.vf2vio_cpu \in CpuOrNone
  BY ZenonT(30), HeldType, RelayFields
<1>c. ctl[t] \in CtlStruct /\ ctl[t].cpu \in CpuOrNone /\ q \in Relays
  BY Zenon DEF TypeOK, CtlStruct
<1>k. Keeps(k, v, v)
  BY ZenonT(30), <1>1, KeepsSelf
<1> HIDE DEF v
<1>l. /\ {"idle", "rv_mark", "rv_wait", "rv_cpu", "rv_flag", "rv_vf", "rv_vf_added", "rv_vf_flag",
          "rv_gone"} \subseteq CtlLabels
      /\ {"rv_mark", "rv_wait", "rv_cpu", "rv_flag", "rv_vf", "rv_vf_added", "rv_vf_flag",
          "rv_gone"} \cap (VmPromise \cup VfPromise) = {}
  BY ZenonT(30) DEF CtlLabels, VmPromise, VfPromise
<1>2. ASSUME NEW at \in {"rv_mark", "rv_wait", "rv_vf", "rv_vf_added", "rv_gone"},
             NEW l \in CtlLabels, NEW u, CStep(t, at, l, u), Keeps(k, v, u)
      PROVE  Told(k)'
  BY ZenonT(30), <1>l, <1>2, CStepKeeps DEF v
<1>3. ASSUME NEW at \in {"rv_flag", "rv_vf_flag"}, NEW l \in CtlLabels, NEW c \in CpuOrNone,
             CFlag(t, at, l, c)
      PROVE  Told(k)'
  BY SMTT(30), <1>l, <1>3, CFlagTold
<1>4. CASE remove_virtio_wait(t)
  <2>1. ctl[t].pc = "rv_mark" => Keeps(k, v, [v EXCEPT !.vio_state = "REMOVING1"])
    BY ZenonT(30), <1>k, KeepsState DEF Meant, v
  <2> QED BY ZenonT(30), <1>2, <1>4, <1>k, <1>l, <2>1 DEF remove_virtio_wait, CStep, v
<1>5. CASE remove_virtio_cpu(t)
  <2> DEFINE u == ToVioCpu(v, NoCpu)
             w == [ctl[t] EXCEPT !.pc = "rv_flag", !.cpu = v.vio2vf_cpu]
  <2>1. CASE /\ ctl[t].pc = "rv_cpu" /\ ctl' = [ctl EXCEPT ![t] = w]
             /\ relay' = [relay EXCEPT ![q] = u] /\ UNCHANGED <<need_update, worker>>
    <3>1. w \in CtlStruct /\ w.r = q
      BY ZenonT(30), <1>1, <1>c, <1>l DEF CtlStruct
    <3>2. /\ u \in RelayStruct /\ u.vio2vf_cpu = NoCpu
          /\ u.dpdk_state = v.dpdk_state /\ u.vf_dev = v.vf_dev /\ u.vf2vio_cpu = v.vf2vio_cpu
      BY ZenonT(30), <1>1 DEF ToVioCpu, RelayStruct, CpuOrNone
    <3> HIDE DEF u
    <3>3. VmKept(k, t, q, u, w)
      BY ZenonT(30), <3>2, CpuAssumption DEF VmKept
    <3>4. VfKept(k, t, q, u, w)
      BY <2>1, <3>2 DEF VfKept, UsesVf, WillFlagVf, v, Held
    <3> QED BY ZenonT(30), <1>c, <2>1, <3>1, <3>2, <3>3, <3>4, CtlTold
  <2> QED BY ZenonT(30), <1>3, <1>5, <1>c, <1>l, <2>1 DEF remove_virtio_cpu, v
<1>6. CASE remove_virtio_vf(t)
  <2>1. CASE CStep(t, "rv_vf_added", "rv_vf_flag", [v EXCEPT !.dpdk_state = "ADDED"])
    <3>1. Keeps(k, v, [v EXCEPT !.dpdk_state = "ADDED"])
      BY ZenonT(30), <1>k, <2>1, KeepsState DEF Meant, CStep, v
    <3> QED BY SMTT(30), <1>2, <1>l, <2>1, <3>1
  <2>2. Keeps(k, v, Stopped(v)) /\ Keeps(k, v, PoolFreed(v, "NULL")) /\ Keeps(k, v, DeviceGone(v))
    BY ZenonT(30), <1>k, KeepsDevice DEF Pools
  <2> QED BY ZenonT(60), <1>1, <1>2, <1>3, <1>6, <1>k, <1>l, <2>1, <2>2 DEF remove_virtio_vf, v
<1> QED BY ZenonT(30), <1>4, <1>5, <1>6 DEF remove_virtio_body

\* The addition of a VF: started and published at labels that promise the flag.
LEMMA AddVfTold ==
  ASSUME TypeOK, NEW k, Told(k), "start" \notin Faults, NEW t \in Threads, add_vf_body(t)
  PROVE  Told(k)'
<1> DEFINE v == Held(t)
           q == ctl[t].r
<1>1. v \in RelayStruct /\ v.vf2vio_cpu \in CpuOrNone
  BY ZenonT(30), HeldType, RelayFields
<1>c. ctl[t] \in CtlStruct /\ ctl[t].st \in {"ADDED", "READY"} /\ q \in Relays
  BY ZenonT(30) DEF TypeOK, CtlStruct
<1>k. Keeps(k, v, v)
  BY ZenonT(30), <1>1, KeepsSelf
<1> HIDE DEF v
<1>l. /\ {"idle", "af_attach", "af_start", "af_cpu", "af_state", "af_flag"} \subseteq CtlLabels
      /\ {"af_attach", "af_start"} \cap (VmPromise \cup VfPromise) = {}
      /\ {"af_state", "af_flag"} \cap VmPromise = {}
      /\ "af_flag" \in VfPromise \ {"mg_dpdk_flag"}
  BY ZenonT(30) DEF CtlLabels, VmPromise, VfPromise
<1>2. CASE add_vf_attach(t)
  <2>1. Keeps(k, v, Attached(v))
    BY ZenonT(30), <1>k, KeepsDevice
  <2>2. \A u \in {v} \cup DetachFailed([v EXCEPT !.vf_dev = "stopped"]) :
          \A x \in {u, PoolThere(u)} : Keeps(k, v, x)
    <3>1. \A u \in {v} \cup DetachFailed([v EXCEPT !.vf_dev = "stopped"]) : Keeps(k, v, u)
      BY ZenonT(30), <1>k, KeepsPort, KeepsDevice
    <3> QED BY ZenonT(30), <3>1, KeepsDevice
  <2>3. PICK u : \E l \in {"af_start", "idle"} : CStep(t, "af_attach", l, u) /\ Keeps(k, v, u)
    BY ZenonT(30), <1>1, <1>2, <2>1, <2>2 DEF add_vf_attach, v
  <2> QED BY ZenonT(30), <1>l, <2>3, CStepKeeps DEF v
<1>3. CASE configure_dev_start(t)
  <2> DEFINE st == IF v.vio_state = "READY" THEN "READY" ELSE "ADDED"
             dev == IF v.vio_state = "READY" THEN "started" ELSE v.vf_dev
             u == [v EXCEPT !.lm_pending = FALSE, !.vf_dev = dev]
             w == [ctl[t] EXCEPT !.pc = "af_cpu", !.st = st]
  <2>1. /\ ctl[t].pc = "af_start" /\ ctl' = [ctl EXCEPT ![t] = w]
        /\ relay' = [relay EXCEPT ![q] = u] /\ UNCHANGED <<need_update, worker>>
    BY ZenonT(30), <1>3 DEF configure_dev_start, v
  <2>2. w \in CtlStruct /\ w.r = q /\ w.pc = "af_cpu"
    BY ZenonT(30), <1>c, <1>l DEF CtlStruct
  <2>3. u \in RelayStruct /\ u.vio_state = v.vio_state /\ u.vio2vf_cpu = v.vio2vf_cpu
    <3>1. dev \in {"detached", "stopped", "started", "closed"}
      BY ZenonT(30), <1>1, RelayFields
    <3> HIDE DEF dev
    <3> QED BY ZenonT(30), <1>1, <3>1 DEF RelayStruct
  <2> HIDE DEF u, w
  <2>4. VmKept(k, t, q, u, w)
    BY ZenonT(30), <2>1, <2>3 DEF VmKept, UsesVm, WillFlagVm, v, Held
  <2>5. VfKept(k, t, q, u, w)
    BY Zenon, <2>2 DEF VfKept
  <2> QED BY ZenonT(30), <1>c, <2>1, <2>2, <2>3, <2>4, <2>5, CtlTold
<1>4. CASE configure_dev_publish(t)
  <2>1. CASE CStep(t, "af_state", "af_flag", [v EXCEPT !.dpdk_state = ctl[t].st])
    <3> DEFINE u == [v EXCEPT !.dpdk_state = ctl[t].st]
    <3>1. u \in RelayStruct /\ u.vio2vf_cpu = v.vio2vf_cpu /\ (UsesVm(k, u) <=> UsesVm(k, v))
      BY <1>1, <1>c DEF RelayStruct, UsesVm
    <3> HIDE DEF u
    <3> QED BY ZenonT(30), <1>l, <2>1, <3>1, CStepTold DEF v, u
  <2>2. CASE CFlag(t, "af_flag", "idle", v.vf2vio_cpu)
    BY ZenonT(30), <1>1, <1>l, <2>2, CFlagTold DEF v
  <2> QED BY SMTT(30), <1>4, <2>1, <2>2 DEF configure_dev_publish, v
<1> QED BY <1>2, <1>3, <1>4, FindVfCpuTold DEF add_vf_body

\* The removal of a VF, which gives its worker up.
LEMMA DetachDeviceTold ==
  ASSUME TypeOK, NEW k, Told(k), NEW t \in Threads, k = "all" => Meant(t), detach_device(t)
  PROVE  Told(k)'
<1> DEFINE v == Held(t)
           q == ctl[t].r
<1>1. v \in RelayStruct /\ v.vf2vio_cpu \in CpuOrNone
  BY ZenonT(30), HeldType, RelayFields
<1>c. ctl[t] \in CtlStruct /\ ctl[t].cpu \in CpuOrNone /\ q \in Relays
  BY Zenon DEF TypeOK, CtlStruct
<1>k. Keeps(k, v, v)
  BY ZenonT(30), <1>1, KeepsSelf
<1> HIDE DEF v
<1>l. /\ {"idle", "rf_mark", "rf_wait", "rf_cpu", "rf_flag", "rf_detach", "rf_pool"} \subseteq CtlLabels
      /\ {"rf_mark", "rf_wait", "rf_cpu", "rf_flag", "rf_detach", "rf_pool"}
            \cap (VmPromise \cup VfPromise) = {}
  BY ZenonT(30) DEF CtlLabels, VmPromise, VfPromise
<1>2. ASSUME NEW at \in {"rf_mark", "rf_wait", "rf_detach", "rf_pool"},
             NEW l \in CtlLabels, NEW u, CStep(t, at, l, u), Keeps(k, v, u)
      PROVE  Told(k)'
  BY ZenonT(30), <1>l, <1>2, CStepKeeps DEF v
<1>4. CASE stop_vm2vf_thread(t)
  <2>1. ctl[t].pc = "rf_mark" => Keeps(k, v, [v EXCEPT !.dpdk_state = "REMOVING1"])
    BY ZenonT(30), <1>k, KeepsState DEF Meant, v
  <2> QED BY SMTT(30), <1>2, <1>4, <1>k, <1>l, <2>1 DEF stop_vm2vf_thread, CStep, v
<1>5. CASE detach_device_cpu(t)
  <2> DEFINE u == ToVfCpu(v, NoCpu)
             w == [ctl[t] EXCEPT !.pc = "rf_flag", !.cpu = v.vf2vio_cpu]
  <2>1. CASE /\ ctl[t].pc = "rf_cpu" /\ ctl' = [ctl EXCEPT ![t] = w]
             /\ relay' = [relay EXCEPT ![q] = u] /\ UNCHANGED <<need_update, worker>>
    <3>1. w \in CtlStruct /\ w.r = q
      BY ZenonT(30), <1>1, <1>c, <1>l DEF CtlStruct
    <3>2. /\ u \in RelayStruct /\ u.vf2vio_cpu = NoCpu
          /\ u.vio_state = v.vio_state /\ u.vio2vf_cpu = v.vio2vf_cpu
      BY ZenonT(30), <1>1 DEF ToVfCpu, RelayStruct, CpuOrNone
    <3> HIDE DEF u
    <3>3. VfKept(k, t, q, u, w)
      BY ZenonT(30), <3>2, CpuAssumption DEF VfKept
    <3>4. VmKept(k, t, q, u, w)
      BY ZenonT(30), <2>1, <3>2 DEF VmKept, UsesVm, WillFlagVm, v, Held
    <3> QED BY ZenonT(30), <1>c, <2>1, <3>1, <3>2, <3>3, <3>4, CtlTold
  <2>2. CASE CFlag(t, "rf_flag", "rf_detach", ctl[t].cpu)
    BY SMTT(30), <1>c, <1>l, <2>2, CFlagTold
  <2> QED BY <1>5, <2>1, <2>2 DEF detach_device_cpu, v
<1>6. CASE detach_device_port(t)
  <2>1. /\ Keeps(k, v, Detached(v)) /\ Keeps(k, v, PoolFreed(v, "NULL"))
        /\ \A u \in DetachFailed(v) : Keeps(k, v, u)
    BY ZenonT(30), <1>k, KeepsDevice DEF Pools
  <2> QED BY ZenonT(30), <1>2, <1>6, <1>k, <1>l, <2>1 DEF detach_device_port, v
<1> QED BY Zenon, <1>4, <1>5, <1>6 DEF detach_device

\* The migration to other CPUs: the new worker is flagged after the move.
LEMMA MigrateTold ==
  ASSUME TypeOK, NEW k, Told(k), NEW t \in Threads, migrate_vio(t) \/ migrate_dpdk(t)
  PROVE  Told(k)'
<1> DEFINE v == Held(t)
           q == ctl[t].r
<1>1. v \in RelayStruct /\ v.vio2vf_cpu \in CpuOrNone /\ v.vf2vio_cpu \in CpuOrNone
  BY ZenonT(30), HeldType, RelayFields
<1>c. ctl[t] \in CtlStruct /\ ctl[t].cpu \in CpuOrNone /\ q \in Relays
  BY ZenonT(30) DEF TypeOK, CtlStruct
<1>k. Keeps(k, v, v)
  BY ZenonT(30), <1>1, KeepsSelf
<1> HIDE DEF v
<1>l. /\ {"mg_vio", "mg_vio_flag", "mg_dpdk_test", "mg_dpdk", "mg_dpdk_flag", "idle"} \subseteq CtlLabels
      /\ {"mg_vio", "mg_dpdk_test", "mg_dpdk"} \cap (VmPromise \cup VfPromise) = {}
      /\ "mg_vio_flag" \notin VfPromise /\ "mg_dpdk_flag" \notin VmPromise
  BY ZenonT(30) DEF CtlLabels, VmPromise, VfPromise
<1>2. ASSUME NEW at \in {"mg_vio", "mg_dpdk_test", "mg_dpdk"}, NEW l \in CtlLabels, CStep(t, at, l, v)
      PROVE  Told(k)'
  BY ZenonT(30), <1>k, <1>l, <1>2, CStepKeeps DEF v
<1>3. ASSUME NEW at \in {"mg_vio_flag", "mg_dpdk_flag"}, NEW l \in CtlLabels,
             CFlag(t, at, l, ctl[t].cpu)
      PROVE  Told(k)'
  BY SMTT(30), <1>c, <1>l, <1>3, CFlagTold
<1>4. ASSUME NEW c \in Cpus, NEW at \in {"mg_vio", "mg_dpdk"}, ctl[t].pc = at,
             NEW l \in CtlLabels, NEW u \in RelayStruct, NEW old \in CpuOrNone,
             Flag(old), relay' = [relay EXCEPT ![q] = u],
             ctl' = [ctl EXCEPT ![t] = [ctl[t] EXCEPT !.pc = l, !.cpu = c]], UNCHANGED worker,
             \/ /\ l = "mg_vio_flag" /\ u.vio2vf_cpu = c
                /\ u.dpdk_state = v.dpdk_state /\ u.vf_dev = v.vf_dev
                /\ u.vf2vio_cpu = v.vf2vio_cpu
             \/ /\ l = "mg_dpdk_flag" /\ u.vf2vio_cpu = c
                /\ u.vio_state = v.vio_state /\ u.vio2vf_cpu = v.vio2vf_cpu
      PROVE  Told(k)'
  <2> DEFINE w == [ctl[t] EXCEPT !.pc = l, !.cpu = c]
  <2>1. w \in CtlStruct /\ w.r = q /\ w.pc = l /\ w.cpu = c
    BY ZenonT(30), <1>c DEF CtlStruct, CpuOrNone
  <2>2. \A d \in Cpus : need_update[d] => need_update'[d]
    BY ZenonT(30), <1>4 DEF Flag, TypeOK
  <2> HIDE DEF w
  <2>3. \A d \in Cpus : ~WillFlagVm(t, q, d) /\ ~WillFlagVf(t, q, d)
    BY ZenonT(30), <1>4 DEF WillFlagVm, WillFlagVf
  <2>4. VmKept(k, t, q, u, w)
    BY ZenonT(30), <1>4, <2>1, <2>3 DEF VmKept, UsesVm, v, Held
  <2>5. VfKept(k, t, q, u, w)
    BY ZenonT(30), <1>4, <2>1, <2>3 DEF VfKept, UsesVf, v, Held
  <2> QED BY ZenonT(30), <1>4, <1>c, <2>1, <2>2, <2>4, <2>5, CtlTold DEF w
<1>5. \A c \in Cpus :
        /\ ToVioCpu(v, c) \in RelayStruct /\ ToVfCpu(v, c) \in RelayStruct
        /\ ToVioCpu(v, c).vio2vf_cpu = c /\ ToVioCpu(v, c).dpdk_state = v.dpdk_state
        /\ ToVioCpu(v, c).vf_dev = v.vf_dev /\ ToVioCpu(v, c).vf2vio_cpu = v.vf2vio_cpu
        /\ ToVfCpu(v, c).vf2vio_cpu = c /\ ToVfCpu(v, c).vio_state = v.vio_state
        /\ ToVfCpu(v, c).vio2vf_cpu = v.vio2vf_cpu
  BY Zenon, <1>1 DEF ToVioCpu, ToVfCpu, RelayStruct, CpuOrNone
<1>6. CASE migrate_vio(t)
  <2>1. ASSUME NEW c \in Cpus, ctl[t].pc = "mg_vio", Flag(v.vio2vf_cpu),
               relay' = [relay EXCEPT ![q] = ToVioCpu(v, c)],
               ctl' = [ctl EXCEPT ![t] = [ctl[t] EXCEPT !.pc = "mg_vio_flag", !.cpu = c]],
               UNCHANGED worker
        PROVE  Told(k)'
    BY ZenonT(60), <1>1, <1>4, <1>5, <1>l, <2>1
  <2> QED BY ZenonT(60), <1>2, <1>3, <1>6, <1>l, <2>1 DEF migrate_vio, MoveCpu, v
<1>7. CASE migrate_dpdk(t)
  <2>1. ASSUME NEW c \in Cpus, ctl[t].pc = "mg_dpdk", Flag(v.vf2vio_cpu),
               relay' = [relay EXCEPT ![q] = ToVfCpu(v, c)],
               ctl' = [ctl EXCEPT ![t] = [ctl[t] EXCEPT !.pc = "mg_dpdk_flag", !.cpu = c]],
               UNCHANGED worker
        PROVE  Told(k)'
    BY ZenonT(30), <1>1, <1>4, <1>5, <1>l, <2>1
  <2> QED BY ZenonT(60), <1>2, <1>3, <1>7, <1>l, <2>1 DEF migrate_dpdk, MoveCpu, v
<1> QED BY ZenonT(30), <1>6, <1>7

\* The first steps of the operations.
LEMMA RequestTold ==
  ASSUME TypeOK, NEW k, Told(k), NEW r \in Relays, Request(r)
  PROVE  Told(k)'
<1> DEFINE v == relay[r]
<1>k. Keeps(k, v, v)
  BY Zenon, KeepsSelf DEF TypeOK
<1>l. {"idle", "av_pool", "rv_mark", "af_attach", "mig_alloc", "rf_cpu", "rf_mark", "mg_vio",
       "mg_dpdk_test"} \subseteq CtlLabels
  BY ZenonT(30) DEF CtlLabels
<1>2. ASSUME NEW t \in Threads, NEW op, NEW l \in CtlLabels, NEW u, Call(t, op, r, l, u), Keeps(k, v, u)
      PROVE  Told(k)'
  BY ZenonT(30), <1>2, CallTold DEF Keeps
<1>t. "vhost" \in Threads /\ "port" \in Threads /\ "sched" \in Threads
  BY SMTT(30) DEF Threads
<1> HIDE DEF v
<1> USE <1>k, <1>l, <1>2, <1>t
<1>3. CASE add_virtio(r)
  BY ZenonT(30), <1>3, KeepsFlags DEF add_virtio, v
<1>4. CASE remove_virtio("vhost", r) \/ remove_virtio("port", r)
  BY ZenonT(30), <1>4, KeepsDevice DEF remove_virtio, v
<1>5. CASE features_changed_cb(r)
  BY ZenonT(30), <1>5, KeepsFlags DEF features_changed_cb, v
<1>6. CASE add_vf2(r) \/ bond_add(r)
  BY ZenonT(30), <1>6 DEF add_vf2, bond_add, v
<1>7. CASE remove_vf2(r)
  BY ZenonT(30), <1>7 DEF remove_vf2, v
<1>8. CASE migrate_relay_cpus(r)
  BY ZenonT(30), <1>8 DEF migrate_relay_cpus, v
<1> QED BY SMTT(30), <1>3, <1>4, <1>5, <1>6, <1>7, <1>8 DEF Request

-----------------------------------------------------------------------------

\* At the start no relay is in use.
LEMMA ToldInit == ASSUME NEW k PROVE Init => Told(k)
BY DEF Init, InitialRelay, Told, UsesVm, UsesVf

\* Every step keeps Told.
LEMMA ToldStep ==
  ASSUME "start" \notin Faults, TypeOK, NEW k, Told(k), [Next]_vars,
         k = "all" => \A t \in Threads : Meant(t)
  PROVE  Told(k)'
<1>1. ASSUME NEW c \in Cpus, worker_func(c) PROVE Told(k)'
  BY Zenon, <1>1, WorkerLoopTold, WorkerPassTold DEF worker_func
<1>2. ASSUME NEW t \in Threads, Continue(t) PROVE Told(k)'
  BY Zenon, <1>2, AddVirtioTold, RemoveVirtioTold, AddVfTold, DetachDeviceTold, MigrateTold
     DEF Continue
<1>3. ASSUME NEW r \in Relays, Request(r) PROVE Told(k)'
  BY ZenonT(30), <1>3, RequestTold
<1>4. CASE UNCHANGED vars
  BY <1>4 DEF vars, Told, Knows, WillFlagVm, WillFlagVf
<1> QED BY ZenonT(30), <1>1, <1>2, <1>3, <1>4 DEF Next

\* Unless a port fails to start, a worker never misses a relay it has to
\* forward for: need_update is raised after every write that update_thread
\* reads, by every control thread and in every interleaving with it.  Control
\* operations may overlap on the same relay and waits may time out.
THEOREM ForwarderToldCorrect ==
  ASSUME "start" \notin Faults
  PROVE  Spec => []ForwarderTold
<1>1. ForwarderTold <=> Told("forwarding")
  BY Zenon DEF ForwarderTold, Told, UsesVm, UsesVf
<1>2. Init => Told("forwarding")
  BY Zenon, ToldInit
<1>3. TypeOK /\ Told("forwarding") /\ [Next]_vars => Told("forwarding")'
  BY ZenonT(30), ToldStep
<1> QED BY <1>1, <1>2, <1>3, TypeCorrect, PTL DEF Spec

\* In its phase, a relay has what the next step starts or removes.
LEMMA PhasesMeant ==
  ASSUME PortsWork, ApartInv, NEW t \in Threads
  PROVE  Meant(t)
<1>1. ctl[t].pc # "idle" => At(t, ctl[t].pc, ctl[t].st, Held(t))
  BY SMTT(30), PhaseHere DEF ApartInv
<1>2. CASE ctl[t].pc = "av_start"
  BY ZenonT(30), <1>1, <1>2 DEF Meant, At, VfAt, PortAt, PortFits
<1>3. CASE ctl[t].pc = "rv_mark"
  BY SMTT(30), <1>1, <1>3 DEF Meant, At, VmAt, VmUp
<1>4. CASE ctl[t].pc \in {"rv_vf_added", "rf_mark"}
  BY ZenonT(30), <1>1, <1>4 DEF Meant, At, VfAt, VfUp
<1> QED BY ZenonT(30), <1>2, <1>3, <1>4 DEF Meant

\* If control operations on a relay come one at a time, the workers answer in
\* time and the ports work, update_thread also hears of every relay that is
\* being removed: no removal waits for a worker that never looks.
THEOREM UpdateNotLostCorrect ==
  ASSUME Apart, "timeout" \notin Faults, PortsWork
  PROVE  Spec => []UpdateNotLost
<1>1. Told("all") => UpdateNotLost
  BY Zenon DEF Told, UpdateNotLost, UsesVm, UsesVf, Serves
<1>2. Init => Told("all")
  BY ToldInit
<1>3. TypeOK /\ ApartInv /\ Told("all") /\ [Next]_vars => Told("all")'
  <2>1. "start" \notin Faults
    BY Zenon DEF PortsWork
  <2> QED BY ZenonT(30), <2>1, ToldStep, PhasesMeant
<1> QED BY <1>1, <1>2, <1>3, TypeCorrect, ApartCorrect, PTL DEF Spec
=============================================================================
