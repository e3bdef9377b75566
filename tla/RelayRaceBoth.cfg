SPECIFICATION Spec
CONSTANTS
  Relays = {0}
  Cpus = {c1}
  NoCpu = NoCpu
  c1 = c1
  c2 = c2
  ConfCpu <- NotPinned
  Ops = {"add_virtio", "remove_virtio", "add_vf", "remove_vf"}
  Faults = {"timeout"}
  Apart = FALSE
INVARIANTS ForwarderTold
