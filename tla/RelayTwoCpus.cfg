SPECIFICATION Spec
CONSTANTS
  Relays = {0}
  Cpus = {c1, c2}
  NoCpu = NoCpu
  c1 = c1
  c2 = c2
  ConfCpu <- NotPinned
  Ops = {"add_virtio", "remove_virtio", "features_changed", "add_vf", "bond_add", "sock_remove_virtio", "remove_vf", "migrate"}
  Faults = {"refuse", "alloc", "attach"}
  Apart = TRUE
INVARIANTS UpdateNotLost RestConsistent VhostDeviceAlive StartedVfHasPool
SYMMETRY CpuSymmetry
