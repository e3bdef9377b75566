SPECIFICATION Spec
CONSTANTS
  Relays = {0}
  Cpus = {c1}
  NoCpu = NoCpu
  c1 = c1
  c2 = c2
  ConfCpu <- NotPinned
  Ops = {"add_virtio", "remove_virtio", "features_changed", "add_vf", "bond_add", "remove_vf", "sock_remove_virtio", "migrate"}
  Faults = {"start", "refuse", "alloc", "queues", "attach", "detach"}
  Apart = TRUE
INVARIANTS TypeOK MigrationAssertsHold CachedPacketsHavePool FlagIndexValid
