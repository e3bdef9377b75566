SPECIFICATION FairSpec
CONSTANTS
  Relays = {0}
  Cpus = {c1, c2}
  NoCpu = NoCpu
  c1 = c1
  c2 = c2
  ConfCpu <- TwoCpus
  Ops = {"add_virtio", "remove_virtio", "add_vf", "remove_vf"}
  Faults = {}
  Apart = TRUE
PROPERTIES RemovalsEnd
