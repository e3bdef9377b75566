------------------------------- MODULE MCRelay -------------------------------
EXTENDS Relay, TLC

CONSTANTS c1, c2

NotPinned == [r \in Relays |-> [vio2vf |-> NoCpu, vf2vio |-> NoCpu]]
TwoCpus   == [r \in Relays |-> [vio2vf |-> c1, vf2vio |-> c2]]

\* With relays that are not pinned nothing tells the workers apart.
CpuSymmetry == Permutations(Cpus)
=============================================================================
