-------------------------- MODULE MCRemoteCommand ---------------------------
(* Small instances of RemoteCommand for TLC. *)
EXTENDS RemoteCommand, TLC

CONSTANTS e1, e2, o1, o2

InstanceSymmetry == Permutations(Instances)

=============================================================================
