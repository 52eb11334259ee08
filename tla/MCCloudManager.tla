--------------------------- MODULE MCCloudManager ---------------------------
(* CloudManager on a few terminals and ports, for TLC. *)
EXTENDS CloudManager, TLC

\* Connections, keys and ports are interchangeable: nothing orders them.
CloudSymmetry == Permutations(Clients) \cup Permutations(Keys) \cup Permutations(Ports)

=============================================================================
