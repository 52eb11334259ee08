-------------------------- MODULE MCSessionServer --------------------------
(* SessionServer on small tables, for TLC. *)
EXTENDS SessionServer, TLC

\* Connections and terminal ids are interchangeable: nothing orders them.
ServerSymmetry == Permutations(Clients) \cup Permutations(TermIds)

=============================================================================
