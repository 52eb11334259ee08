-------------------------- MODULE MCAttachedClient --------------------------
(* AttachedClient with small windows, for TLC. *)
EXTENDS AttachedClient, TLC

Area(w, h) == [x |-> 0, y |-> 0, width |-> w, height |-> h]

\* A window with room for two splits each way, and one with room for none.
SmallAreas == {Area(9, 5), Area(2, 1)}
OneArea    == {Area(9, 5)}

\* Clients, views and terminal ids are interchangeable: nothing orders them.
ClientSymmetry == Permutations(Clients) \cup Permutations(Views) \cup Permutations(TermIds)

=============================================================================
