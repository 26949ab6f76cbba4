------------------------- MODULE MCSignalingServer -------------------------
(* Model values, symmetry and mutants for checking SignalingServer. *)
EXTENDS SignalingServer, TLC

Symmetry == Permutations(Senders) \cup Permutations(Receivers) \cup Permutations(Ids)
=============================================================================
