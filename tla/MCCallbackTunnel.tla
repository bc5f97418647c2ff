-------------------------- MODULE MCCallbackTunnel --------------------------
(* Model values for CallbackTunnel. *)
EXTENDS CallbackTunnel, TLC

Symmetry == Permutations(Crates)

=============================================================================
