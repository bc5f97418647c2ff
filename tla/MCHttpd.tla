------------------------------- MODULE MCHttpd -------------------------------
(***************************************************************************)
(* Httpd for TLC.  Requests and connections are interchangeable; the       *)
(* symmetry is declared only where no liveness is checked.                 *)
(***************************************************************************)
EXTENDS Httpd, TLC

Symmetry == Permutations(Reqs) \cup Permutations(Conns)

=============================================================================
