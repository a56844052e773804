-------------------------- MODULE MCDomainActions --------------------------
(* Small instances of DomainActions for TLC. *)
EXTENDS DomainActions, TLC

Symmetry ==
    Permutations(Actions) \cup Permutations(Conns) \cup
        Permutations(Draining) \cup Permutations(Monitors \ Draining)
=============================================================================
