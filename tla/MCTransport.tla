----------------------------- MODULE MCTransport -----------------------------
(***************************************************************************)
(* Transport for TLC.  Nodes, and ports, are interchangeable: no action     *)
(* names one, so the safety runs identify states that differ by a           *)
(* permutation.  The liveness run does not.                                *)
(***************************************************************************)
EXTENDS Transport, TLC

Symmetry == Permutations(Node) \cup Permutations(Port)

=============================================================================
