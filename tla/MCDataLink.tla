----------------------------- MODULE MCDataLink -----------------------------
(***************************************************************************)
(* DataLink for TLC: senders are interchangeable, no action names one.     *)
(***************************************************************************)
EXTENDS DataLink, TLC

Symmetry == Permutations(Sender)

=============================================================================
