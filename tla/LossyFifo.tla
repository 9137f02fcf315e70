------------------------------ MODULE LossyFifo ------------------------------
(***************************************************************************)
(* What a node's queue of outgoing packets promises: packets leave in the   *)
(* order they came, each at most once, though any of them may be lost.      *)
(* Packets are numbered as they come, so the order is that of the numbers.  *)
(***************************************************************************)
EXTENDS Integers

VARIABLES
  issued,    \* packets handed to the queue so far
  pending,   \* those that can still leave
  taken      \* the one that left last, 0 at first

fifoVars == <<issued, pending, taken>>

Init == issued = 0 /\ pending = {} /\ taken = 0

(* What may be pending after a step that starts with `rest': no packet but *)
(* those and new ones.                                                     *)
Keeps(rest) ==
  /\ issued' >= issued
  /\ pending' \subseteq rest \cup (issued + 1 .. issued')

Accept == Keeps(pending) /\ UNCHANGED taken

(* The oldest leaves; new ones may come in the same step. *)
Serve ==
  \E p \in pending :
    /\ \A other \in pending : p <= other
    /\ taken' = p
    /\ Keeps(pending \ {p})

Next == Accept \/ Serve

Spec == Init /\ [][Next]_fifoVars

=============================================================================
