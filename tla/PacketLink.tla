----------------------------- MODULE PacketLink -----------------------------
(***************************************************************************)
(* What the data link layer promises the network layer of one node: the     *)
(* packets of each source are handed over in the order they were queued.    *)
(* Any of them may be missing, and one may come several times in a row.     *)
(***************************************************************************)
EXTENDS Integers

CONSTANT Sender

VARIABLES
  count,    \* packets each source has queued
  handed    \* the one handed over last of each source, 0 at first

linkVars == <<count, handed>>

Init == count = [s \in Sender |-> 0] /\ handed = [s \in Sender |-> 0]

Queue(s) ==
  /\ count' = [count EXCEPT ![s] = @ + 1]
  /\ UNCHANGED handed

HandOver(s) ==
  /\ \E n \in handed[s] .. count[s] \ {0} : handed' = [handed EXCEPT ![s] = n]
  /\ UNCHANGED count

Next == \E s \in Sender : Queue(s) \/ HandOver(s)

Spec == Init /\ [][Next]_linkVars

=============================================================================
