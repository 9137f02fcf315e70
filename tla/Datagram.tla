------------------------------- MODULE Datagram -------------------------------
(***************************************************************************)
(* What the transport layer promises on any medium whatever: a best-effort *)
(* datagram service.  A message may be lost or come twice, but what an      *)
(* application receives was handed over by another one, for it.             *)
(***************************************************************************)
CONSTANTS Node, Message

VARIABLES
  offered,    \* messages handed to the transport layer
  delivered   \* by node: messages its application was given

Init ==
  /\ offered = {}
  /\ delivered = [n \in Node |-> {}]

(* An application hands over a message. *)
Offer ==
  /\ \E m \in Message : offered' = offered \cup {m}
  /\ UNCHANGED delivered

(* A message reaches the node it is addressed to. *)
Deliver ==
  /\ \E m \in offered :
       m.to \in Node /\ delivered' = [delivered EXCEPT ![m.to] = @ \cup {m}]
  /\ UNCHANGED offered

Next == Offer \/ Deliver

Spec == Init /\ [][Next]_<<offered, delivered>>

=============================================================================
