------------------------------- MODULE NetQueue -------------------------------
(***************************************************************************)
(* The network layer's packet queue (src/network.c: enqueue, dequeue) and   *)
(* the turns of the main loop that use it (main.c:139): a packet to forward *)
(* or to answer is queued, then one of the transport layer's, then the      *)
(* oldest is taken and sent, or queued again because no route is known.     *)
(*                                                                         *)
(* The queue is an array that is filled from 0 to its end and starts again  *)
(* only when it runs empty, or when a packet is refused.  A packet stands   *)
(* for its number: the how-manieth call of enqueue it came with.            *)
(***************************************************************************)
EXTENDS Integers, FiniteSets

CONSTANTS
  QUEUE_MAX_SIZE,  \* slots of the queue
  MaxPackets       \* bound: calls of enqueue

ASSUME QueueAssumption == QUEUE_MAX_SIZE \in Nat \ {0} /\ MaxPackets \in Nat

VARIABLES
  pc,         \* the turn of the main loop
  q,          \* queue, front, back
  tx_buffer,  \* the packet taken last, 0 at first
  issued      \* how many calls of enqueue there were

vars == <<pc, q, tx_buffer, issued>>

Slot == 0 .. QUEUE_MAX_SIZE - 1
Index == -1 .. QUEUE_MAX_SIZE - 1
Queue == [queue: [Slot -> Nat], front: Index, back: Index]

-----------------------------------------------------------------------------
(* Mutant: the end is found one slot late. *)
EnqueueLate(r, p) ==
  IF r.back = QUEUE_MAX_SIZE
    THEN [r EXCEPT !.back = -1]
    ELSE [queue |-> [r.queue EXCEPT ![r.back + 1] = p],
          front |-> IF r.front = -1 THEN 0 ELSE r.front,
          back  |-> r.back + 1]

(* A packet that meets the end of the array is refused, and the next ones  *)
(* start at slot 0 whatever is pending there.                              *)
enqueue(r, p) ==
  IF r.back = QUEUE_MAX_SIZE - 1
    THEN [r EXCEPT !.back = -1]
    ELSE [queue |-> [r.queue EXCEPT ![r.back + 1] = p],
          front |-> IF r.front = -1 THEN 0 ELSE r.front,
          back  |-> r.back + 1]

(* Mutant: the queue is found empty only when a packet is missing. *)
DequeueLate(r) ==
  IF r.front > r.back
    THEN [r EXCEPT !.front = -1, !.back = -1]
    ELSE [r EXCEPT !.front = (@ + 1) % QUEUE_MAX_SIZE]

(* Mutant: the last packet is given up with the one before it. *)
DequeueEarly(r) ==
  IF r.front + 1 >= r.back
    THEN [r EXCEPT !.front = -1, !.back = -1]
    ELSE [r EXCEPT !.front = @ + 1]

(* After the packet at front: empty when front has passed back. *)
dequeue(r) ==
  IF r.front + 1 > r.back
    THEN [r EXCEPT !.front = -1, !.back = -1]
    ELSE [r EXCEPT !.front = @ + 1]

IsEmpty(r) == r.front = -1

(* The packets that can still leave, but for later losses. *)
Pending(r) ==
  IF IsEmpty(r) THEN {}
                ELSE {r.queue[i] : i \in {r.front} \cup (r.front .. r.back)}

-----------------------------------------------------------------------------
Goto(from, to) == pc = from /\ pc' = to

(* A turn that calls enqueue once, or has nothing to queue. *)
EnqueueOrNot ==
  \/ /\ issued < MaxPackets
     /\ issued' = issued + 1
     /\ q' = enqueue(q, issued + 1)
     /\ UNCHANGED tx_buffer
  \/ UNCHANGED <<q, issued, tx_buffer>>

(* net_handle_rx_packet: an RREQ, RREP or DATA passed on, or an RREQ        *)
(* answered.                                                               *)
HandleRx == Goto("rx", "transport") /\ EnqueueOrNot

(* net_transport_poll: send_data for the segment of the transport layer. *)
TransportPoll == Goto("transport", "tx") /\ EnqueueOrNot

(* net_tx_poll finds no packet. *)
NoPacket ==
  /\ Goto("tx", "rx")
  /\ IsEmpty(q)
  /\ UNCHANGED <<q, tx_buffer, issued>>

(* net_tx_poll and net_handle_tx: the packet goes to the data link layer. *)
Sent ==
  /\ Goto("tx", "rx")
  /\ ~IsEmpty(q)
  /\ tx_buffer' = q.queue[q.front]
  /\ q' = dequeue(q)
  /\ UNCHANGED issued

(* No route: the packet is queued again, behind a request if it is time.   *)
NoRoute ==
  /\ Goto("tx", "rx")
  /\ ~IsEmpty(q)
  /\ tx_buffer' = q.queue[q.front]
  /\ \/ /\ issued < MaxPackets
        /\ issued' = issued + 1
        /\ q' = enqueue(dequeue(q), issued + 1)
     \/ /\ issued + 1 < MaxPackets
        /\ issued' = issued + 2
        /\ q' = enqueue(enqueue(dequeue(q), issued + 1), issued + 2)

Init ==
  /\ pc = "rx"
  /\ q = [queue |-> [i \in Slot |-> 0], front |-> -1, back |-> -1]
  /\ tx_buffer = 0
  /\ issued = 0

Next == HandleRx \/ TransportPoll \/ NoPacket \/ Sent \/ NoRoute

Spec == Init /\ [][Next]_vars

-----------------------------------------------------------------------------
(* Properties *)

TypeOK ==
  /\ pc \in {"rx", "transport", "tx"}
  /\ q \in Queue
  /\ tx_buffer \in Nat
  /\ issued \in 0 .. MaxPackets

(* What may be said of the queue through its overflows (network.c:90-93):  *)
(* no slot is read before it is written, none twice, and packets leave in  *)
(* the order they came, although front and back pass each other.           *)
Fifo == INSTANCE LossyFifo WITH pending <- Pending(q), taken <- tx_buffer
IsLossyFifo == Fifo!Spec

(* While front has not passed back, no packet but the one just taken leaves *)
(* the queue: packets are lost by an overflow (network.c:90), by nothing    *)
(* else (network.c:131).                                                   *)
Wrapped(r) == r.front > r.back

LostOnlyByOverflow ==
  [][~Wrapped(q) /\ ~Wrapped(q') => Pending(q) \ {tx_buffer'} \subseteq Pending(q')]_vars

=============================================================================
