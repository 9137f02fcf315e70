------------------------------- MODULE Routing -------------------------------
(***************************************************************************)
(* Route discovery and forwarding of the network layer (src/network.c),     *)
(* with its part of the main loop (main.c:157-203), on a mesh of nodes.     *)
(* The queue of each node is NetQueue's.  The data link layers and radios   *)
(* in between lose packets; what they deliver waits until the receiver's    *)
(* next turn.                                                              *)
(*                                                                         *)
(* The turns of two nodes commute but for the packets one sends the other,  *)
(* so a turn is not interrupted by another node's.  It is by the timers,    *)
(* which run out at any point of it.                                       *)
(*                                                                         *)
(* A packet is the bytes of its header; what lies behind it has the names   *)
(* it has in a request, also when it is the payload of a DATA packet.       *)
(***************************************************************************)
EXTENDS Integers, Sequences

CONSTANTS
  Node,                  \* addresses of the nodes
  Links,                 \* the pairs of nodes that hear each other
  DEFAULT_NETWORK_SIZE,  \* entries of the route table
  UNKNOWN_NEXT_HOP,      \* 255, also the hop count without a route
  QUEUE_MAX_SIZE,
  RREQ_TTL, RREP_TTL, DEFAULT_TTL,
  TtlMod,                \* times to live: those of four bits
  Destinations,          \* addresses the transport layer writes to
  NET_ID,                \* first byte of every segment
  PayloadBytes,          \* other bytes of segments, and of checksums
  Expiring,              \* bound: nodes whose route table timer runs out
  MaxSeqnum,             \* bound: sequence numbers a node uses
  MaxSegments            \* bound: segments all nodes together send

SRC_ADDRESS_BYTE == 2
Index == 0 .. DEFAULT_NETWORK_SIZE - 1

ASSUME RoutingAssumption ==
  /\ DEFAULT_NETWORK_SIZE \in Nat
  /\ SRC_ADDRESS_BYTE \in Index
  /\ UNKNOWN_NEXT_HOP \in Nat \ Index
  /\ Node \subseteq Index \ {0}
  /\ Destinations \subseteq Index
  /\ NET_ID \in Nat \ {UNKNOWN_NEXT_HOP}
  /\ PayloadBytes # {} /\ PayloadBytes \subseteq 0 .. UNKNOWN_NEXT_HOP
  /\ QUEUE_MAX_SIZE \in Nat \ {0}
  /\ TtlMod \in Nat \ {0}
  /\ {RREQ_TTL, RREP_TTL, DEFAULT_TTL} \subseteq 0 .. TtlMod - 1
  /\ Expiring \subseteq Node
  /\ MaxSeqnum \in Nat /\ MaxSegments \in Nat

VARIABLES
  pc,           \* the node whose turn it is, and its step
  route_table,  \* of each node
  net_seqnum,   \* of each node
  queue,        \* of each node
  rx,           \* of each node: the packet received, if any
  rt_out,       \* net_timeout_rt of each node
  rreq_out,     \* net_timeout_rreq of each node
  segments,     \* how many segments were sent
  wiped,        \* history: the nodes whose route table was wiped
  garbled       \* history: a packet became one of another type on its way

vars == <<pc, route_table, net_seqnum, queue, rx, rt_out, rreq_out, segments,
          wiped, garbled>>

Q == INSTANCE NetQueue
       WITH MaxPackets <- 0, pc <- "rx", q <- <<>>, tx_buffer <- 0, issued <- 0

Entry == [next_hop : Nat, dest_seq : Nat, hop_count : 0 .. UNKNOWN_NEXT_HOP]
Packet == [type : {"RREQ", "RREP", "DATA"}, ttl : 0 .. TtlMod - 1, src : Node,
           dest : Index, sender : Nat, seq : Nat, hops : 0 .. UNKNOWN_NEXT_HOP]
Queue == [queue : [Q!Slot -> Seq(Packet)], front : Q!Index, back : Q!Index]

Fresh == [next_hop |-> UNKNOWN_NEXT_HOP, dest_seq |-> 0, hop_count |-> UNKNOWN_NEXT_HOP]

Near(n) == {m \in Node : {n, m} \in Links}

-----------------------------------------------------------------------------
(* The queue.  Slots that are never read again are blank here. *)
Live(r) == IF Q!IsEmpty(r) THEN {} ELSE {r.front} \cup (r.front .. r.back)
Blank(r) == [r EXCEPT !.queue = [i \in Q!Slot |-> IF i \in Live(r) THEN @[i] ELSE <<>>]]

enqueue(r, p) == Blank(Q!enqueue(r, <<p>>))
dequeue(r) == Blank(Q!dequeue(r))

-----------------------------------------------------------------------------
(* Packets *)

rreq(n, dest, seq) ==
  [type |-> "RREQ", ttl |-> RREQ_TTL, src |-> n, dest |-> dest, sender |-> n,
   seq |-> seq, hops |-> 0]

rrep(n, dest, seq) ==
  [type |-> "RREP", ttl |-> RREP_TTL, src |-> n, dest |-> dest, sender |-> n,
   seq |-> seq, hops |-> 0]

data(n, dest, b) ==
  [type |-> "DATA", ttl |-> DEFAULT_TTL, src |-> n, dest |-> dest,
   sender |-> NET_ID, seq |-> b, hops |-> b]

(* Mutant: nothing borrowed from the type bits. *)
RelayedSigned(p) == [p EXCEPT !.type = "RREQ", !.ttl = @ - 1]

(* The control byte is cleared, so any packet passed on becomes a request; *)
(* a time to live of 0 borrows from the type bits, which makes it DATA.    *)
Relayed(p) ==
  [p EXCEPT !.type = IF p.ttl = 0 THEN "DATA" ELSE "RREQ",
            !.ttl  = (@ - 1) % TtlMod]

(* Mutant: the sender of a request passed on stays the one before. *)
RelayedRreqFrom(n, p) == Relayed(p)
RelayedRreq(n, p) == [Relayed(p) EXCEPT !.sender = n]

(* The next hop written, that of entry 2 of the table, lies where a request *)
(* has its number, and the checksum where it has its hops.                 *)
RelayedRrep(n, p, table, b) ==
  [Relayed(p) EXCEPT !.sender = n, !.seq = table[SRC_ADDRESS_BYTE].next_hop, !.hops = b]

-----------------------------------------------------------------------------
(* The handlers *)

(* A step of a node's turn, and the last one. *)
Goto(n, from, to) == pc = <<n, from>> /\ pc' = <<n, to>>
EndTurn(n) == pc[1] = n /\ pc[2] = "tx" /\ \E m \in Node : pc' = <<m, "rx">>

Receive(n, type) ==
  /\ Goto(n, "rx", "transport")
  /\ rx[n] # <<>> /\ rx[n][1].type = type
  /\ rx' = [rx EXCEPT ![n] = <<>>]
  /\ UNCHANGED <<rt_out, rreq_out, segments, wiped>>

NothingReceived(n) ==
  /\ Goto(n, "rx", "transport")
  /\ rx[n] = <<>>
  /\ UNCHANGED <<route_table, net_seqnum, queue, rx, rt_out, rreq_out, segments,
                 wiped, garbled>>

(* The route to the source of a request: newer, or, of the destination's    *)
(* entry, as new and with fewer hops.                                      *)
Learn(n, p) ==
  LET t == route_table[n]
  IN IF \/ t[p.src].dest_seq < p.seq
        \/ t[p.dest].dest_seq = p.seq /\ t[p.dest].hop_count > p.hops
       THEN [t EXCEPT ![p.src] = [next_hop |-> p.sender, dest_seq |-> p.seq,
                        hop_count |-> (p.hops + 1) % (UNKNOWN_NEXT_HOP + 1)]]
       ELSE t

(* The node is asked for, or knows a newer number of the one that is.      *)
Answers(n, p) == p.dest = n \/ Learn(n, p)[p.dest].dest_seq > p.seq

(* net_handle_rreq and send_rrep. *)
AnswerRreq(n) ==
  /\ Receive(n, "RREQ")
  /\ LET p == rx[n][1]
     IN /\ Answers(n, p)
        /\ net_seqnum[n] < MaxSeqnum
        /\ net_seqnum' = [net_seqnum EXCEPT ![n] = @ + 1]
        /\ route_table' = [route_table EXCEPT ![n] = Learn(n, p)]
        /\ queue' = [queue EXCEPT ![n] = enqueue(@, rrep(n, p.src, net_seqnum[n] + 1))]
  /\ UNCHANGED garbled

(* net_handle_rreq: a request is passed on whenever it is heard. *)
ForwardRreq(n) ==
  /\ Receive(n, "RREQ")
  /\ LET p == rx[n][1]
     IN /\ ~Answers(n, p)
        /\ route_table' = [route_table EXCEPT ![n] = Learn(n, p)]
        /\ queue' = [queue EXCEPT ![n] = enqueue(@, RelayedRreq(n, p))]
        /\ garbled' = (garbled \/ p.ttl = 0)
  /\ UNCHANGED net_seqnum

(* The route to the source of a reply. *)
LearnRrep(n, p) ==
  LET e == route_table[n][p.src]
  IN IF e.dest_seq < p.seq \/ (e.dest_seq = p.seq /\ e.hop_count > p.hops)
       THEN [route_table[n] EXCEPT ![p.src] =
               [next_hop |-> p.sender, dest_seq |-> p.seq, hop_count |-> p.hops]]
       ELSE route_table[n]

(* net_handle_rrep. *)
HandleRrep(n) ==
  /\ Receive(n, "RREP")
  /\ LET p == rx[n][1]
     IN /\ route_table' = [route_table EXCEPT ![n] = LearnRrep(n, p)]
        /\ \/ p.dest = n /\ UNCHANGED <<queue, garbled>>
           \/ /\ p.dest # n
              /\ \E b \in PayloadBytes :
                   queue' = [queue EXCEPT ![n] =
                               enqueue(@, RelayedRrep(n, p, LearnRrep(n, p), b))]
              /\ garbled' = TRUE
  /\ UNCHANGED net_seqnum

(* net_handle_data: the segment is for this node's transport layer, or     *)
(* passed on.                                                              *)
HandleData(n) ==
  /\ Receive(n, "DATA")
  /\ LET p == rx[n][1]
     IN \/ p.dest = n /\ UNCHANGED <<queue, garbled>>
        \/ /\ p.dest # n
           /\ queue' = [queue EXCEPT ![n] = enqueue(@, Relayed(p))]
           /\ garbled' = (garbled \/ p.ttl # 0)
  /\ UNCHANGED <<route_table, net_seqnum>>

(* net_transport_poll and send_data, if the transport layer has a segment. *)
TransportPoll(n) ==
  /\ Goto(n, "transport", "timeout")
  /\ \/ UNCHANGED <<queue, segments>>
     \/ /\ segments < MaxSegments
        /\ segments' = segments + 1
        /\ \E dest \in Destinations, b \in PayloadBytes :
             queue' = [queue EXCEPT ![n] = enqueue(@, data(n, dest, b))]
  /\ UNCHANGED <<route_table, net_seqnum, rx, rt_out, rreq_out, wiped, garbled>>

(* Mutant: the last entry is left out. *)
WipedTableShort(t) ==
  [i \in Index |-> IF i < DEFAULT_NETWORK_SIZE - 1 THEN Fresh ELSE t[i]]

(* Mutant: the sequence numbers are kept. *)
WipedTableKeepsSeq(t) ==
  [i \in Index |-> [t[i] EXCEPT !.next_hop = UNKNOWN_NEXT_HOP,
                                !.hop_count = UNKNOWN_NEXT_HOP]]

WipedTable(t) == [i \in Index |-> Fresh]

(* net_handle_timeout_rt.  Nothing arms the timer again. *)
TimeoutRt(n) ==
  /\ Goto(n, "timeout", "tx")
  /\ IF rt_out[n]
       THEN /\ route_table' = [route_table EXCEPT ![n] = WipedTable(@)]
            /\ wiped' = wiped \cup {n}
       ELSE UNCHANGED <<route_table, wiped>>
  /\ UNCHANGED <<net_seqnum, queue, rx, rt_out, rreq_out, segments, garbled>>

(* The packet net_tx_poll takes. *)
Oldest(n) == queue[n].queue[queue[n].front][1]

(* The data link layer is handed a packet: some of those it is for get it,  *)
(* none if the layer was busy (main.c:192).                                *)
Transmit(n, to) ==
  \E heard \in SUBSET {m \in Near(n) : rx[m] = <<>> /\ to \in {0, m}} :
    rx' = [m \in Node |-> IF m \in heard THEN <<Oldest(n)>> ELSE rx[m]]

NothingToSend(n) ==
  /\ EndTurn(n)
  /\ Q!IsEmpty(queue[n])
  /\ UNCHANGED <<route_table, net_seqnum, queue, rx, rt_out, rreq_out, segments,
                 wiped, garbled>>

(* net_handle_tx: requests are broadcast. *)
SendRreq(n) ==
  /\ EndTurn(n)
  /\ ~Q!IsEmpty(queue[n]) /\ Oldest(n).type = "RREQ"
  /\ Transmit(n, 0)
  /\ queue' = [queue EXCEPT ![n] = dequeue(@)]
  /\ rreq_out' = [rreq_out EXCEPT ![n] = FALSE]
  /\ UNCHANGED <<route_table, net_seqnum, rt_out, segments, wiped, garbled>>

NextHop(n) == route_table[n][Oldest(n).dest].next_hop

(* net_handle_tx: another packet goes to the next hop of its destination. *)
SendRouted(n) ==
  /\ EndTurn(n)
  /\ ~Q!IsEmpty(queue[n]) /\ Oldest(n).type # "RREQ"
  /\ NextHop(n) # UNKNOWN_NEXT_HOP
  /\ Transmit(n, NextHop(n))
  /\ queue' = [queue EXCEPT ![n] = dequeue(@)]
  /\ UNCHANGED <<route_table, net_seqnum, rt_out, rreq_out, segments, wiped, garbled>>

(* net_handle_tx: without a route the packet is queued again, behind a     *)
(* request (send_rreq) when the last one is long enough ago.               *)
NoRoute(n) ==
  /\ EndTurn(n)
  /\ ~Q!IsEmpty(queue[n]) /\ Oldest(n).type # "RREQ"
  /\ NextHop(n) = UNKNOWN_NEXT_HOP
  /\ LET p == Oldest(n)
         rest == dequeue(queue[n])
     IN IF rreq_out[n]
          THEN /\ net_seqnum[n] < MaxSeqnum
               /\ net_seqnum' = [net_seqnum EXCEPT ![n] = @ + 1]
               /\ queue' = [queue EXCEPT ![n] =
                    enqueue(enqueue(rest, rreq(n, p.dest, net_seqnum[n] + 1)), p)]
          ELSE /\ queue' = [queue EXCEPT ![n] = enqueue(rest, p)]
               /\ UNCHANGED net_seqnum
  /\ UNCHANGED <<route_table, rx, rt_out, rreq_out, segments, wiped, garbled>>

(* The timer interrupt: net_update_timer_rt, net_update_timer_rreq. *)
RtRunsOut(n) ==
  /\ n \in Expiring
  /\ rt_out' = [rt_out EXCEPT ![n] = TRUE]
  /\ UNCHANGED <<pc, route_table, net_seqnum, queue, rx, rreq_out, segments, wiped,
                 garbled>>

RreqRunsOut(n) ==
  /\ rreq_out' = [rreq_out EXCEPT ![n] = TRUE]
  /\ UNCHANGED <<pc, route_table, net_seqnum, queue, rx, rt_out, segments, wiped,
                 garbled>>

(* net_init.  Entry 0, for broadcasts, is the only one with a next hop.    *)
Init ==
  /\ pc \in Node \X {"rx"}
  /\ route_table = [n \in Node |-> [i \in Index |->
       IF i = 0 THEN [next_hop |-> 0, dest_seq |-> 0, hop_count |-> 0] ELSE Fresh]]
  /\ net_seqnum = [n \in Node |-> 0]
  /\ queue = [n \in Node |->
       [queue |-> [i \in Q!Slot |-> <<>>], front |-> -1, back |-> -1]]
  /\ rx = [n \in Node |-> <<>>]
  /\ rt_out = [n \in Node |-> FALSE]
  /\ rreq_out = [n \in Node |-> TRUE]
  /\ segments = 0
  /\ wiped = {}
  /\ garbled = FALSE

Turn(n) ==
  \/ NothingReceived(n) \/ AnswerRreq(n) \/ ForwardRreq(n) \/ HandleRrep(n)
  \/ HandleData(n) \/ TransportPoll(n) \/ TimeoutRt(n)
  \/ NothingToSend(n) \/ SendRreq(n) \/ SendRouted(n) \/ NoRoute(n)

Next == \E n \in Node : Turn(n) \/ RtRunsOut(n) \/ RreqRunsOut(n)

Spec == Init /\ [][Next]_vars

-----------------------------------------------------------------------------
(* Properties *)

TypeOK ==
  /\ pc \in Node \X {"rx", "transport", "timeout", "tx"}
  /\ route_table \in [Node -> [Index -> Entry]]
  /\ net_seqnum \in [Node -> 0 .. MaxSeqnum]
  /\ queue \in [Node -> Queue]
  /\ rx \in [Node -> Seq(Packet)]
  /\ rt_out \in [Node -> BOOLEAN] /\ rreq_out \in [Node -> BOOLEAN]
  /\ segments \in 0 .. MaxSegments
  /\ wiped \subseteq Node
  /\ garbled \in BOOLEAN

(* An entry without a next hop holds nothing that a request or reply could  *)
(* be compared with and lose (network.c:366, 404): the node stays able to   *)
(* learn the route, after the table was wiped (network.c:78) and whatever   *)
(* packets were garbled on their way.                                      *)
UnknownIsFresh ==
  \A n \in Node, i \in Index :
    route_table[n][i].next_hop = UNKNOWN_NEXT_HOP => route_table[n][i] = Fresh

(* Ten seconds after its start a node loses its routes for good, because    *)
(* the timer is not armed again (network.c:70): it sends nothing but        *)
(* requests, although it goes on learning and answering.                   *)
WipedSendsRequests ==
  [][\A n \in wiped : ~SendRouted(n)]_vars

(* What a node knows of the others is true as long as no packet was garbled *)
(* (network.c:387, 421, 457): next hops are neighbours, and nobody has a    *)
(* number of a node that this node has not used yet, which would make it   *)
(* deaf for that node's requests (network.c:366).                          *)
RoutesAreTrue ==
  ~garbled =>
    \A n, d \in Node :
      LET e == route_table[n][d]
      IN e.next_hop # UNKNOWN_NEXT_HOP =>
           /\ e.next_hop \in Near(n)
           /\ e.dest_seq <= net_seqnum[d]

=============================================================================
