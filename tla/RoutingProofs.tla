---------------------------- MODULE RoutingProofs ----------------------------
(***************************************************************************)
(* Proofs about Routing for any mesh, table, queue and bounds.  The        *)
(* invariant follows what a node knows from the packet it learned it from: *)
(* the packets in its queue, on their way and received.                    *)
(***************************************************************************)
EXTENDS Routing, TLAPS

(* The packets that a node may have in its queue, and those it may hear. *)
Own(n) ==
  {p \in Packet : /\ p.sender # UNKNOWN_NEXT_HOP
                  /\ ~garbled /\ p.type # "DATA" =>
                       p.sender = n /\ p.seq <= net_seqnum[p.src]}

Heard(n) ==
  {p \in Packet : /\ p.sender # UNKNOWN_NEXT_HOP
                  /\ ~garbled /\ p.type # "DATA" =>
                       p.sender \in Near(n) /\ p.seq <= net_seqnum[p.src]}

(* A queue whose live slots hold packets of S. *)
QueueOf(r, S) ==
  /\ r \in Queue
  /\ r.front = -1 => r.back = -1
  /\ \A i \in Live(r) : \E p \in S : r.queue[i] = <<p>>

(* A route table of node n, when its nodes use the numbers num. *)
TableOf(t, n, g, num) ==
  /\ t \in [Index -> Entry]
  /\ \A i \in Index : t[i].next_hop = UNKNOWN_NEXT_HOP => t[i] = Fresh
  /\ ~g => \A d \in Node :
       t[d].next_hop # UNKNOWN_NEXT_HOP =>
         t[d].next_hop \in Near(n) /\ t[d].dest_seq <= num[d]

QueuesInv == /\ queue \in [Node -> Queue]
             /\ \A n \in Node : QueueOf(queue[n], Own(n))
RxInv     == /\ rx \in [Node -> Seq(Packet)]
             /\ \A n \in Node : rx[n] = <<>> \/ \E p \in Heard(n) : rx[n] = <<p>>
TablesInv == /\ route_table \in [Node -> [Index -> Entry]]
             /\ \A n \in Node : TableOf(route_table[n], n, garbled, net_seqnum)

NumbersInv ==
  /\ net_seqnum \in [Node -> 0 .. MaxSeqnum]
  /\ segments \in 0 .. MaxSegments
  /\ garbled \in BOOLEAN

(* The timer that made a node wipe its table stays at 0, so the table is    *)
(* empty whenever the node sends.                                          *)
TimersInv ==
  /\ pc \in Node \X {"rx", "transport", "timeout", "tx"}
  /\ rt_out \in [Node -> BOOLEAN] /\ rreq_out \in [Node -> BOOLEAN]
  /\ wiped \subseteq Node
  /\ \A n \in wiped :
       /\ rt_out[n]
       /\ pc = <<n, "tx">> => \A i \in Index : route_table[n][i] = Fresh

Inv == QueuesInv /\ RxInv /\ TablesInv /\ NumbersInv /\ TimersInv

(* Numbers only grow, and a garbled packet is never forgotten. *)
Grows ==
  /\ net_seqnum' \in [Node -> 0 .. MaxSeqnum]
  /\ \A d \in Node : net_seqnum[d] <= net_seqnum'[d]
  /\ garbled => garbled'

LEMMA Constants ==
  /\ Index \subseteq Nat
  /\ Node \subseteq Index
  /\ UNKNOWN_NEXT_HOP \in Nat /\ UNKNOWN_NEXT_HOP \notin Index
  /\ \A n \in Node : n \in Nat /\ n # UNKNOWN_NEXT_HOP /\ n # 0
BY RoutingAssumption DEF Index

-----------------------------------------------------------------------------
(* The queue *)

LEMMA Record ==
  ASSUME NEW r \in Queue
  PROVE  /\ r = [queue |-> r.queue, front |-> r.front, back |-> r.back]
         /\ r.queue \in [Q!Slot -> Seq(Packet)]
         /\ r.front \in Q!Index /\ r.back \in Q!Index
BY DEF Queue

LEMMA QueueOfParts ==
  ASSUME NEW f \in [Q!Slot -> Seq(Packet)], NEW a \in Q!Index, NEW b \in Q!Index
  PROVE  [queue |-> f, front |-> a, back |-> b] \in Queue
BY DEF Queue

LEMMA BlankKeeps ==
  ASSUME NEW S \in SUBSET Packet, NEW r \in Queue, r.front = -1 => r.back = -1,
         \A i \in Live(r) : \E p \in S : r.queue[i] = <<p>>
  PROVE  QueueOf(Blank(r), S)
<1> DEFINE b == Blank(r)
           s == [i \in Q!Slot |-> IF i \in Live(r) THEN r.queue[i] ELSE <<>>]
<1>1. s \in [Q!Slot -> Seq(Packet)]
  BY DEF Queue
<1>2. b = [queue |-> s, front |-> r.front, back |-> r.back]
  <2> HIDE DEF s
  <2>1. b = [r EXCEPT !.queue = s]
    BY DEF Blank, s
  <2> QED
    BY <2>1, Record
<1> HIDE DEF b, s
<1>3. b \in Queue /\ b.queue = s /\ b.front = r.front /\ b.back = r.back
  BY <1>1, <1>2, Record, QueueOfParts
<1>4. Live(b) = Live(r)
  BY <1>3 DEF Live, Q!IsEmpty
<1>5. Live(r) \subseteq Q!Slot
  BY RoutingAssumption DEF Live, Queue, Q!IsEmpty, Q!Slot, Q!Index
<1> QED
  BY <1>3, <1>4, <1>5 DEF QueueOf, b, s

(* What is queued stays, but for overflows, and what leaves was queued. *)
LEMMA EnqueueHolds ==
  ASSUME NEW S \in SUBSET Packet, NEW r, QueueOf(r, S), NEW p \in S
  PROVE  QueueOf(enqueue(r, p), S)
<1> DEFINE e == Q!enqueue(r, <<p>>)
<1>1. /\ r \in Queue /\ r.queue \in [Q!Slot -> Seq(Packet)]
      /\ r.front \in Q!Index /\ r.back \in Q!Index
      /\ r.front = -1 => r.back = -1
      /\ \A i \in Live(r) : \E x \in S : r.queue[i] = <<x>>
  BY DEF QueueOf, Queue
<1>2. CASE r.back = QUEUE_MAX_SIZE - 1
  <2>1. e = [queue |-> r.queue, front |-> r.front, back |-> -1]
    <3>1. e = [r EXCEPT !.back = -1]
      BY <1>2 DEF Q!enqueue
    <3> QED
      BY <1>1, <3>1, Record
  <2>2. /\ e \in Queue /\ e.queue = r.queue /\ e.front = r.front /\ e.back = -1
    <3>1. -1 \in Q!Index
      BY RoutingAssumption DEF Q!Index
    <3> HIDE DEF e
    <3> QED
      BY <1>1, <2>1, <3>1, QueueOfParts
  <2>3. Live(e) \subseteq Live(r)
    BY <1>1, <2>2 DEF Live, Q!IsEmpty, Q!Index
  <2> QED
    BY <1>1, <2>2, <2>3, BlankKeeps DEF enqueue
<1>3. CASE r.back # QUEUE_MAX_SIZE - 1
  <2> DEFINE b == r.back + 1
             f == IF r.front = -1 THEN 0 ELSE r.front
  <2>1. e = [queue |-> [r.queue EXCEPT ![b] = <<p>>], front |-> f, back |-> b]
    BY <1>3 DEF Q!enqueue
  <2>2. b \in Q!Slot /\ b \in Q!Index /\ f \in Q!Index /\ f # -1
    <3>1. QUEUE_MAX_SIZE \in Nat \ {0}
      BY RoutingAssumption
    <3>2. r.front \in Q!Index /\ r.back \in Q!Index /\ r.back # QUEUE_MAX_SIZE - 1
      BY <1>1, <1>3
    <3> QED
      BY <3>1, <3>2 DEF Q!Slot, Q!Index
  <2>3. <<p>> \in Seq(Packet)
    OBVIOUS
  <2>4. [r.queue EXCEPT ![b] = <<p>>] \in [Q!Slot -> Seq(Packet)]
    BY <1>1, <2>2, <2>3
  <2>5. /\ e \in Queue /\ e.front = f /\ e.back = b
        /\ e.queue = [r.queue EXCEPT ![b] = <<p>>]
    <3> HIDE DEF e, b, f
    <3> QED
      BY <2>1, <2>2, <2>4, QueueOfParts
  <2>6. ASSUME NEW i \in Live(e)
        PROVE  \E x \in S : e.queue[i] = <<x>>
    <3>1. i \in Q!Slot /\ i \in {f} \cup (f .. b)
      BY <2>2, <2>5, RoutingAssumption DEF Live, Q!IsEmpty, Q!Slot, Q!Index
    <3>2. CASE i = b
      BY <1>1, <2>2, <2>5, <3>2
    <3>3. CASE i # b
      <4>1. i \in Live(r)
        BY <1>1, <2>2, <3>1, <3>3 DEF Live, Q!IsEmpty, Q!Index, Q!Slot
      <4>2. e.queue[i] = r.queue[i]
        BY <1>1, <2>5, <3>1, <3>3
      <4> QED
        BY <1>1, <4>1, <4>2
    <3> QED
      BY <3>2, <3>3
  <2> HIDE DEF e
  <2> QED
    BY <2>2, <2>5, <2>6, BlankKeeps DEF enqueue, e
<1> QED
  BY <1>2, <1>3

LEMMA DequeueHolds ==
  ASSUME NEW S \in SUBSET Packet, NEW r, QueueOf(r, S)
  PROVE  QueueOf(dequeue(r), S)
<1> DEFINE e == Q!dequeue(r)
<1>1. /\ r \in Queue /\ r.queue \in [Q!Slot -> Seq(Packet)]
      /\ r.front \in Q!Index /\ r.back \in Q!Index
      /\ r.front = -1 => r.back = -1
      /\ \A i \in Live(r) : \E x \in S : r.queue[i] = <<x>>
  BY DEF QueueOf, Queue
<1>2. CASE r.front + 1 > r.back
  <2>1. e \in Queue /\ e.front = -1 /\ e.back = -1
    <3>1. e = [r EXCEPT !.front = -1, !.back = -1]
      BY <1>2 DEF Q!dequeue
    <3>2. e = [queue |-> r.queue, front |-> -1, back |-> -1]
      BY <1>1, <3>1, Record
    <3>3. -1 \in Q!Index
      BY RoutingAssumption DEF Q!Index
    <3> HIDE DEF e
    <3> QED
      BY <1>1, <3>2, <3>3, QueueOfParts
  <2>2. Live(e) = {}
    BY <2>1 DEF Live, Q!IsEmpty
  <2> QED
    BY <2>1, <2>2, BlankKeeps DEF dequeue
<1>3. CASE ~(r.front + 1 > r.back)
  <2>1. /\ e \in Queue /\ e.queue = r.queue
        /\ e.front = r.front + 1 /\ e.back = r.back
    <3>1. e = [r EXCEPT !.front = r.front + 1]
      BY <1>3 DEF Q!dequeue
    <3>2. e = [queue |-> r.queue, front |-> r.front + 1, back |-> r.back]
      BY <1>1, <3>1, Record
    <3>3. r.front + 1 \in Q!Index
      BY <1>1, <1>3, RoutingAssumption DEF Q!Index
    <3> HIDE DEF e
    <3> QED
      BY <1>1, <3>2, <3>3, QueueOfParts
  <2>2. r.front # -1
    BY <1>1, <1>3
  <2>3. Live(e) \subseteq Live(r) /\ e.front # -1
    BY <1>1, <1>3, <2>1, <2>2 DEF Live, Q!IsEmpty, Q!Index
  <2> QED
    BY <1>1, <2>1, <2>3, BlankKeeps DEF dequeue
<1> QED
  BY <1>2, <1>3

LEMMA OldestHeld ==
  ASSUME NEW S \in SUBSET Packet, NEW n \in Node, QueueOf(queue[n], S),
         ~Q!IsEmpty(queue[n])
  PROVE  Oldest(n) \in S
<1>1. queue[n].front \in Live(queue[n])
  BY DEF Live
<1> QED
  BY <1>1 DEF QueueOf, Oldest

LEMMA HoldsMore ==
  ASSUME NEW S, NEW T, S \subseteq T, NEW r, QueueOf(r, S)
  PROVE  QueueOf(r, T)
BY DEF QueueOf

-----------------------------------------------------------------------------
(* What a step leaves alone stays true while numbers grow *)

LEMMA Same ==
  ASSUME Inv, UNCHANGED <<net_seqnum, garbled>>
  PROVE  Grows
BY DEF Inv, NumbersInv, Grows

LEMMA Marked ==
  ASSUME Inv, UNCHANGED net_seqnum, \/ UNCHANGED garbled
                                   \/ garbled' = TRUE
                                   \/ \E b \in BOOLEAN : garbled' = (garbled \/ b)
  PROVE  Grows /\ garbled' \in BOOLEAN
<1>1. \A d \in Node : net_seqnum[d] <= net_seqnum'[d]
  BY RoutingAssumption DEF Inv, NumbersInv
<1>2. (garbled => garbled') /\ garbled' \in BOOLEAN
  BY DEF Inv, NumbersInv
<1> QED
  BY <1>1, <1>2 DEF Inv, NumbersInv, Grows

LEMMA SetsGrow ==
  ASSUME Inv, Grows, NEW n \in Node
  PROVE  Own(n) \subseteq Own(n)' /\ Heard(n) \subseteq Heard(n)'
<1>1. ASSUME NEW p \in Packet, ~garbled', p.seq <= net_seqnum[p.src]
      PROVE  ~garbled /\ p.seq <= net_seqnum'[p.src]
  <2>1. p.src \in Node /\ p.seq \in Nat
    BY DEF Packet
  <2>2. net_seqnum[p.src] \in Nat /\ net_seqnum'[p.src] \in Nat
    BY <2>1, RoutingAssumption DEF Inv, NumbersInv, Grows
  <2> QED
    BY <1>1, <2>1, <2>2 DEF Grows
<1> QED
  BY <1>1 DEF Own, Heard, Near, Grows

LEMMA QueueStep ==
  ASSUME Inv, Grows, NEW n \in Node, NEW r, QueueOf(r, Own(n)'),
         queue' = [queue EXCEPT ![n] = r]
  PROVE  QueuesInv'
<1>1. r \in Queue
  BY DEF QueueOf
<1>2. ASSUME NEW k \in Node
      PROVE  QueueOf(queue'[k], Own(k)')
  <2>1. CASE k = n
    BY <2>1 DEF Inv, QueuesInv
  <2>2. CASE k # n
    <3>1. queue'[k] = queue[k]
      BY <2>2 DEF Inv, QueuesInv
    <3> QED
      BY <3>1, SetsGrow, HoldsMore DEF Inv, QueuesInv
  <2> QED
    BY <2>1, <2>2
<1> QED
  BY <1>1, <1>2 DEF Inv, QueuesInv, QueueOf, Live

LEMMA QueueSame ==
  ASSUME Inv, Grows, UNCHANGED queue
  PROVE  QueuesInv'
BY SetsGrow, HoldsMore DEF Inv, QueuesInv, QueueOf, Live

LEMMA RxSame ==
  ASSUME Inv, Grows, UNCHANGED rx
  PROVE  RxInv'
BY SetsGrow DEF Inv, RxInv

LEMMA RxTaken ==
  ASSUME Inv, Grows, NEW n \in Node, rx' = [rx EXCEPT ![n] = <<>>]
  PROVE  RxInv'
<1>1. rx' \in [Node -> Seq(Packet)]
  BY DEF Inv, RxInv
<1>2. ASSUME NEW k \in Node
      PROVE  rx'[k] = <<>> \/ \E p \in Heard(k)' : rx'[k] = <<p>>
  BY SetsGrow DEF Inv, RxInv
<1> QED
  BY <1>1, <1>2 DEF RxInv

LEMMA TableStep ==
  ASSUME Inv, Grows, NEW n \in Node, NEW t, TableOf(t, n, garbled', net_seqnum'),
         route_table' = [route_table EXCEPT ![n] = t]
  PROVE  TablesInv'
<1>1. t \in [Index -> Entry]
  BY DEF TableOf
<1>2. ASSUME NEW k \in Node
      PROVE  TableOf(route_table'[k], k, garbled', net_seqnum')
  <2>1. CASE k = n
    BY <2>1 DEF Inv, TablesInv, TableOf
  <2>2. CASE k # n
    <3>1. route_table'[k] = route_table[k]
      BY <2>2 DEF Inv, TablesInv
    <3>2. ASSUME NEW d \in Node
          PROVE  route_table[k][d].dest_seq <= net_seqnum[d]
                   => route_table[k][d].dest_seq <= net_seqnum'[d]
      <4>1. route_table[k][d].dest_seq \in Nat
        BY Constants DEF Inv, TablesInv, Entry
      <4>2. net_seqnum[d] \in Nat /\ net_seqnum'[d] \in Nat
        BY RoutingAssumption DEF Inv, NumbersInv, Grows
      <4> QED
        BY <4>1, <4>2 DEF Grows
    <3> QED
      BY <3>1, <3>2 DEF Inv, TablesInv, TableOf, Grows, Near
  <2> QED
    BY <2>1, <2>2
<1> QED
  BY <1>1, <1>2 DEF Inv, TablesInv

LEMMA TableSame ==
  ASSUME Inv, Grows, UNCHANGED route_table
  PROVE  TablesInv'
<1>1. ASSUME NEW k \in Node, NEW d \in Node
      PROVE  route_table[k][d].dest_seq <= net_seqnum[d]
               => route_table[k][d].dest_seq <= net_seqnum'[d]
  <2>1. route_table[k][d].dest_seq \in Nat
    BY Constants DEF Inv, TablesInv, Entry
  <2>2. net_seqnum[d] \in Nat /\ net_seqnum'[d] \in Nat
    BY RoutingAssumption DEF Inv, NumbersInv, Grows
  <2> QED
    BY <2>1, <2>2 DEF Grows
<1> QED
  BY <1>1 DEF Inv, TablesInv, TableOf, Grows, Near

LEMMA TimersMove ==
  ASSUME Inv, NEW n \in Node, NEW step \in {"rx", "transport", "timeout"},
         pc' = <<n, step>>, rreq_out' \in [Node -> BOOLEAN],
         UNCHANGED <<rt_out, wiped>>
  PROVE  TimersInv'
BY DEF Inv, TimersInv

-----------------------------------------------------------------------------
(* What the handlers write into tables and queues *)

LEMMA Received ==
  ASSUME Inv, NEW n \in Node, rx[n] # <<>>
  PROVE  rx[n][1] \in Heard(n) /\ rx[n][1] \in Packet
BY DEF Inv, RxInv, Heard

LEMMA PacketParts ==
  ASSUME NEW p \in Packet
  PROVE  /\ p.type \in {"RREQ", "RREP", "DATA"} /\ p.ttl \in 0 .. TtlMod - 1
         /\ p.src \in Node /\ p.src \in Index /\ p.dest \in Index
         /\ p.sender \in Nat /\ p.seq \in Nat /\ p.hops \in 0 .. UNKNOWN_NEXT_HOP
BY Constants DEF Packet

LEMMA TableKept ==
  ASSUME Inv, Grows, NEW n \in Node
  PROVE  TableOf(route_table[n], n, garbled', net_seqnum')
<1>1. ASSUME NEW d \in Node
      PROVE  route_table[n][d].dest_seq <= net_seqnum[d]
               => route_table[n][d].dest_seq <= net_seqnum'[d]
  <2>1. route_table[n][d].dest_seq \in Nat
    BY Constants DEF Inv, TablesInv, Entry
  <2>2. net_seqnum[d] \in Nat /\ net_seqnum'[d] \in Nat
    BY RoutingAssumption DEF Inv, NumbersInv, Grows
  <2> QED
    BY <2>1, <2>2 DEF Grows
<1> QED
  BY <1>1 DEF Inv, TablesInv, TableOf, Grows, Near

(* An entry made from a packet that the node heard. *)
LEMMA EntryStep ==
  ASSUME Inv, Grows, NEW n \in Node, NEW p \in Heard(n), p.type # "DATA",
         NEW h \in 0 .. UNKNOWN_NEXT_HOP
  PROVE  TableOf([route_table[n] EXCEPT ![p.src] =
                    [next_hop |-> p.sender, dest_seq |-> p.seq, hop_count |-> h]],
                 n, garbled', net_seqnum')
<1> DEFINE e == [next_hop |-> p.sender, dest_seq |-> p.seq, hop_count |-> h]
           t == route_table[n]
<1>1. p \in Packet /\ p \in Heard(n)'
  BY SetsGrow DEF Heard
<1>2. e \in Entry
  BY <1>1, PacketParts DEF Entry
<1>3. e.next_hop # UNKNOWN_NEXT_HOP
  BY DEF Heard
<1>4. ~garbled' => e.next_hop \in Near(n)' /\ e.dest_seq <= net_seqnum'[p.src]
  BY <1>1 DEF Heard
<1>5. TableOf(t, n, garbled', net_seqnum')
  BY TableKept
<1> HIDE DEF e, t
<1>6. p.src \in Index /\ t \in [Index -> Entry]
  BY <1>1, <1>5, PacketParts DEF TableOf
<1>7. [t EXCEPT ![p.src] = e] \in [Index -> Entry]
  BY <1>2, <1>6
<1>8. \A i \in Index : [t EXCEPT ![p.src] = e][i] = IF i = p.src THEN e ELSE t[i]
  BY <1>6
<1>9. TableOf([t EXCEPT ![p.src] = e], n, garbled', net_seqnum')
  BY <1>3, <1>4, <1>5, <1>7, <1>8, Constants DEF TableOf
<1> QED
  BY <1>9 DEF e, t

LEMMA LearnKeeps ==
  ASSUME Inv, Grows, NEW n \in Node, NEW p \in Heard(n), p.type # "DATA"
  PROVE  /\ TableOf(Learn(n, p), n, garbled', net_seqnum')
         /\ TableOf(LearnRrep(n, p), n, garbled', net_seqnum')
<1>1. p.hops \in 0 .. UNKNOWN_NEXT_HOP
  BY PacketParts DEF Heard
<1>2. (p.hops + 1) % (UNKNOWN_NEXT_HOP + 1) \in 0 .. UNKNOWN_NEXT_HOP
  BY <1>1, Constants
<1>3. TableOf(Learn(n, p), n, garbled', net_seqnum')
  BY <1>2, EntryStep, TableKept DEF Learn
<1>4. TableOf(LearnRrep(n, p), n, garbled', net_seqnum')
  BY <1>1, EntryStep, TableKept DEF LearnRrep
<1> QED
  BY <1>3, <1>4

LEMMA Made ==
  ASSUME Inv, Grows, NEW n \in Node, NEW dest \in Index
  PROVE  /\ rreq(n, dest, net_seqnum'[n]) \in Own(n)'
         /\ rrep(n, dest, net_seqnum'[n]) \in Own(n)'
         /\ \A b \in PayloadBytes : data(n, dest, b) \in Own(n)'
<1>1. net_seqnum'[n] \in Nat
  BY RoutingAssumption DEF Grows
<1>2. \A b \in PayloadBytes : b \in Nat /\ b \in 0 .. UNKNOWN_NEXT_HOP
  BY RoutingAssumption
<1>3. rreq(n, dest, net_seqnum'[n]) \in Own(n)'
  BY <1>1, Constants, RoutingAssumption DEF rreq, Own, Packet
<1>4. rrep(n, dest, net_seqnum'[n]) \in Own(n)'
  BY <1>1, Constants, RoutingAssumption DEF rrep, Own, Packet
<1>5. \A b \in PayloadBytes : data(n, dest, b) \in Own(n)'
  BY <1>2, Constants, RoutingAssumption DEF data, Own, Packet
<1> QED
  BY <1>3, <1>4, <1>5

LEMMA RelayedPacket ==
  ASSUME NEW p \in Packet
  PROVE  /\ Relayed(p) \in Packet /\ Relayed(p).sender = p.sender
         /\ Relayed(p).src = p.src /\ Relayed(p).seq = p.seq
         /\ Relayed(p).type = IF p.ttl = 0 THEN "DATA" ELSE "RREQ"
<1>1. p.ttl \in Int /\ (p.ttl - 1) % TtlMod \in 0 .. TtlMod - 1
  BY RoutingAssumption DEF Packet
<1> QED
  BY <1>1 DEF Packet, Relayed

(* What is passed on, with the mark of the step that garbles it. *)
LEMMA PassedOn ==
  ASSUME Inv, Grows, NEW n \in Node, NEW p \in Heard(n)
  PROVE  /\ p.type = "RREQ" /\ (p.ttl = 0 => garbled')
              => RelayedRreq(n, p) \in Own(n)'
         /\ p.type = "DATA" /\ (p.ttl # 0 => garbled')
              => Relayed(p) \in Own(n)'
         /\ \A b \in PayloadBytes, t \in [Index -> Entry] :
              garbled' => RelayedRrep(n, p, t, b) \in Own(n)'
<1>1. /\ p \in Packet /\ p.sender # UNKNOWN_NEXT_HOP
      /\ ~garbled' /\ p.type # "DATA" => p.seq <= net_seqnum'[p.src]
  BY SetsGrow DEF Heard
<1> DEFINE r == Relayed(p)
<1>2. /\ r \in Packet /\ r.sender = p.sender /\ r.src = p.src /\ r.seq = p.seq
      /\ r.type = IF p.ttl = 0 THEN "DATA" ELSE "RREQ"
  BY <1>1, RelayedPacket
<1>3. n \in Nat /\ n # UNKNOWN_NEXT_HOP
  BY Constants
<1> HIDE DEF r
<1>4. ASSUME p.type = "RREQ", p.ttl = 0 => garbled'
      PROVE  RelayedRreq(n, p) \in Own(n)'
  <2> DEFINE q == [r EXCEPT !.sender = n]
  <2>1. q \in Packet /\ q.sender = n /\ q.seq = r.seq /\ q.src = r.src
    BY <1>2, <1>3 DEF Packet
  <2>2. q \in Own(n)'
    <3> HIDE DEF q
    <3> QED
      BY <1>1, <1>2, <1>3, <1>4, <2>1 DEF Own
  <2> QED
    BY <2>2 DEF RelayedRreq, r
<1>5. ASSUME p.type = "DATA", p.ttl # 0 => garbled'
      PROVE  Relayed(p) \in Own(n)'
  <2>1. r \in Own(n)'
    BY <1>1, <1>2, <1>5 DEF Own
  <2> QED
    BY <2>1 DEF r
<1>6. ASSUME NEW b \in PayloadBytes, NEW t \in [Index -> Entry], garbled'
      PROVE  RelayedRrep(n, p, t, b) \in Own(n)'
  <2>1. t[SRC_ADDRESS_BYTE].next_hop \in Nat
    BY RoutingAssumption DEF Entry
  <2>2. b \in 0 .. UNKNOWN_NEXT_HOP
    BY RoutingAssumption
  <2> DEFINE q == [r EXCEPT !.sender = n, !.seq = t[SRC_ADDRESS_BYTE].next_hop,
                            !.hops = b]
  <2>3. q \in Packet /\ q.sender = n
    BY <1>2, <1>3, <2>1, <2>2 DEF Packet
  <2>4. q \in Own(n)'
    <3> HIDE DEF q
    <3> QED
      BY <1>3, <1>6, <2>3 DEF Own
  <2> QED
    BY <2>4 DEF RelayedRrep, r
<1> QED
  BY <1>4, <1>5, <1>6

-----------------------------------------------------------------------------
(* The initial states and the steps *)

LEMMA InitInv ==
  ASSUME Init
  PROVE  Inv
<1>1. QueuesInv
  <2> DEFINE r == [queue |-> [i \in Q!Slot |-> <<>>], front |-> -1, back |-> -1]
  <2>1. r \in Queue
    <3>1. -1 \in Q!Index
      BY RoutingAssumption DEF Q!Index
    <3>2. [i \in Q!Slot |-> <<>>] \in [Q!Slot -> Seq(Packet)]
      OBVIOUS
    <3> QED
      BY <3>1, <3>2, QueueOfParts
  <2>2. \A n \in Node : queue[n] = r
    BY DEF Init
  <2>3. r.front = -1 /\ r.back = -1 /\ Live(r) = {}
    BY DEF Live, Q!IsEmpty
  <2> QED
    BY <2>1, <2>2, <2>3 DEF QueuesInv, QueueOf, Init
<1>2. RxInv
  BY DEF Init, RxInv
<1>3. TablesInv
  <2> DEFINE t == [i \in Index |->
       IF i = 0 THEN [next_hop |-> 0, dest_seq |-> 0, hop_count |-> 0] ELSE Fresh]
  <2>1. t \in [Index -> Entry]
    BY Constants DEF Entry, Fresh
  <2>2. \A i \in Index : i # 0 => t[i] = Fresh
    OBVIOUS
  <2>3. 0 # UNKNOWN_NEXT_HOP
    BY RoutingAssumption DEF Index, SRC_ADDRESS_BYTE
  <2>4. \A n \in Node : route_table[n] = t
    BY DEF Init
  <2>5. \A i \in Index : t[i].next_hop = UNKNOWN_NEXT_HOP => t[i] = Fresh
    BY <2>2, <2>3
  <2>6. \A d \in Node : t[d].next_hop = UNKNOWN_NEXT_HOP
    BY <2>2, Constants DEF Fresh
  <2> HIDE DEF t
  <2>7. \A n \in Node : TableOf(t, n, garbled, net_seqnum)
    BY <2>1, <2>5, <2>6 DEF TableOf
  <2> QED
    BY <2>1, <2>4, <2>7 DEF TablesInv, Init
<1>4. NumbersInv
  <2>1. net_seqnum = [n \in Node |-> 0] /\ segments = 0 /\ garbled = FALSE
    BY DEF Init
  <2>2. 0 \in 0 .. MaxSeqnum /\ 0 \in 0 .. MaxSegments
    BY RoutingAssumption
  <2>3. net_seqnum \in [Node -> 0 .. MaxSeqnum] /\ segments \in 0 .. MaxSegments
    BY <2>1, <2>2
  <2> QED
    BY <2>1, <2>3 DEF NumbersInv
<1>5. TimersInv
  BY DEF Init, TimersInv
<1> QED
  BY <1>1, <1>2, <1>3, <1>4, <1>5 DEF Inv

LEMMA NothingReceivedStep ==
  ASSUME Inv, NEW n \in Node, NothingReceived(n)
  PROVE  Inv'
<1>1. Grows
  BY Same DEF NothingReceived
<1>2. QueuesInv' /\ RxInv' /\ TablesInv'
  BY <1>1, QueueSame, RxSame, TableSame DEF NothingReceived
<1>3. NumbersInv'
  BY DEF Inv, NumbersInv, NothingReceived
<1>4. TimersInv'
  BY TimersMove DEF NothingReceived, Goto, Inv, TimersInv
<1> QED
  BY <1>2, <1>3, <1>4 DEF Inv

LEMMA AnswerRreqStep ==
  ASSUME Inv, NEW n \in Node, AnswerRreq(n)
  PROVE  Inv'
<1> DEFINE p == rx[n][1]
<1>1. p \in Heard(n) /\ p.type = "RREQ" /\ p.src \in Node /\ p.src \in Index
  BY Received, PacketParts DEF AnswerRreq, Receive
<1>2. /\ net_seqnum[n] \in 0 .. MaxSeqnum /\ net_seqnum[n] + 1 \in 0 .. MaxSeqnum
      /\ net_seqnum' = [net_seqnum EXCEPT ![n] = net_seqnum[n] + 1]
  BY RoutingAssumption DEF Inv, NumbersInv, AnswerRreq
<1>3. net_seqnum'[n] = net_seqnum[n] + 1
  BY <1>2 DEF Inv, NumbersInv
<1>4. Grows
  <2>1. net_seqnum' \in [Node -> 0 .. MaxSeqnum]
    BY <1>2 DEF Inv, NumbersInv
  <2>2. ASSUME NEW d \in Node PROVE net_seqnum[d] <= net_seqnum'[d]
    BY <1>2, RoutingAssumption DEF Inv, NumbersInv
  <2> QED
    BY <2>1, <2>2 DEF Grows, AnswerRreq
<1>5. /\ route_table' = [route_table EXCEPT ![n] = Learn(n, p)]
      /\ queue' = [queue EXCEPT ![n] =
                     enqueue(queue[n], rrep(n, p.src, net_seqnum'[n]))]
      /\ rx' = [rx EXCEPT ![n] = <<>>]
  BY <1>3 DEF AnswerRreq, Receive
<1> HIDE DEF p
<1>6. QueuesInv'
  <2>1. rrep(n, p.src, net_seqnum'[n]) \in Own(n)'
    BY <1>1, <1>4, Made
  <2>2. QueueOf(queue[n], Own(n)')
    BY <1>4, SetsGrow, HoldsMore DEF Inv, QueuesInv
  <2>3. QueueOf(enqueue(queue[n], rrep(n, p.src, net_seqnum'[n])), Own(n)')
    BY <2>1, <2>2, EnqueueHolds DEF Own
  <2> QED
    BY <1>4, <1>5, <2>3, QueueStep
<1>7. RxInv'
  BY <1>4, <1>5, RxTaken
<1>8. TablesInv'
  BY <1>1, <1>4, <1>5, LearnKeeps, TableStep
<1>9. NumbersInv'
  BY <1>4 DEF Inv, NumbersInv, AnswerRreq, Receive, Grows
<1>10. TimersInv'
  BY TimersMove DEF AnswerRreq, Receive, Goto, Inv, TimersInv
<1> QED
  BY <1>6, <1>7, <1>8, <1>9, <1>10 DEF Inv

LEMMA ForwardRreqStep ==
  ASSUME Inv, NEW n \in Node, ForwardRreq(n)
  PROVE  Inv'
<1> DEFINE p == rx[n][1]
<1>1. p \in Heard(n) /\ p.type = "RREQ"
  BY Received DEF ForwardRreq, Receive
<1>2. Grows
  BY DEF Inv, NumbersInv, ForwardRreq, Grows
<1>3. /\ route_table' = [route_table EXCEPT ![n] = Learn(n, p)]
      /\ queue' = [queue EXCEPT ![n] = enqueue(queue[n], RelayedRreq(n, p))]
      /\ rx' = [rx EXCEPT ![n] = <<>>]
      /\ p.ttl = 0 => garbled'
      /\ garbled' \in BOOLEAN
  BY DEF ForwardRreq, Receive, Inv, NumbersInv
<1> HIDE DEF p
<1>4. QueuesInv'
  <2>1. RelayedRreq(n, p) \in Own(n)'
    BY <1>1, <1>2, <1>3, PassedOn
  <2>2. QueueOf(queue[n], Own(n)')
    BY <1>2, SetsGrow, HoldsMore DEF Inv, QueuesInv
  <2>3. QueueOf(enqueue(queue[n], RelayedRreq(n, p)), Own(n)')
    BY <2>1, <2>2, EnqueueHolds DEF Own
  <2> QED
    BY <1>2, <1>3, <2>3, QueueStep
<1>5. RxInv' /\ TablesInv'
  BY <1>1, <1>2, <1>3, RxTaken, LearnKeeps, TableStep
<1>6. NumbersInv'
  BY <1>3 DEF Inv, NumbersInv, ForwardRreq, Receive
<1>7. TimersInv'
  BY TimersMove DEF ForwardRreq, Receive, Goto, Inv, TimersInv
<1> QED
  BY <1>4, <1>5, <1>6, <1>7 DEF Inv

LEMMA HandleRrepStep ==
  ASSUME Inv, NEW n \in Node, HandleRrep(n)
  PROVE  Inv'
<1> DEFINE p == rx[n][1]
<1>1. p \in Heard(n) /\ p.type = "RREP"
  BY Received DEF HandleRrep, Receive
<1>2. Grows /\ garbled' \in BOOLEAN
  BY Same, Marked DEF HandleRrep
<1>3. /\ route_table' = [route_table EXCEPT ![n] = LearnRrep(n, p)]
      /\ rx' = [rx EXCEPT ![n] = <<>>]
      /\ \/ UNCHANGED queue
         \/ /\ garbled'
            /\ \E b \in PayloadBytes :
                 queue' = [queue EXCEPT ![n] =
                             enqueue(queue[n], RelayedRrep(n, p, LearnRrep(n, p), b))]
  BY DEF HandleRrep, Receive
<1> HIDE DEF p
<1>4. TableOf(LearnRrep(n, p), n, garbled', net_seqnum')
  BY <1>1, <1>2, LearnKeeps
<1>5. QueuesInv'
  <2>1. CASE UNCHANGED queue
    BY <1>2, <2>1, QueueSame
  <2>2. ASSUME garbled', NEW b \in PayloadBytes,
               queue' = [queue EXCEPT ![n] =
                           enqueue(queue[n], RelayedRrep(n, p, LearnRrep(n, p), b))]
        PROVE  QueuesInv'
    <3>1. RelayedRrep(n, p, LearnRrep(n, p), b) \in Own(n)'
      BY <1>1, <1>2, <1>4, <2>2, PassedOn DEF TableOf
    <3>2. QueueOf(queue[n], Own(n)')
      BY <1>2, SetsGrow, HoldsMore DEF Inv, QueuesInv
    <3>3. QueueOf(enqueue(queue[n], RelayedRrep(n, p, LearnRrep(n, p), b)), Own(n)')
      BY <3>1, <3>2, EnqueueHolds DEF Own
    <3> QED
      BY <1>2, <2>2, <3>3, QueueStep
  <2> QED
    BY <1>3, <2>1, <2>2
<1>6. RxInv' /\ TablesInv'
  BY <1>2, <1>3, <1>4, RxTaken, TableStep
<1>7. NumbersInv'
  BY <1>2 DEF Inv, NumbersInv, HandleRrep, Receive
<1>8. TimersInv'
  BY TimersMove DEF HandleRrep, Receive, Goto, Inv, TimersInv
<1> QED
  BY <1>5, <1>6, <1>7, <1>8 DEF Inv

LEMMA HandleDataStep ==
  ASSUME Inv, NEW n \in Node, HandleData(n)
  PROVE  Inv'
<1> DEFINE p == rx[n][1]
<1>1. p \in Heard(n) /\ p.type = "DATA"
  BY Received DEF HandleData, Receive
<1>2. Grows /\ garbled' \in BOOLEAN
  BY Same, Marked DEF HandleData
<1>3. /\ rx' = [rx EXCEPT ![n] = <<>>]
      /\ \/ UNCHANGED queue
         \/ /\ p.ttl # 0 => garbled'
            /\ queue' = [queue EXCEPT ![n] = enqueue(queue[n], Relayed(p))]
  BY DEF HandleData, Receive
<1> HIDE DEF p
<1>4. QueuesInv'
  <2>1. CASE UNCHANGED queue
    BY <1>2, <2>1, QueueSame
  <2>2. ASSUME p.ttl # 0 => garbled',
               queue' = [queue EXCEPT ![n] = enqueue(queue[n], Relayed(p))]
        PROVE  QueuesInv'
    <3>1. Relayed(p) \in Own(n)'
      BY <1>1, <1>2, <2>2, PassedOn
    <3>2. QueueOf(queue[n], Own(n)')
      BY <1>2, SetsGrow, HoldsMore DEF Inv, QueuesInv
    <3>3. QueueOf(enqueue(queue[n], Relayed(p)), Own(n)')
      BY <3>1, <3>2, EnqueueHolds DEF Own
    <3> QED
      BY <1>2, <2>2, <3>3, QueueStep
  <2> QED
    BY <1>3, <2>1, <2>2
<1>5. RxInv'
  BY <1>2, <1>3, RxTaken
<1>6. TablesInv'
  BY <1>2, TableSame DEF HandleData
<1>7. NumbersInv'
  BY <1>2 DEF Inv, NumbersInv, HandleData, Receive
<1>8. TimersInv'
  BY TimersMove DEF HandleData, Receive, Goto, Inv, TimersInv
<1> QED
  BY <1>4, <1>5, <1>6, <1>7, <1>8 DEF Inv

LEMMA TransportPollStep ==
  ASSUME Inv, NEW n \in Node, TransportPoll(n)
  PROVE  Inv'
<1>1. Grows
  BY Same DEF TransportPoll
<1>2. QueuesInv'
  <2>1. CASE UNCHANGED queue
    BY <1>1, <2>1, QueueSame
  <2>2. ASSUME NEW dest \in Destinations, NEW b \in PayloadBytes,
               queue' = [queue EXCEPT ![n] = enqueue(queue[n], data(n, dest, b))]
        PROVE  QueuesInv'
    <3>1. data(n, dest, b) \in Own(n)'
      BY <1>1, Made, RoutingAssumption
    <3>2. QueueOf(queue[n], Own(n)')
      BY <1>1, SetsGrow, HoldsMore DEF Inv, QueuesInv
    <3>3. QueueOf(enqueue(queue[n], data(n, dest, b)), Own(n)')
      BY <3>1, <3>2, EnqueueHolds DEF Own
    <3> QED
      BY <1>1, <2>2, <3>3, QueueStep
  <2> QED
    BY <2>1, <2>2 DEF TransportPoll
<1>3. RxInv' /\ TablesInv'
  BY <1>1, RxSame, TableSame DEF TransportPoll
<1>4. NumbersInv'
  BY RoutingAssumption DEF Inv, NumbersInv, TransportPoll
<1>5. TimersInv'
  BY TimersMove DEF TransportPoll, Goto, Inv, TimersInv
<1> QED
  BY <1>2, <1>3, <1>4, <1>5 DEF Inv

LEMMA TimeoutRtStep ==
  ASSUME Inv, NEW n \in Node, TimeoutRt(n)
  PROVE  Inv'
<1>1. Grows
  BY Same DEF TimeoutRt
<1>2. QueuesInv' /\ RxInv'
  BY <1>1, QueueSame, RxSame DEF TimeoutRt
<1> DEFINE t == [i \in Index |-> Fresh]
<1>3. t \in [Index -> Entry] /\ \A i \in Index : t[i] = Fresh
  BY Constants DEF Entry, Fresh
<1>4. \A d \in Node : t[d].next_hop = UNKNOWN_NEXT_HOP
  BY <1>3, Constants DEF Fresh
<1>5. /\ rt_out[n] => /\ route_table' = [route_table EXCEPT ![n] = t]
                      /\ wiped' = wiped \cup {n}
      /\ ~rt_out[n] => UNCHANGED <<route_table, wiped>>
  BY DEF TimeoutRt, WipedTable
<1> HIDE DEF t
<1>6. TablesInv'
  <2>1. TableOf(t, n, garbled', net_seqnum')
    BY <1>3, <1>4 DEF TableOf
  <2> QED
    BY <1>1, <1>5, <2>1, TableSame, TableStep
<1>7. NumbersInv'
  BY DEF Inv, NumbersInv, TimeoutRt
<1>8. TimersInv'
  <2>1. /\ pc' \in Node \X {"rx", "transport", "timeout", "tx"} /\ pc' = <<n, "tx">>
        /\ rt_out' = rt_out /\ rreq_out' = rreq_out /\ wiped' \subseteq Node
    BY <1>5 DEF TimeoutRt, Goto, Inv, TimersInv
  <2>2. ASSUME NEW k \in wiped'
        PROVE  /\ rt_out[k]
               /\ pc' = <<k, "tx">> => \A i \in Index : route_table'[k][i] = Fresh
    <3>1. rt_out[k]
      BY <1>5, <2>2 DEF Inv, TimersInv
    <3>2. ASSUME k = n PROVE \A i \in Index : route_table'[k][i] = Fresh
      BY <1>3, <1>5, <3>1, <3>2 DEF Inv, TablesInv
    <3> QED
      BY <2>1, <3>1, <3>2
  <2> QED
    BY <2>1, <2>2 DEF TimersInv, Inv
<1> QED
  BY <1>2, <1>6, <1>7, <1>8 DEF Inv

(* A node whose table is empty ends its turn. *)
LEMMA TurnEnds ==
  ASSUME Inv, NEW n \in Node, EndTurn(n), rreq_out' \in [Node -> BOOLEAN],
         UNCHANGED <<rt_out, wiped>>
  PROVE  TimersInv'
BY DEF EndTurn, Inv, TimersInv

(* What the neighbours may hear of what a node has queued. *)
LEMMA Transmitted ==
  ASSUME Inv, Grows, NEW n \in Node, NEW to, ~Q!IsEmpty(queue[n]), Transmit(n, to)
  PROVE  RxInv'
<1>1. Oldest(n) \in Own(n)' /\ Oldest(n) \in Packet
  BY OldestHeld, SetsGrow DEF Inv, QueuesInv, Own
<1> DEFINE p == Oldest(n)
<1>2. PICK heard \in SUBSET {m \in Near(n) : rx[m] = <<>> /\ to \in {0, m}} :
        rx' = [m \in Node |-> IF m \in heard THEN <<p>> ELSE rx[m]]
  BY DEF Transmit
<1> HIDE DEF p
<1>3. \A m \in heard : p \in Heard(m)'
  <2>1. \A m \in heard : m \in Node /\ n \in Near(m)'
    BY DEF Near
  <2> QED
    BY <1>1, <2>1 DEF Own, Heard, p
<1>4. rx' \in [Node -> Seq(Packet)]
  BY <1>1, <1>2 DEF Inv, RxInv, p
<1>5. ASSUME NEW m \in Node
      PROVE  rx'[m] = <<>> \/ \E x \in Heard(m)' : rx'[m] = <<x>>
  <2>1. CASE m \in heard
    BY <1>2, <1>3, <2>1
  <2>2. CASE m \notin heard
    <3>1. rx'[m] = rx[m]
      BY <1>2, <2>2
    <3> QED
      BY <3>1, SetsGrow DEF Inv, RxInv
  <2> QED
    BY <2>1, <2>2
<1> QED
  BY <1>4, <1>5 DEF RxInv

LEMMA Dequeued ==
  ASSUME Inv, Grows, NEW n \in Node
  PROVE  QueueOf(dequeue(queue[n]), Own(n)')
<1>1. QueueOf(queue[n], Own(n)') /\ Own(n)' \in SUBSET Packet
  BY SetsGrow, HoldsMore DEF Inv, QueuesInv, Own
<1> QED
  BY <1>1, DequeueHolds

LEMMA NothingToSendStep ==
  ASSUME Inv, NEW n \in Node, NothingToSend(n)
  PROVE  Inv'
<1>1. Grows
  BY Same DEF NothingToSend
<1>2. QueuesInv' /\ RxInv' /\ TablesInv'
  BY <1>1, QueueSame, RxSame, TableSame DEF NothingToSend
<1>3. NumbersInv'
  BY DEF Inv, NumbersInv, NothingToSend
<1>4. TimersInv'
  BY TurnEnds DEF NothingToSend, Inv, TimersInv
<1> QED
  BY <1>2, <1>3, <1>4 DEF Inv

LEMMA SendRreqStep ==
  ASSUME Inv, NEW n \in Node, SendRreq(n)
  PROVE  Inv'
<1>1. Grows
  BY Same DEF SendRreq
<1>2. QueuesInv'
  BY <1>1, Dequeued, QueueStep DEF SendRreq
<1>3. RxInv' /\ TablesInv'
  BY <1>1, Transmitted, TableSame DEF SendRreq
<1>4. NumbersInv'
  BY DEF Inv, NumbersInv, SendRreq
<1>5. TimersInv'
  BY TurnEnds DEF SendRreq, Inv, TimersInv
<1> QED
  BY <1>2, <1>3, <1>4, <1>5 DEF Inv

LEMMA SendRoutedStep ==
  ASSUME Inv, NEW n \in Node, SendRouted(n)
  PROVE  Inv'
<1>1. Grows
  BY Same DEF SendRouted
<1>2. QueuesInv'
  BY <1>1, Dequeued, QueueStep DEF SendRouted
<1>3. RxInv' /\ TablesInv'
  BY <1>1, Transmitted, TableSame DEF SendRouted
<1>4. NumbersInv'
  BY DEF Inv, NumbersInv, SendRouted
<1>5. TimersInv'
  BY TurnEnds DEF SendRouted, Inv, TimersInv
<1> QED
  BY <1>2, <1>3, <1>4, <1>5 DEF Inv

LEMMA NoRouteStep ==
  ASSUME Inv, NEW n \in Node, NoRoute(n)
  PROVE  Inv'
<1> DEFINE p == Oldest(n)
           num == net_seqnum[n] + 1
<1>1. CASE rreq_out[n]
  <2>1. /\ net_seqnum[n] < MaxSeqnum
        /\ net_seqnum' = [net_seqnum EXCEPT ![n] = num]
        /\ queue' = [queue EXCEPT ![n] =
             enqueue(enqueue(dequeue(queue[n]), rreq(n, p.dest, num)), p)]
    BY <1>1 DEF NoRoute
  <2> HIDE DEF p
  <2>2. net_seqnum'[n] = num /\ num \in 0 .. MaxSeqnum
    BY <2>1, RoutingAssumption DEF Inv, NumbersInv
  <2>3. Grows
    <3>1. net_seqnum' \in [Node -> 0 .. MaxSeqnum]
      BY <2>1, <2>2 DEF Inv, NumbersInv
    <3>2. ASSUME NEW d \in Node PROVE net_seqnum[d] <= net_seqnum'[d]
      BY <2>1, RoutingAssumption DEF Inv, NumbersInv
    <3> QED
      BY <3>1, <3>2 DEF Grows, NoRoute
  <2>4. p \in Own(n)' /\ p.dest \in Index
    <3>1. p \in Own(n) /\ p \in Packet
      BY OldestHeld DEF NoRoute, Inv, QueuesInv, Own, p
    <3> QED
      BY <2>3, <3>1, SetsGrow, PacketParts
  <2>5. rreq(n, p.dest, num) \in Own(n)'
    BY <2>2, <2>3, <2>4, Made
  <2> HIDE DEF num
  <2>6. QueuesInv'
    <3>1. Own(n)' \in SUBSET Packet
      BY DEF Own
    <3>2. QueueOf(dequeue(queue[n]), Own(n)')
      BY <2>3, Dequeued
    <3>3. QueueOf(enqueue(dequeue(queue[n]), rreq(n, p.dest, num)), Own(n)')
      BY <2>5, <3>1, <3>2, EnqueueHolds
    <3>4. QueueOf(enqueue(enqueue(dequeue(queue[n]), rreq(n, p.dest, num)), p),
                  Own(n)')
      BY <2>4, <3>1, <3>3, EnqueueHolds
    <3> QED
      BY <2>1, <2>3, <3>4, QueueStep
  <2>7. RxInv' /\ TablesInv'
    BY <2>3, RxSame, TableSame DEF NoRoute
  <2>8. NumbersInv'
    BY <2>3 DEF Inv, NumbersInv, NoRoute, Grows
  <2>9. TimersInv'
    BY TurnEnds DEF NoRoute, Inv, TimersInv
  <2> QED
    BY <2>6, <2>7, <2>8, <2>9 DEF Inv
<1>2. CASE ~rreq_out[n]
  <2>1. /\ UNCHANGED net_seqnum
        /\ queue' = [queue EXCEPT ![n] = enqueue(dequeue(queue[n]), p)]
    BY <1>2 DEF NoRoute
  <2> HIDE DEF p
  <2>2. Grows
    BY <2>1, Same DEF NoRoute
  <2>3. p \in Own(n)'
    BY <2>2, OldestHeld, SetsGrow DEF NoRoute, Inv, QueuesInv, Own, p
  <2>4. QueuesInv'
    <3>1. Own(n)' \in SUBSET Packet
      BY DEF Own
    <3>2. QueueOf(enqueue(dequeue(queue[n]), p), Own(n)')
      BY <2>2, <2>3, <3>1, Dequeued, EnqueueHolds
    <3> QED
      BY <2>1, <2>2, <3>2, QueueStep
  <2>5. RxInv' /\ TablesInv'
    BY <2>2, RxSame, TableSame DEF NoRoute
  <2>6. NumbersInv'
    BY <2>1 DEF Inv, NumbersInv, NoRoute
  <2>7. TimersInv'
    BY TurnEnds DEF NoRoute, Inv, TimersInv
  <2> QED
    BY <2>4, <2>5, <2>6, <2>7 DEF Inv
<1> QED
  BY <1>1, <1>2 DEF Inv, TimersInv

LEMMA RtRunsOutStep ==
  ASSUME Inv, NEW n \in Node, RtRunsOut(n)
  PROVE  Inv'
<1>1. Grows
  BY Same DEF RtRunsOut
<1>2. QueuesInv' /\ RxInv' /\ TablesInv'
  BY <1>1, QueueSame, RxSame, TableSame DEF RtRunsOut
<1>3. NumbersInv'
  BY DEF Inv, NumbersInv, RtRunsOut
<1>4. TimersInv'
  BY DEF RtRunsOut, Inv, TimersInv
<1> QED
  BY <1>2, <1>3, <1>4 DEF Inv

LEMMA RreqRunsOutStep ==
  ASSUME Inv, NEW n \in Node, RreqRunsOut(n)
  PROVE  Inv'
<1>1. Grows
  BY Same DEF RreqRunsOut
<1>2. QueuesInv' /\ RxInv' /\ TablesInv'
  BY <1>1, QueueSame, RxSame, TableSame DEF RreqRunsOut
<1>3. NumbersInv'
  BY DEF Inv, NumbersInv, RreqRunsOut
<1>4. TimersInv'
  BY DEF RreqRunsOut, Inv, TimersInv
<1> QED
  BY <1>2, <1>3, <1>4 DEF Inv

LEMMA Stutter ==
  ASSUME Inv, UNCHANGED vars
  PROVE  Inv'
<1>1. Grows
  BY Same DEF vars
<1>2. QueuesInv' /\ RxInv' /\ TablesInv'
  BY <1>1, QueueSame, RxSame, TableSame DEF vars
<1>3. NumbersInv' /\ TimersInv'
  BY DEF Inv, NumbersInv, TimersInv, vars
<1> QED
  BY <1>2, <1>3 DEF Inv

LEMMA NextInv ==
  ASSUME Inv, [Next]_vars
  PROVE  Inv'
<1>1. ASSUME NEW n \in Node, Turn(n)
      PROVE  Inv'
  BY <1>1, NothingReceivedStep, AnswerRreqStep, ForwardRreqStep, HandleRrepStep,
     HandleDataStep, TransportPollStep, TimeoutRtStep, NothingToSendStep,
     SendRreqStep, SendRoutedStep, NoRouteStep DEF Turn
<1> QED
  BY <1>1, RtRunsOutStep, RreqRunsOutStep, Stutter DEF Next

-----------------------------------------------------------------------------
(* Theorems *)

(* The packets a node queues and hears say nothing of another node that it  *)
(* has not told, and its tables nothing that a packet did not (network.c,   *)
(* all handlers), as long as no packet was garbled on its way.             *)
THEOREM Invariance == Spec => []Inv
BY InitInv, NextInv, PTL DEF Spec

(* The type invariant: queues, tables, counters and packets keep their      *)
(* ranges, whatever packets are garbled, lost or overwritten.              *)
THEOREM TypeCorrect == Spec => []TypeOK
<1>1. Inv => TypeOK
  BY DEF Inv, QueuesInv, RxInv, TablesInv, NumbersInv, TimersInv, TypeOK
<1> QED
  BY <1>1, Invariance, PTL

(* A route that is not known has no number and no hops to lose against      *)
(* (network.c:78, 366, 404), on every mesh.                                *)
THEOREM UnknownFresh == Spec => []UnknownIsFresh
<1>1. Inv => UnknownIsFresh
  BY DEF Inv, TablesInv, TableOf, UnknownIsFresh
<1> QED
  BY <1>1, Invariance, PTL

(* Next hops are neighbours and nobody is believed to have used a number it *)
(* has not (network.c:366, 404), on every mesh, until a packet is passed on *)
(* as another type (network.c:387, 421, 457).                              *)
THEOREM RoutesTrue == Spec => []RoutesAreTrue
<1>1. Inv => RoutesAreTrue
  BY DEF Inv, TablesInv, TableOf, RoutesAreTrue
<1> QED
  BY <1>1, Invariance, PTL

(* A node whose route table timer ran out sends nothing by a route again:   *)
(* the timer is never armed again (network.c:70-88), so the table is empty  *)
(* each time the node sends, whatever it learned in its turn.              *)
THEOREM WipedNeverRoutes == Spec => WipedSendsRequests
<1>1. ASSUME Inv, NEW n \in wiped
      PROVE  ~SendRouted(n)
  <2>1. ASSUME SendRouted(n)
        PROVE  FALSE
    <3>1. n \in Node /\ pc = <<n, "tx">>
      BY <1>1, <2>1 DEF SendRouted, EndTurn, Inv, TimersInv
    <3>2. Oldest(n) \in Packet
      BY <1>1, <2>1, <3>1, OldestHeld DEF SendRouted, Inv, QueuesInv, Own
    <3>3. Oldest(n).dest \in Index
      BY <3>2, PacketParts
    <3>4. route_table[n][Oldest(n).dest] = Fresh
      BY <1>1, <3>1, <3>3 DEF Inv, TimersInv
    <3> QED
      BY <2>1, <3>4 DEF SendRouted, NextHop, Fresh
  <2> QED
    BY <2>1
<1>2. Inv /\ [Next]_vars => [\A n \in wiped : ~SendRouted(n)]_vars
  BY <1>1
<1> QED
  BY <1>2, Invariance, PTL DEF Spec, WipedSendsRequests

=============================================================================
