---------------------------- MODULE NetQueueProofs ----------------------------
(***************************************************************************)
(* Proofs about NetQueue for a queue of any size.  The invariant says that *)
(* what lies between front and back is in order and newer than what was    *)
(* taken; the packet at front is, even when back has started again.        *)
(***************************************************************************)
EXTENDS NetQueue, TLAPS

(* A queue after `n' calls of enqueue, when packet `t' was taken last. *)
InOrder(r, n, t) ==
  /\ r \in Queue
  /\ n \in Nat /\ t \in 0 .. n
  /\ \A i \in Slot : r.queue[i] <= n
  /\ r.front = -1 => r.back = -1
  /\ r.front # -1 => t < r.queue[r.front]
  /\ \A i, j \in Slot :
       r.front <= i /\ i < j /\ j <= r.back => r.queue[i] < r.queue[j]

Inv == TypeOK /\ InOrder(q, issued, tx_buffer)

(* The packet at front is the oldest of those pending. *)
LEMMA FrontIsOldest ==
  ASSUME NEW r, NEW n, NEW t, InOrder(r, n, t), ~IsEmpty(r)
  PROVE  /\ r.queue[r.front] \in Pending(r)
         /\ r.queue[r.front] \in 1 .. n
         /\ \A p \in Pending(r) : r.queue[r.front] <= p
<1>1. /\ r.front \in Slot
      /\ r.queue \in [Slot -> Nat]
  BY QueueAssumption DEF InOrder, IsEmpty, Queue, Slot, Index
<1>2. r.queue[r.front] \in 1 .. n
  BY <1>1 DEF InOrder, IsEmpty
<1>3. ASSUME NEW i \in {r.front} \cup (r.front .. r.back)
      PROVE  r.queue[r.front] <= r.queue[i]
  <2>1. CASE i = r.front
    BY <1>1, <2>1
  <2>2. CASE i # r.front
    <3>1. i \in Slot /\ r.front < i /\ i <= r.back
      BY <1>1, <1>3, <2>2, QueueAssumption DEF InOrder, Queue, Slot, Index
    <3>2. r.queue[r.front] < r.queue[i]
      BY <1>1, <3>1 DEF InOrder, Slot
    <3> QED
      BY <1>1, <3>1, <3>2
  <2> QED
    BY <2>1, <2>2
<1> QED
  BY <1>2, <1>3 DEF Pending, IsEmpty

(* enqueue keeps the order, and adds no packet but the new one. *)
LEMMA EnqueueKeeps ==
  ASSUME NEW r, NEW n, NEW t, InOrder(r, n, t)
  PROVE  /\ InOrder(enqueue(r, n + 1), n + 1, t)
         /\ Pending(enqueue(r, n + 1)) \subseteq Pending(r) \cup {n + 1}
<1> DEFINE e == enqueue(r, n + 1)
<1>0. /\ r \in Queue /\ r.queue \in [Slot -> Nat]
      /\ r.front \in Index /\ r.back \in Index
      /\ n \in Nat /\ t \in 0 .. n
  BY DEF InOrder, Queue
<1>A. n + 1 \in Nat /\ \A i \in Slot : r.queue[i] <= n /\ r.queue[i] \in Nat
  BY <1>0 DEF InOrder
<1>1. CASE r.back = QUEUE_MAX_SIZE - 1
  <2>1. e = [r EXCEPT !.back = -1]
    BY <1>1 DEF enqueue
  <2>2. /\ e.queue = r.queue /\ e.front = r.front /\ e.back = -1
        /\ e \in Queue
    BY <1>0, <2>1, QueueAssumption DEF Queue, Index
  <2> HIDE DEF e
  <2>3. r.front # -1
    BY <1>0, <1>1, QueueAssumption DEF InOrder, Index
  <2>4. InOrder(e, n + 1, t)
    <3>1. \A i \in Slot : e.queue[i] <= n + 1
      BY <1>0, <1>A, <2>2
    <3>2. \A i, j \in Slot : ~(e.front <= i /\ i < j /\ j <= e.back)
      BY <2>2 DEF Slot
    <3>3. n + 1 \in Nat /\ t \in 0 .. n + 1
      BY <1>0
    <3>4. e.front # -1 /\ t < e.queue[e.front]
      BY <2>2, <2>3 DEF InOrder
    <3> QED
      BY <2>2, <3>1, <3>2, <3>3, <3>4 DEF InOrder
  <2>5. Pending(e) \subseteq Pending(r)
    BY <2>2, <2>3, <1>0 DEF Pending, IsEmpty, Index
  <2> QED
    BY <2>4, <2>5 DEF e
<1>2. CASE r.back # QUEUE_MAX_SIZE - 1
  <2> DEFINE b == r.back + 1
             f == IF r.front = -1 THEN 0 ELSE r.front
  <2>1. e = [queue |-> [r.queue EXCEPT ![b] = n + 1], front |-> f, back |-> b]
    BY <1>2 DEF enqueue
  <2>2. /\ b \in Slot /\ f \in Slot /\ b \in Index /\ f \in Index
    <3>1. b \in Slot
      BY <1>0, <1>2, QueueAssumption DEF Slot, Index
    <3>2. f \in Slot
      BY <1>0, QueueAssumption DEF Slot, Index
    <3>3. Slot \subseteq Index
      BY DEF Slot, Index
    <3> QED
      BY <3>1, <3>2, <3>3
  <2>3. /\ e.front = f /\ e.back = b
        /\ e.queue = [r.queue EXCEPT ![b] = n + 1]
        /\ e.queue \in [Slot -> Nat]
        /\ e \in Queue
    <3> HIDE DEF e, f, b
    <3>1. [r.queue EXCEPT ![b] = n + 1] \in [Slot -> Nat]
      BY <1>0, <1>A
    <3> QED
      BY <2>1, <2>2, <3>1 DEF Queue
  <2>4. /\ e.queue[b] = n + 1
        /\ \A i \in Slot : i # b => e.queue[i] = r.queue[i]
    BY <1>0, <2>2, <2>3
  <2>5. r.front = -1 => b = 0 /\ f = 0
    BY DEF InOrder
  <2>6. r.front # -1 => f = r.front
    OBVIOUS
  <2> HIDE DEF e, f
  <2>8. InOrder(e, n + 1, t)
    <3>1. \A i \in Slot : e.queue[i] <= n + 1
      BY <1>0, <1>A, <2>4
    <3>2. t < e.queue[f]
      <4>1. CASE f = b
        BY <1>0, <2>4, <4>1
      <4>2. CASE f # b
        BY <2>2, <2>4, <2>5, <2>6, <4>2 DEF InOrder
      <4> QED
        BY <4>1, <4>2
    <3>3. ASSUME NEW i \in Slot, NEW j \in Slot, f <= i, i < j, j <= b
          PROVE  e.queue[i] < e.queue[j]
      <4>1. i # b /\ i <= r.back /\ e.queue[i] = r.queue[i]
        BY <1>0, <2>2, <2>4, <3>3 DEF Slot, Index
      <4>2. CASE j = b
        BY <1>0, <2>4, <1>A, <4>1, <4>2
      <4>3. CASE j # b
        <5>1. r.front # -1 /\ j <= r.back
          BY <1>0, <2>2, <2>5, <3>3, <4>3 DEF Slot, Index
        <5> QED
          BY <2>4, <2>6, <3>3, <4>1, <4>3, <5>1 DEF InOrder
      <4> QED
        BY <4>2, <4>3
    <3> QED
      BY <1>0, <2>2, <2>3, <3>1, <3>2, <3>3 DEF InOrder, Slot
  <2>9. ASSUME NEW i \in {f} \cup (f .. b)
        PROVE  e.queue[i] \in Pending(r) \cup {n + 1}
    <3>1. CASE i = b
      BY <2>4, <3>1
    <3>2. CASE i # b
      <4>0. f \in Int /\ b \in Int /\ b = r.back + 1 /\ r.back \in Int
        BY <1>0, <2>2 DEF Slot, Index
      <4>1. i \in Slot /\ i \in {f} \cup (f .. r.back)
        <5>1. CASE i = f
          BY <2>2, <5>1
        <5>2. CASE i \in f .. b
          <6>1. i \in Int /\ f <= i /\ i <= r.back
            BY <3>2, <4>0, <5>2
          <6>2. 0 <= f /\ b <= QUEUE_MAX_SIZE - 1
            BY <2>2 DEF Slot
          <6> QED
            BY <4>0, <6>1, <6>2, QueueAssumption DEF Slot
        <5> QED
          BY <2>9, <5>1, <5>2
      <4>2. r.front # -1
        BY <2>5, <2>9, <3>2
      <4> QED
        BY <2>4, <2>6, <3>2, <4>1, <4>2 DEF Pending, IsEmpty
    <3> QED
      BY <3>1, <3>2
  <2>10. Pending(e) \subseteq Pending(r) \cup {n + 1}
    <3>1. Pending(e) \subseteq {e.queue[i] : i \in {f} \cup (f .. b)}
      BY <2>3 DEF Pending
    <3> QED
      BY <2>9, <3>1
  <2> QED
    BY <2>8, <2>10 DEF e
<1> QED
  BY <1>1, <1>2

(* dequeue takes the packet at front out of those pending, and no other in. *)
LEMMA DequeueKeeps ==
  ASSUME NEW r, NEW n, NEW t, InOrder(r, n, t), ~IsEmpty(r)
  PROVE  /\ InOrder(dequeue(r), n, r.queue[r.front])
         /\ Pending(dequeue(r)) \subseteq Pending(r) \ {r.queue[r.front]}
<1> DEFINE d == dequeue(r)
<1>0. /\ r \in Queue /\ r.queue \in [Slot -> Nat]
      /\ r.front \in Slot /\ r.back \in Index /\ n \in Nat
  BY QueueAssumption DEF InOrder, Queue, IsEmpty, Slot, Index
<1>1. r.queue[r.front] \in 0 .. n
  BY FrontIsOldest
<1>2. CASE r.front + 1 > r.back
  <2>1. d = [r EXCEPT !.front = -1, !.back = -1]
    BY <1>2 DEF dequeue
  <2>2. d.queue = r.queue /\ d.front = -1 /\ d.back = -1 /\ d \in Queue
    <3> HIDE DEF d
    <3>1. -1 \in Index
      BY QueueAssumption DEF Index
    <3> QED
      BY <1>0, <2>1, <3>1 DEF Queue
  <2> HIDE DEF d
  <2>3. InOrder(d, n, r.queue[r.front])
    <3>1. \A i, j \in Slot : ~(d.front <= i /\ i < j /\ j <= d.back)
      BY <2>2 DEF Slot
    <3>2. \A i \in Slot : d.queue[i] <= n
      BY <2>2 DEF InOrder
    <3> QED
      BY <1>0, <1>1, <2>2, <3>1, <3>2 DEF InOrder
  <2>4. Pending(d) = {}
    BY <2>2 DEF Pending, IsEmpty
  <2> QED
    BY <2>3, <2>4 DEF d
<1>3. CASE ~(r.front + 1 > r.back)
  <2>1. d = [r EXCEPT !.front = @ + 1]
    BY <1>3 DEF dequeue
  <2>2. r.front + 1 \in Slot /\ r.front + 1 <= r.back /\ r.front + 1 \in Index
    BY <1>0, <1>3, QueueAssumption DEF Slot, Index
  <2>3. /\ d.queue = r.queue /\ d.front = r.front + 1 /\ d.back = r.back
        /\ d \in Queue
    BY <1>0, <2>1, <2>2 DEF Queue
  <2> HIDE DEF d
  <2>4. \A i \in Slot : r.front < i /\ i <= r.back
                          => r.queue[r.front] < r.queue[i]
    BY <1>0 DEF InOrder, Slot
  <2>5. InOrder(d, n, r.queue[r.front])
    <3>1. \A i, j \in Slot : d.front <= i /\ i < j /\ j <= d.back
                               => d.queue[i] < d.queue[j]
      BY <1>0, <2>3 DEF InOrder, Slot
    <3>2. d.front # -1 /\ r.queue[r.front] < d.queue[d.front]
      BY <1>0, <2>2, <2>3, <2>4 DEF Slot
    <3>3. \A i \in Slot : d.queue[i] <= n
      BY <2>3 DEF InOrder
    <3> QED
      BY <1>0, <1>1, <2>3, <3>1, <3>2, <3>3 DEF InOrder
  <2>6. ASSUME NEW i \in {d.front} \cup (d.front .. d.back)
        PROVE  /\ d.queue[i] \in Pending(r)
               /\ d.queue[i] # r.queue[r.front]
    <3>0. /\ r.front \in Int /\ r.back \in Int
          /\ 0 <= r.front /\ r.back <= QUEUE_MAX_SIZE - 1
      BY <1>0, QueueAssumption DEF Slot, Index
    <3>1. i \in Slot /\ r.front < i /\ i <= r.back
      <4>1. i \in Int /\ r.front + 1 <= i /\ i <= r.back
        BY <2>2, <2>3, <2>6, <3>0
      <4> QED
        BY <3>0, <4>1, QueueAssumption DEF Slot
    <3>2. i \in {r.front} \cup (r.front .. r.back)
      BY <3>0, <3>1 DEF Slot
    <3>3. r.queue[r.front] < r.queue[i]
      BY <2>4, <3>1
    <3>4. r.queue[i] \in Pending(r)
      BY <3>2 DEF Pending, IsEmpty
    <3>5. r.queue[i] \in Nat /\ r.queue[r.front] \in Nat
      BY <1>0, <3>1
    <3> QED
      BY <2>3, <3>3, <3>4, <3>5
  <2>7. Pending(d) \subseteq Pending(r) \ {r.queue[r.front]}
    <3>1. Pending(d) \subseteq {d.queue[i] : i \in {d.front} \cup (d.front .. d.back)}
      BY DEF Pending
    <3> QED
      BY <2>6, <3>1
  <2> QED
    BY <2>5, <2>7 DEF d
<1> QED
  BY <1>2, <1>3

-----------------------------------------------------------------------------
(* A turn that calls enqueue k times, after taking the packet at front or not. *)

(* A turn that queues a packet, or none, keeps the order. *)
LEMMA AcceptStep ==
  ASSUME Inv, EnqueueOrNot
  PROVE  /\ InOrder(q, issued, tx_buffer)'
         /\ issued' \in 0 .. MaxPackets
         /\ Fifo!Accept
<1>1. /\ issued \in 0 .. MaxPackets /\ InOrder(q, issued, tx_buffer)
      /\ MaxPackets \in Nat
  BY QueueAssumption DEF Inv, TypeOK
<1>2. CASE /\ issued < MaxPackets
           /\ issued' = issued + 1
           /\ q' = enqueue(q, issued + 1)
           /\ UNCHANGED tx_buffer
  <2>1. /\ InOrder(q', issued + 1, tx_buffer)
        /\ Pending(q') \subseteq Pending(q) \cup {issued + 1}
    BY <1>1, <1>2, EnqueueKeeps
  <2>2. issued + 1 \in issued + 1 .. issued'
    BY <1>1, <1>2
  <2> QED
    BY <1>1, <1>2, <2>1, <2>2 DEF Fifo!Accept, Fifo!Keeps
<1>3. CASE UNCHANGED <<q, issued, tx_buffer>>
  BY <1>1, <1>3 DEF Fifo!Accept, Fifo!Keeps
<1> QED
  BY <1>2, <1>3 DEF EnqueueOrNot

(* A turn that takes the packet at front takes the oldest, and what it queues is newer. *)
LEMMA ServeStep ==
  ASSUME Inv, Sent \/ NoRoute
  PROVE  /\ InOrder(q, issued, tx_buffer)'
         /\ issued' \in 0 .. MaxPackets
         /\ Fifo!Serve
<1> DEFINE p == q.queue[q.front]
<1>1. /\ issued \in 0 .. MaxPackets /\ InOrder(q, issued, tx_buffer)
      /\ MaxPackets \in Nat /\ ~IsEmpty(q) /\ tx_buffer' = p
  BY QueueAssumption DEF Inv, TypeOK, Sent, NoRoute
<1>2. p \in Pending(q) /\ \A other \in Pending(q) : p <= other
  BY <1>1, FrontIsOldest
<1>3. /\ InOrder(dequeue(q), issued, p)
      /\ Pending(dequeue(q)) \subseteq Pending(q) \ {p}
  BY <1>1, DequeueKeeps
<1> DEFINE e1 == enqueue(dequeue(q), issued + 1)
           e2 == enqueue(e1, issued + 2)
<1>4. /\ InOrder(e1, issued + 1, p)
      /\ Pending(e1) \subseteq (Pending(q) \ {p}) \cup {issued + 1}
  BY <1>3, EnqueueKeeps
<1>5. /\ InOrder(e2, issued + 2, p)
      /\ Pending(e2) \subseteq (Pending(q) \ {p}) \cup {issued + 1, issued + 2}
  <2>1. issued + 1 + 1 = issued + 2
    BY <1>1
  <2> HIDE DEF e1, p
  <2>2. /\ InOrder(enqueue(e1, issued + 1 + 1), issued + 1 + 1, p)
        /\ Pending(enqueue(e1, issued + 1 + 1))
             \subseteq Pending(e1) \cup {issued + 1 + 1}
    BY <1>4, EnqueueKeeps
  <2> QED
    BY <1>4, <2>1, <2>2
<1>6. /\ InOrder(q', issued', p)
      /\ issued' \in 0 .. MaxPackets
      /\ issued' >= issued
      /\ Pending(q') \subseteq (Pending(q) \ {p}) \cup (issued + 1 .. issued')
  <2> HIDE DEF p
  <2>1. CASE q' = dequeue(q) /\ issued' = issued
    BY <1>1, <1>3, <2>1
  <2>2. CASE q' = e1 /\ issued' = issued + 1 /\ issued < MaxPackets
    <3>1. {issued + 1} \subseteq issued + 1 .. issued'
      BY <1>1, <2>2
    <3> HIDE DEF e1
    <3> QED
      BY <1>1, <1>4, <2>2, <3>1
  <2>3. CASE q' = e2 /\ issued' = issued + 2 /\ issued + 1 < MaxPackets
    <3>1. {issued + 1, issued + 2} \subseteq issued + 1 .. issued'
      BY <1>1, <2>3
    <3> HIDE DEF e2
    <3> QED
      BY <1>1, <1>5, <2>3, <3>1
  <2> QED
    BY <2>1, <2>2, <2>3 DEF Sent, NoRoute
<1> QED
  BY <1>1, <1>2, <1>6 DEF Fifo!Serve, Fifo!Keeps

(* The empty queue is in order. *)
LEMMA InitInv ==
  ASSUME Init
  PROVE  Inv /\ Fifo!Init
<1>1. q \in Queue
  BY QueueAssumption DEF Init, Queue, Index
<1>2. \A i \in Slot : q.queue[i] = 0
  BY DEF Init
<1>3. \A i, j \in Slot : ~(q.front <= i /\ i < j /\ j <= q.back)
  BY DEF Init, Slot
<1>4. InOrder(q, issued, tx_buffer)
  BY <1>1, <1>2, <1>3 DEF Init, InOrder
<1>5. TypeOK
  BY <1>1, QueueAssumption DEF Init, TypeOK
<1>6. Fifo!Init
  BY DEF Init, Fifo!Init, Pending, IsEmpty
<1> QED
  BY <1>4, <1>5, <1>6 DEF Inv

(* Every step keeps the invariant and is a step of the lossy queue. *)
LEMMA NextInv ==
  ASSUME Inv, [Next]_vars
  PROVE  /\ Inv'
         /\ [Fifo!Next]_<<issued, Pending(q), tx_buffer>>
<1>1. ASSUME InOrder(q, issued, tx_buffer)', issued' \in 0 .. MaxPackets,
             pc' \in {"rx", "transport", "tx"}
      PROVE  Inv'
  BY <1>1 DEF Inv, TypeOK, InOrder
<1>2. CASE HandleRx \/ TransportPoll
  BY <1>1, <1>2, AcceptStep DEF HandleRx, TransportPoll, Goto, Fifo!Next
<1>3. CASE Sent \/ NoRoute
  BY <1>1, <1>3, ServeStep DEF Sent, NoRoute, Goto, Fifo!Next
<1>4. CASE NoPacket
  BY <1>4 DEF Inv, TypeOK, NoPacket, Goto
<1>5. CASE UNCHANGED vars
  BY <1>5 DEF Inv, TypeOK, vars
<1> QED
  BY <1>2, <1>3, <1>4, <1>5 DEF Next

(* The queue's indices stay within the array, and what lies between them   *)
(* is in order, through any number of overflows (network.c:88, 120).       *)
THEOREM QueueInvariance == Spec => []Inv
<1>1. Init => Inv
  BY InitInv
<1>2. Inv /\ [Next]_vars => Inv'
  BY NextInv
<1> QED
  BY <1>1, <1>2, PTL DEF Spec

(* No index of the queue ever leaves the array, nor a number its range.     *)
THEOREM QueueTypeCorrect == Spec => []TypeOK
<1>1. Inv => TypeOK
  BY DEF Inv
<1> QED
  BY <1>1, QueueInvariance, PTL

(* The array with its two indices implements the lossy queue: packets leave *)
(* in the order they came, none twice, none that never came.               *)
THEOREM QueueIsLossyFifo == Spec => IsLossyFifo
<1>1. Init => Fifo!Init
  BY InitInv
<1>2. Inv /\ [Next]_vars => [Fifo!Next]_(Fifo!fifoVars)
  BY NextInv DEF Fifo!fifoVars
<1> QED
  BY <1>1, <1>2, QueueInvariance, PTL DEF Spec, IsLossyFifo, Fifo!Spec

(* No packet leaves a second time: each is newer than the one before.      *)
THEOREM TakenInOrder == Spec => [][Sent \/ NoRoute => tx_buffer' > tx_buffer]_vars
<1>1. ASSUME Inv, Sent \/ NoRoute
      PROVE  tx_buffer' > tx_buffer
  <2>1. /\ InOrder(q, issued, tx_buffer) /\ ~IsEmpty(q)
        /\ tx_buffer' = q.queue[q.front]
    BY <1>1 DEF Inv, Sent, NoRoute
  <2>2. q.queue[q.front] \in 1 .. issued
    BY <2>1, FrontIsOldest
  <2> QED
    BY <2>1, <2>2 DEF InOrder, IsEmpty
<1>2. Inv /\ [Next]_vars => [Sent \/ NoRoute => tx_buffer' > tx_buffer]_vars
  BY <1>1
<1> QED
  BY <1>2, QueueInvariance, PTL DEF Spec

-----------------------------------------------------------------------------
(* What is lost *)

(* A packet that meets the end of the array is refused, and the queue is    *)
(* wrapped then.  Any other is queued after those pending, which stay.      *)
LEMMA EnqueueLoses ==
  ASSUME NEW r, NEW n, NEW t, InOrder(r, n, t), ~Wrapped(r), NEW p
  PROVE  \/ /\ enqueue(r, p).back = -1 /\ enqueue(r, p).front = r.front
            /\ ~IsEmpty(r) /\ Wrapped(enqueue(r, p))
         \/ /\ ~Wrapped(enqueue(r, p))
            /\ Pending(r) \subseteq Pending(enqueue(r, p))
<1> DEFINE e == enqueue(r, p)
<1>1. /\ r \in Queue /\ r.queue \in [Slot -> Nat]
      /\ r.front \in Index /\ r.back \in Index
      /\ r.front = -1 => r.back = -1
      /\ r.front <= r.back /\ r.front \in Int /\ r.back \in Int
      /\ QUEUE_MAX_SIZE \in Nat \ {0}
  BY QueueAssumption DEF InOrder, Queue, Index, Wrapped
<1>2. CASE r.back = QUEUE_MAX_SIZE - 1
  <2>1. e.front = r.front /\ e.back = -1
    BY <1>1, <1>2 DEF enqueue, Queue
  <2>2. r.front # -1 /\ r.front > -1
    BY <1>1, <1>2 DEF Index
  <2> HIDE DEF e
  <2>3. Wrapped(e) /\ ~IsEmpty(r)
    BY <2>1, <2>2 DEF Wrapped, IsEmpty
  <2> QED
    BY <2>1, <2>3 DEF e
<1>3. CASE r.back # QUEUE_MAX_SIZE - 1
  <2>1. CASE IsEmpty(r)
    <3>1. r.front = -1 /\ r.back = -1
      BY <1>1, <2>1 DEF IsEmpty
    <3>2. e.front = 0 /\ e.back = 0
      BY <1>3, <3>1 DEF enqueue
    <3> HIDE DEF e
    <3>3. ~Wrapped(e) /\ Pending(r) = {}
      BY <2>1, <3>2 DEF Wrapped, Pending
    <3> QED
      BY <3>3 DEF e
  <2>2. CASE ~IsEmpty(r)
    <3>1. /\ e.queue = [r.queue EXCEPT ![r.back + 1] = p]
          /\ e.front = r.front /\ e.back = r.back + 1
      BY <1>3, <2>2 DEF enqueue, IsEmpty
    <3>2. \A i \in Slot : i # r.back + 1 => e.queue[i] = r.queue[i]
      BY <1>1, <3>1
    <3> HIDE DEF e
    <3>3. ~IsEmpty(e)
      BY <2>2, <3>1 DEF IsEmpty
    <3>4. ASSUME NEW i \in {r.front} \cup (r.front .. r.back)
          PROVE  /\ i \in {e.front} \cup (e.front .. e.back)
                 /\ e.queue[i] = r.queue[i]
      <4>1. i \in Int /\ r.front <= i /\ i <= r.back
        BY <1>1, <3>4
      <4>2. i \in Slot
        BY <1>1, <2>2, <4>1 DEF IsEmpty, Index, Slot
      <4>3. e.queue[i] = r.queue[i]
        BY <1>1, <3>2, <4>1, <4>2
      <4> QED
        BY <1>1, <3>1, <4>1, <4>3
    <3>5. Pending(r) = {r.queue[i] : i \in {r.front} \cup (r.front .. r.back)}
      BY <2>2 DEF Pending
    <3>6. Pending(e) = {e.queue[i] : i \in {e.front} \cup (e.front .. e.back)}
      BY <3>3 DEF Pending
    <3>7. ~Wrapped(e) /\ Pending(r) \subseteq Pending(e)
      BY <1>1, <3>1, <3>4, <3>5, <3>6 DEF Wrapped
    <3> QED
      BY <3>7 DEF e
  <2> QED
    BY <2>1, <2>2
<1> QED
  BY <1>2, <1>3

(* Taking a packet leaves the others where they are. *)
LEMMA DequeueLoses ==
  ASSUME NEW r, NEW n, NEW t, InOrder(r, n, t), ~IsEmpty(r), ~Wrapped(r)
  PROVE  /\ ~Wrapped(dequeue(r)) /\ dequeue(r).front # 0
         /\ Pending(r) \ {r.queue[r.front]} \subseteq Pending(dequeue(r))
<1> DEFINE d == dequeue(r)
<1>1. /\ r \in Queue /\ r.front \in Nat /\ r.back \in Int /\ r.front <= r.back
  BY DEF InOrder, Queue, Index, Wrapped, IsEmpty
<1>2. CASE r.front + 1 > r.back
  <2>1. d.front = -1 /\ d.back = -1
    BY <1>1, <1>2 DEF dequeue, Queue
  <2>2. {r.front} \cup (r.front .. r.back) = {r.front}
    BY <1>1, <1>2
  <2>3. Pending(r) = {r.queue[r.front]}
    BY <2>2 DEF Pending
  <2> HIDE DEF d
  <2>4. ~Wrapped(d) /\ d.front # 0
    BY <2>1 DEF Wrapped
  <2> QED
    BY <2>3, <2>4 DEF d
<1>3. CASE ~(r.front + 1 > r.back)
  <2>1. d.queue = r.queue /\ d.front = r.front + 1 /\ d.back = r.back
    BY <1>1, <1>3 DEF dequeue, Queue
  <2> HIDE DEF d
  <2>2. ~Wrapped(d) /\ d.front # 0 /\ ~IsEmpty(d)
    BY <1>1, <1>3, <2>1 DEF Wrapped, IsEmpty
  <2>3. ASSUME NEW i \in {r.front} \cup (r.front .. r.back), i # r.front
        PROVE  i \in {d.front} \cup (d.front .. d.back)
    BY <1>1, <2>1, <2>3
  <2>4. Pending(r) = {r.queue[i] : i \in {r.front} \cup (r.front .. r.back)}
    BY DEF Pending
  <2>5. Pending(d) = {r.queue[i] : i \in {d.front} \cup (d.front .. d.back)}
    BY <2>1, <2>2 DEF Pending
  <2>6. Pending(r) \ {r.queue[r.front]} \subseteq Pending(d)
    BY <2>3, <2>4, <2>5
  <2> QED
    BY <2>2, <2>6 DEF d
<1> QED
  BY <1>2, <1>3

(* A queue that an overflow has wrapped is wrapped after the next packet. *)
LEMMA StaysWrapped ==
  ASSUME NEW r, r.back = -1, r.front \in Nat \ {0}, NEW p
  PROVE  Wrapped(enqueue(r, p))
<1>1. enqueue(r, p).front = r.front /\ enqueue(r, p).back = 0
  BY QueueAssumption DEF enqueue
<1> QED
  BY <1>1 DEF Wrapped

(* As long as back is not before front, only a packet sent leaves the queue. *)
LEMMA LosesStep ==
  ASSUME Inv, [Next]_vars, ~Wrapped(q), ~Wrapped(q')
  PROVE  Pending(q) \ {tx_buffer'} \subseteq Pending(q')
<1>1. InOrder(q, issued, tx_buffer)
  BY DEF Inv
<1>2. CASE UNCHANGED q
  BY <1>2
<1>3. CASE q' = enqueue(q, issued + 1)
  <2>1. Pending(q) \subseteq Pending(enqueue(q, issued + 1))
    BY <1>1, <1>3, EnqueueLoses
  <2> QED
    BY <1>3, <2>1
<1>4. CASE Sent \/ NoRoute
  <2> DEFINE d == dequeue(q)
             p == q.queue[q.front]
             e == enqueue(d, issued + 1)
  <2>1. /\ ~IsEmpty(q) /\ tx_buffer' = p
        /\ q' = d \/ q' = e \/ q' = enqueue(e, issued + 2)
    BY <1>4 DEF Sent, NoRoute
  <2>2. /\ InOrder(d, issued, p) /\ ~Wrapped(d) /\ d.front # 0
        /\ Pending(q) \ {p} \subseteq Pending(d)
    BY <1>1, <2>1, DequeueKeeps, DequeueLoses
  <2> HIDE DEF d, p
  <2>3. /\ \/ e.back = -1 /\ e.front = d.front /\ ~IsEmpty(d) /\ Wrapped(e)
           \/ ~Wrapped(e) /\ Pending(d) \subseteq Pending(e)
        /\ InOrder(e, issued + 1, p)
    BY <2>2, EnqueueLoses, EnqueueKeeps
  <2> HIDE DEF e
  <2>4. CASE q' = d
    BY <2>1, <2>2, <2>4
  <2>5. CASE q' = e
    BY <2>1, <2>2, <2>3, <2>5
  <2>6. CASE q' = enqueue(e, issued + 2)
    <3>1. CASE Wrapped(e)
      <4>1. e.back = -1 /\ e.front \in Nat \ {0}
        BY <2>2, <2>3, <3>1 DEF InOrder, Queue, Index, IsEmpty
      <4> QED
        BY <2>6, <4>1, StaysWrapped
    <3>2. CASE ~Wrapped(e)
      <4>1. /\ Pending(d) \subseteq Pending(e)
            /\ Pending(e) \subseteq Pending(enqueue(e, issued + 2))
        BY <2>3, <2>6, <3>2, EnqueueLoses
      <4> QED
        BY <2>1, <2>2, <2>6, <4>1
    <3> QED
      BY <3>1, <3>2
  <2> QED
    BY <2>1, <2>4, <2>5, <2>6
<1> QED
  BY <1>2, <1>3, <1>4 DEF Next, HandleRx, TransportPoll, EnqueueOrNot, NoPacket, vars

(* For a queue of any size: a packet that is pending leaves in its turn, or  *)
(* is lost by an overflow, which is seen in that front has passed back      *)
(* (network.c:90, 131).                                                    *)
THEOREM QueueLosesByOverflow == Spec => LostOnlyByOverflow
<1>1. Inv /\ [Next]_vars =>
        [~Wrapped(q) /\ ~Wrapped(q') =>
           Pending(q) \ {tx_buffer'} \subseteq Pending(q')]_vars
  BY LosesStep
<1> QED
  BY <1>1, QueueInvariance, PTL DEF Spec, LostOnlyByOverflow

=============================================================================
