---------------------------- MODULE DataLinkProofs ----------------------------
(***************************************************************************)
(* Proofs about DataLink for any senders, sizes and table: what arrives and *)
(* is put together is what was sent, and in its order.  The invariant       *)
(* follows the bytes of a packet from the sender's frame to the network     *)
(* layer.                                                                  *)
(***************************************************************************)
EXTENDS DataLink, SequenceTheorems, TLAPS

(* The number and the source of the packet that the last byte is of. *)
Num(d) == d[Len(d)].num
Src(d) == d[Len(d)].src

(* A frame as dll_get_tx_frame makes it, damaged or not. *)
Sound(f) ==
  /\ f \in Frame /\ f.data # <<>>
  /\ f.seq = Num(f.data) % SeqMod
  /\ \A k \in DOMAIN f.data :
       f.data[k].src = f.src /\ f.data[k].num = Num(f.data)
         /\ f.data[k].pos = f.start_offset + k
  /\ f.end => f.data[Len(f.data)].len = f.start_offset + Len(f.data)

SendersInv ==
  /\ count \in [Sender -> Nat]
  /\ buffer \in [Sender -> PacketBuffer]
  /\ radio \in [Sender -> Seq(Frame)]
  /\ \A s \in Sender :
       /\ buffer[s].length # 0 =>
            /\ count[s] >= 1 /\ buffer[s].current_index < buffer[s].length
            /\ buffer[s].destination \in Dest
       /\ radio[s] # <<>> =>
            /\ radio[s] = <<radio[s][1]>> /\ Sound(radio[s][1])
            /\ radio[s][1].src = s
            /\ Num(radio[s][1].data) \in 1 .. count[s]

(* Nothing of source s from its packet n - 1 or before is still to come. *)
Ahead(s, n) ==
  /\ n <= count[s]
  /\ radio[s] # <<>> => n <= Num(radio[s][1].data)
  /\ \A i \in 1 .. Len(heard) : heard[i].src = s => n <= Num(heard[i].data)

HeardInv ==
  /\ heard \in Seq(Frame)
  /\ \A i \in 1 .. Len(heard) :
       LET f == heard[i]
       IN  /\ Sound(f)
           /\ Num(f.data) \in 1 .. count[f.src]
           /\ radio[f.src] # <<>> => Num(f.data) <= Num(radio[f.src][1].data)
           /\ \A j \in i .. Len(heard) :
                heard[j].src = f.src => Num(f.data) <= Num(heard[j].data)

TableInv ==
  /\ table \in [Slot -> Entry]
  /\ OneEntryPerSource
  /\ \A i \in Used(table) :
       /\ table[i].src \in Sender
       /\ Begins(table[i].data, table[i].src, table[i].seq_num)

(* A packet between the layers, none of whose source is before it. *)
Waiting(d) ==
  /\ d \in Seq(Byte)
  /\ Complete(d)
  /\ d # <<>> => Num(d) \in 1 .. count[Src(d)] /\ Ahead(Src(d), Num(d))

PacketsInv ==
  /\ pc \in {"network", "take", "receive"}
  /\ PacketTaken
  /\ Waiting(dll_rx_packet) /\ Waiting(rx_packet)
  /\ rx_packet # <<>> /\ dll_rx_packet # <<>> /\ Src(rx_packet) = Src(dll_rx_packet)
       => Num(rx_packet) <= Num(dll_rx_packet)

HandedInv ==
  /\ handed \in [Sender -> Nat]
  /\ \A s \in Sender :
       /\ Ahead(s, handed[s])
       /\ rx_packet # <<>> /\ Src(rx_packet) = s => handed[s] <= Num(rx_packet)
       /\ dll_rx_packet # <<>> /\ Src(dll_rx_packet) = s
            => handed[s] <= Num(dll_rx_packet)

Inv == SendersInv /\ HeardInv /\ TableInv /\ PacketsInv /\ HandedInv

-----------------------------------------------------------------------------
(* Records *)

LEMMA Sizes ==
  /\ DLL_MAX_PACKET_SIZE \in Nat \ {0} /\ DLL_MTU \in Nat \ {0}
  /\ DLL_RX_TABLE_SIZE \in Nat \ {0} /\ SeqMod \in Nat \ {0} /\ RxBuffers \in Nat \ {0}
  /\ Damage \subseteq 0 .. 2 /\ Dest \subseteq {"us", "other"} /\ NoSender \notin Sender
BY LinkAssumption

LEMMA Modulo == \A n \in Nat : n % SeqMod \in 0 .. SeqMod - 1
BY Sizes

LEMMA BufferParts ==
  ASSUME NEW b \in PacketBuffer
  PROVE  /\ b.current_index \in Nat /\ b.length \in 0 .. DLL_MAX_PACKET_SIZE
         /\ b.length \in Nat /\ b.destination \in Dest \cup {"us"}
BY Sizes DEF PacketBuffer

LEMMA FrameParts ==
  ASSUME NEW f \in Frame
  PROVE  /\ f.seq \in 0 .. SeqMod - 1 /\ f.start_offset \in Nat /\ f.end \in BOOLEAN
         /\ f.src \in Sender /\ f.dest \in Dest /\ f.data \in Seq(Byte)
         /\ f.damage \in 0 .. 2
BY DEF Frame

LEMMA ByteParts ==
  ASSUME NEW b \in Byte
  PROVE  b.src \in Sender /\ b.num \in Nat /\ b.pos \in Nat /\ b.len \in Nat
BY DEF Byte

LEMMA LastByte ==
  ASSUME NEW d \in Seq(Byte), d # <<>>
  PROVE  /\ Len(d) \in DOMAIN d /\ Len(d) \in Nat \ {0} /\ d[Len(d)] \in Byte
         /\ Num(d) \in Nat /\ Src(d) \in Sender /\ d[Len(d)].len \in Nat
<1>1. Len(d) \in DOMAIN d /\ Len(d) \in Nat \ {0}
  BY EmptySeq
<1>2. d[Len(d)] \in Byte
  BY <1>1
<1> QED
  BY <1>1, <1>2, ByteParts DEF Num, Src

LEMMA SoundParts ==
  ASSUME NEW f, Sound(f)
  PROVE  /\ f \in Frame /\ f.src \in Sender /\ f.data \in Seq(Byte) /\ f.data # <<>>
         /\ Num(f.data) \in Nat /\ Src(f.data) = f.src
<1>1. f \in Frame /\ f.src \in Sender /\ f.data \in Seq(Byte) /\ f.data # <<>>
  BY FrameParts DEF Sound
<1>2. Len(f.data) \in DOMAIN f.data /\ Num(f.data) \in Nat
  BY <1>1, LastByte
<1>3. Src(f.data) = f.src
  BY <1>2 DEF Sound, Src
<1> QED
  BY <1>1, <1>2, <1>3

LEMMA InitInv ==
  ASSUME Init
  PROVE  Inv
<1>1. SendersInv
  <2>1. [current_index |-> 0, length |-> 0, destination |-> "us"] \in PacketBuffer
    BY Sizes DEF PacketBuffer
  <2>2. <<>> \in Seq(Frame)
    OBVIOUS
  <2> QED
    BY <2>1, <2>2 DEF Init, SendersInv
<1>2. heard = <<>> /\ Len(heard) = 0
  BY DEF Init
<1>3. HeardInv
  BY <1>2 DEF HeardInv
<1>4. TableInv
  <2>1. [free |-> TRUE, order |-> 0, src |-> NoSender, seq_num |-> 0, data |-> <<>>]
          \in Entry
    <3>1. 0 \in 0 .. SeqMod - 1 /\ <<>> \in Seq(Byte)
      BY Sizes
    <3> QED
      BY <3>1 DEF Entry
  <2>2. \A i \in Slot : table[i].free /\ table[i].src = NoSender
    BY DEF Init
  <2> QED
    BY <2>1, <2>2 DEF Init, TableInv, OneEntryPerSource, Used
<1>5. PacketsInv
  BY DEF Init, PacketsInv, PacketTaken, Waiting, Complete
<1>6. HandedInv
  BY <1>2 DEF Init, HandedInv, Ahead
<1> QED
  BY <1>1, <1>3, <1>4, <1>5, <1>6 DEF Inv

-----------------------------------------------------------------------------
(* Numbers in the pipeline *)

(* A step of the senders and the air: what is new comes last. *)
Later ==
  /\ \A s \in Sender : count[s] <= count'[s]
  /\ \A s \in Sender : radio'[s] # <<>> =>
       radio'[s] = radio[s] \/ Num(radio'[s][1].data) = count[s]
  /\ \A i \in 1 .. Len(heard') :
       \/ i \in 1 .. Len(heard) /\ heard'[i] = heard[i]
       \/ \E s \in Sender : /\ heard'[i].src = s /\ radio[s] # <<>>
                            /\ Num(heard'[i].data) = Num(radio[s][1].data)

LEMMA AheadLater ==
  ASSUME Inv, count' \in [Sender -> Nat], Later, NEW s \in Sender, NEW n \in Nat,
         Ahead(s, n)
  PROVE  Ahead(s, n)'
<1>1. count[s] \in Nat /\ count'[s] \in Nat
  BY DEF Inv, SendersInv
<1>2. n <= count'[s]
  BY <1>1 DEF Ahead, Later
<1>3. radio'[s] # <<>> => n <= Num(radio'[s][1].data)
  BY DEF Ahead, Later
<1>4. \A i \in 1 .. Len(heard') : heard'[i].src = s => n <= Num(heard'[i].data)
  BY DEF Ahead, Later
<1> QED
  BY <1>2, <1>3, <1>4 DEF Ahead

LEMMA AheadTail ==
  ASSUME heard \in Seq(Frame), heard # <<>>, heard' = Tail(heard),
         UNCHANGED <<count, radio>>, NEW s, NEW n, Ahead(s, n)
  PROVE  Ahead(s, n)'
<1>1. \A i \in 1 .. Len(heard') :
        i + 1 \in 1 .. Len(heard) /\ heard'[i] = heard[i + 1]
  BY HeadTailProperties
<1> QED
  BY <1>1 DEF Ahead

(* What the receiver has is not disturbed by senders and the air. *)
LEMMA ReceiverKeeps ==
  ASSUME Inv, count' \in [Sender -> Nat], Later, UNCHANGED receiverVars
  PROVE  TableInv' /\ PacketsInv' /\ HandedInv'
<1> USE DEF receiverVars
<1>1. TableInv'
  BY DEF Inv, TableInv, OneEntryPerSource, Used
<1>2. ASSUME NEW d, Waiting(d)
      PROVE  Waiting(d)'
  <2>1. d # <<>> => /\ Src(d) \in Sender /\ Num(d) \in Nat
                    /\ count[Src(d)] \in Nat /\ count'[Src(d)] \in Nat
                    /\ count[Src(d)] <= count'[Src(d)]
    BY <1>2, LastByte DEF Waiting, Inv, SendersInv, Later
  <2>2. d # <<>> => Ahead(Src(d), Num(d))'
    BY <1>2, <2>1, AheadLater DEF Waiting
  <2> QED
    BY <1>2, <2>1, <2>2 DEF Waiting
<1>3. PacketsInv'
  <2>1. Waiting(dll_rx_packet)' /\ Waiting(rx_packet)'
    <3>1. Waiting(dll_rx_packet) /\ Waiting(rx_packet)
      BY DEF Inv, PacketsInv
    <3>2. dll_rx_packet' = dll_rx_packet /\ rx_packet' = rx_packet
      OBVIOUS
    <3> QED
      BY <1>2, <3>1, <3>2 DEF Waiting, Ahead
  <2> QED
    BY <2>1 DEF Inv, PacketsInv, PacketTaken
<1>4. HandedInv'
  <2>1. ASSUME NEW s \in Sender PROVE Ahead(s, handed[s])'
    <3>1. handed[s] \in Nat /\ Ahead(s, handed[s])
      BY DEF Inv, HandedInv
    <3>2. handed' = handed
      OBVIOUS
    <3> QED
      BY <3>1, <3>2, AheadLater DEF Ahead
  <2> QED
    BY <2>1 DEF Inv, HandedInv
<1> QED
  BY <1>1, <1>3, <1>4

-----------------------------------------------------------------------------
(* The senders and the air *)

LEMMA NetTxStep ==
  ASSUME Inv, NEW s \in Sender, NetTx(s)
  PROVE  Inv'
<1> USE DEF receiverVars
<1>1. PICK length \in 0 .. DLL_MAX_PACKET_SIZE + 1, dest \in Dest :
        /\ buffer[s].length = 0
        /\ buffer' = [buffer EXCEPT ![s] =
                        dll_queue_tx_net_packet(buffer[s], length, dest)]
        /\ count' = IF buffer'[s].length = 0 THEN count
                    ELSE [count EXCEPT ![s] = count[s] + 1]
        /\ UNCHANGED <<radio, heard, receiverVars>>
  BY DEF NetTx
<1> DEFINE b == dll_queue_tx_net_packet(buffer[s], length, dest)
<1>2. /\ b \in PacketBuffer
      /\ b.length # 0 => b.current_index < b.length /\ b.destination \in Dest
  <2>1. CASE length \notin 1 .. DLL_MAX_PACKET_SIZE
    BY <1>1, <2>1 DEF dll_queue_tx_net_packet, Inv, SendersInv
  <2>2. CASE length \in 1 .. DLL_MAX_PACKET_SIZE
    <3>1. b = [current_index |-> 0, length |-> length, destination |-> dest]
      BY <1>1, <2>2 DEF dll_queue_tx_net_packet
    <3>2. length \in 0 .. DLL_MAX_PACKET_SIZE /\ 0 < length
      BY <2>2, Sizes
    <3> HIDE DEF b
    <3> QED
      BY <3>1, <3>2 DEF PacketBuffer
  <2> QED
    BY <2>1, <2>2
<1> HIDE DEF b
<1>3. buffer' = [buffer EXCEPT ![s] = b] /\ buffer'[s] = b
  BY <1>1 DEF b, Inv, SendersInv
<1>4. /\ count' \in [Sender -> Nat]
      /\ \A t \in Sender : count[t] \in Nat /\ count'[t] \in Nat /\ count[t] <= count'[t]
      /\ b.length # 0 => count'[s] >= 1
  BY <1>1, <1>3 DEF Inv, SendersInv
<1>5. Later
  BY <1>1, <1>4 DEF Later
<1>6. SendersInv'
  <2>1. buffer' \in [Sender -> PacketBuffer]
    BY <1>2, <1>3 DEF Inv, SendersInv
  <2>2. ASSUME NEW t \in Sender, buffer'[t].length # 0
        PROVE  /\ count'[t] >= 1 /\ buffer'[t].current_index < buffer'[t].length
               /\ buffer'[t].destination \in Dest
    <3>1. CASE t = s
      BY <1>2, <1>3, <1>4, <2>2, <3>1
    <3>2. CASE t # s
      BY <1>3, <1>4, <2>2, <3>2 DEF Inv, SendersInv
    <3> QED
      BY <3>1, <3>2
  <2>3. ASSUME NEW t \in Sender, radio'[t] # <<>>
        PROVE  /\ radio'[t] = <<radio'[t][1]>> /\ Sound(radio'[t][1])
               /\ radio'[t][1].src = t
               /\ Num(radio'[t][1].data) \in 1 .. count'[t]
    BY <1>1, <1>4, <2>3 DEF Inv, SendersInv
  <2>4. radio' \in [Sender -> Seq(Frame)]
    BY <1>1 DEF Inv, SendersInv
  <2> QED
    BY <1>4, <2>1, <2>2, <2>3, <2>4 DEF SendersInv
<1>7. HeardInv'
  <2>1. ASSUME NEW i \in 1 .. Len(heard)
        PROVE  Num(heard[i].data) \in 1 .. count'[heard[i].src]
    <3>1. heard[i].src \in Sender
      BY SoundParts DEF Inv, HeardInv
    <3> QED
      BY <1>4, <3>1 DEF Inv, HeardInv
  <2> QED
    BY <1>1, <2>1 DEF Inv, HeardInv
<1> QED
  BY <1>1, <1>4, <1>5, <1>6, <1>7, ReceiverKeeps DEF Inv

LEMMA FrameMade ==
  ASSUME Inv, NEW s \in Sender, buffer[s].length # 0
  PROVE  /\ Sound(FrameOf(s)) /\ FrameOf(s).src = s
         /\ Num(FrameOf(s).data) = count[s] /\ count[s] \in Nat /\ count[s] >= 1
<1> DEFINE b == buffer[s]
           n == FragLength(b)
           byte(k) == [src |-> s, num |-> count[s], pos |-> b.current_index + k,
                       len |-> b.length]
           d == [k \in 1 .. n |-> byte(k)]
           f == FrameOf(s)
<1>1. /\ b.current_index \in Nat /\ b.length \in Nat /\ b.current_index < b.length
      /\ count[s] \in Nat /\ count[s] >= 1 /\ b.destination \in Dest
  BY BufferParts DEF Inv, SendersInv
<1>2. /\ n \in Nat /\ n >= 1
      /\ EndFlag(b) \in BOOLEAN /\ (EndFlag(b) => b.length = b.current_index + n)
  BY <1>1, Sizes DEF FragLength, Lesser, EndFlag
<1>3. f = [seq |-> count[s] % SeqMod, start_offset |-> b.current_index,
           end |-> EndFlag(b), src |-> s, dest |-> b.destination, data |-> d,
           damage |-> 0]
  BY DEF FrameOf
<1>4. \A k \in 1 .. n : byte(k) \in Byte
  BY <1>1 DEF Byte
<1> HIDE DEF b, n
<1>5. d \in Seq(Byte) /\ Len(d) = n /\ DOMAIN d = 1 .. n /\ d # <<>>
  BY <1>2, <1>4
<1>6. \A k \in 1 .. n : /\ d[k].src = s /\ d[k].num = count[s]
                        /\ d[k].pos = b.current_index + k /\ d[k].len = b.length
  OBVIOUS
<1>7. Num(d) = count[s] /\ d[Len(d)].len = b.length
  BY <1>2, <1>5, <1>6 DEF Num
<1> HIDE DEF d, f
<1>8. /\ f.seq = count[s] % SeqMod /\ f.start_offset = b.current_index
      /\ f.end = EndFlag(b) /\ f.src = s /\ f.data = d
  BY <1>3
<1>9. f \in Frame
  <2>1. count[s] % SeqMod \in 0 .. SeqMod - 1
    BY <1>1, Modulo
  <2> QED
    BY <1>1, <1>2, <1>3, <1>5, <2>1 DEF Frame
<1>10. Sound(f)
  BY <1>2, <1>5, <1>6, <1>7, <1>8, <1>9 DEF Sound
<1> QED
  BY <1>1, <1>7, <1>8, <1>10 DEF f

LEMMA dll_get_tx_frame_Step ==
  ASSUME Inv, NEW s \in Sender, dll_get_tx_frame(s)
  PROVE  Inv'
<1> USE DEF receiverVars
<1> DEFINE f == FrameOf(s)
           b == AfterFrame(buffer[s])
<1>1. /\ buffer[s].length # 0
      /\ radio' = [radio EXCEPT ![s] = <<f>>]
      /\ buffer' = [buffer EXCEPT ![s] = b]
      /\ UNCHANGED <<count, heard, receiverVars>>
      /\ radio[s] = <<>>
  BY DEF dll_get_tx_frame, dll_has_tx_frame, dll_rf_can_tx
<1>2. /\ Sound(f) /\ f.src = s /\ Num(f.data) = count[s]
      /\ count[s] \in Nat /\ count[s] >= 1 /\ f \in Frame
  BY <1>1, FrameMade, SoundParts
<1>3. /\ b \in PacketBuffer
      /\ b.length # 0 => b.current_index < b.length /\ b.destination \in Dest
  <2> DEFINE o == buffer[s]
  <2>1. /\ o \in PacketBuffer /\ o.current_index < o.length /\ o.destination \in Dest
        /\ o.current_index \in Nat /\ o.length \in Nat
    BY <1>1, BufferParts DEF Inv, SendersInv
  <2> HIDE DEF o
  <2>2. CASE EndFlag(o)
    <3>1. AfterFrame(o) \in PacketBuffer /\ AfterFrame(o).length = 0
      BY <2>1, <2>2, Sizes DEF AfterFrame, PacketBuffer
    <3> QED
      BY <3>1 DEF o
  <2>3. CASE ~EndFlag(o)
    <3>1. FragLength(o) = DLL_MTU /\ o.current_index + DLL_MTU < o.length
      BY <2>1, <2>3, Sizes DEF FragLength, Lesser, EndFlag
    <3>2. o.current_index + DLL_MTU \in Nat
      BY <2>1, Sizes
    <3>3. AfterFrame(o) = [o EXCEPT !.current_index = o.current_index + DLL_MTU]
      BY <2>3, <3>1 DEF AfterFrame
    <3>4. /\ AfterFrame(o) \in PacketBuffer
          /\ AfterFrame(o).current_index = o.current_index + DLL_MTU
          /\ AfterFrame(o).length = o.length
          /\ AfterFrame(o).destination = o.destination
      BY <2>1, <3>2, <3>3 DEF PacketBuffer
    <3> QED
      BY <2>1, <3>1, <3>4 DEF o
  <2> QED
    BY <2>2, <2>3
<1> HIDE DEF f, b
<1>4. /\ radio' \in [Sender -> Seq(Frame)] /\ radio'[s] = <<f>>
      /\ \A t \in Sender : t # s => radio'[t] = radio[t]
  BY <1>1, <1>2 DEF Inv, SendersInv
<1>5. count' \in [Sender -> Nat] /\ \A t \in Sender : count[t] \in Nat
  BY <1>1 DEF Inv, SendersInv
<1>6. Later
  <2>1. ASSUME NEW t \in Sender
        PROVE  radio'[t] = radio[t] \/ Num(radio'[t][1].data) = count[t]
    BY <1>2, <1>4
  <2> QED
    BY <1>1, <1>5, <2>1 DEF Later
<1>7. SendersInv'
  <2>1. buffer' \in [Sender -> PacketBuffer]
    BY <1>1, <1>3 DEF Inv, SendersInv
  <2>2. ASSUME NEW t \in Sender, buffer'[t].length # 0
        PROVE  /\ count'[t] >= 1 /\ buffer'[t].current_index < buffer'[t].length
               /\ buffer'[t].destination \in Dest
    <3>1. CASE t = s
      BY <1>1, <1>2, <1>3, <2>2, <3>1 DEF Inv, SendersInv
    <3>2. CASE t # s
      BY <1>1, <2>2, <3>2 DEF Inv, SendersInv
    <3> QED
      BY <3>1, <3>2
  <2>3. ASSUME NEW t \in Sender, radio'[t] # <<>>
        PROVE  /\ radio'[t] = <<radio'[t][1]>> /\ Sound(radio'[t][1])
               /\ radio'[t][1].src = t
               /\ Num(radio'[t][1].data) \in 1 .. count'[t]
    <3>1. CASE t = s
      BY <1>1, <1>2, <1>4, <3>1
    <3>2. CASE t # s
      BY <1>1, <1>4, <2>3, <3>2 DEF Inv, SendersInv
    <3> QED
      BY <3>1, <3>2
  <2> QED
    BY <1>4, <1>5, <2>1, <2>2, <2>3 DEF SendersInv
<1>8. HeardInv'
  <2>1. ASSUME NEW i \in 1 .. Len(heard), radio'[heard[i].src] # <<>>
        PROVE  Num(heard[i].data) <= Num(radio'[heard[i].src][1].data)
    <3>1. heard[i].src \in Sender
      BY SoundParts DEF Inv, HeardInv
    <3>2. CASE heard[i].src = s
      <4>1. Num(heard[i].data) \in 1 .. count[s]
        BY <3>2 DEF Inv, HeardInv
      <4> QED
        BY <1>2, <1>4, <3>2, <4>1
    <3>3. CASE heard[i].src # s
      BY <1>4, <2>1, <3>1, <3>3 DEF Inv, HeardInv
    <3> QED
      BY <3>2, <3>3
  <2> QED
    BY <1>1, <2>1 DEF Inv, HeardInv
<1> QED
  BY <1>1, <1>5, <1>6, <1>7, <1>8, ReceiverKeeps DEF Inv

LEMMA DamagedSound ==
  ASSUME NEW f, Sound(f), NEW d \in Damage
  PROVE  /\ Sound(Damaged(f, d)) /\ Damaged(f, d).src = f.src
         /\ Num(Damaged(f, d).data) = Num(f.data)
<1> DEFINE g == Damaged(f, d)
<1>1. f \in Frame /\ d \in 0 .. 2
  BY SoundParts, Sizes
<1>2. /\ g \in Frame /\ g.data = f.data /\ g.src = f.src /\ g.seq = f.seq
      /\ g.start_offset = f.start_offset /\ g.end = f.end
  BY <1>1 DEF Frame, Damaged
<1> HIDE DEF g
<1>3. Sound(g)
  BY <1>2 DEF Sound
<1> QED
  BY <1>2, <1>3 DEF g

LEMMA TransmitStep ==
  ASSUME Inv, NEW s \in Sender, Transmit(s)
  PROVE  Inv'
<1> USE DEF receiverVars
<1> DEFINE f == radio[s][1]
<1>1. /\ radio[s] # <<>> /\ radio[s] = <<f>> /\ Sound(f) /\ f.src = s
      /\ Num(f.data) \in 1 .. count[s]
  BY DEF Transmit, Inv, SendersInv
<1>2. /\ \/ UNCHANGED heard
         \/ \E d \in Damage : heard' = Append(heard, Damaged(f, d))
      /\ radio' = [radio EXCEPT ![s] = <<>>] \/ UNCHANGED radio
      /\ UNCHANGED <<buffer, count, receiverVars>>
  <2>1. Head(radio[s]) = f
    BY <1>1
  <2> QED
    BY <2>1 DEF Transmit
<1> HIDE DEF f
<1>3. /\ radio' \in [Sender -> Seq(Frame)]
      /\ \A t \in Sender : radio'[t] = radio[t] \/ radio'[t] = <<>>
  <2>1. radio \in [Sender -> Seq(Frame)] /\ <<>> \in Seq(Frame)
    BY DEF Inv, SendersInv
  <2>2. CASE UNCHANGED radio
    BY <2>1, <2>2
  <2>3. CASE radio' = [radio EXCEPT ![s] = <<>>]
    BY <2>1, <2>3
  <2> QED
    BY <1>2, <2>2, <2>3
<1>4. count' \in [Sender -> Nat] /\ \A t \in Sender : count[t] \in Nat
  BY <1>2 DEF Inv, SendersInv
<1>5. CASE UNCHANGED heard
  <2>1. Later
    BY <1>2, <1>3, <1>4, <1>5 DEF Later
  <2>2. SendersInv'
    BY <1>2, <1>3 DEF Inv, SendersInv
  <2>3. HeardInv'
    <3>1. \A i \in 1 .. Len(heard) : heard[i].src \in Sender
      BY SoundParts DEF Inv, HeardInv
    <3> QED
      BY <1>2, <1>3, <1>5, <3>1 DEF Inv, HeardInv
  <2> QED
    BY <1>2, <1>4, <2>1, <2>2, <2>3, ReceiverKeeps DEF Inv
<1>6. ASSUME NEW d \in Damage, heard' = Append(heard, Damaged(f, d))
      PROVE  Inv'
  <2> DEFINE g == Damaged(f, d)
             n == Len(heard)
  <2>1. Sound(g) /\ g.src = s /\ Num(g.data) = Num(f.data) /\ g \in Frame
    BY <1>1, DamagedSound, SoundParts
  <2>2. /\ heard \in Seq(Frame) /\ heard' \in Seq(Frame) /\ Len(heard') = n + 1
        /\ n \in Nat /\ heard'[n + 1] = g
        /\ \A i \in 1 .. n : heard'[i] = heard[i]
    BY <1>6, <2>1, AppendProperties DEF Inv, HeardInv
  <2> HIDE DEF g, n
  <2>3. \A i \in 1 .. Len(heard') : i \in 1 .. n \/ i = n + 1
    BY <2>2
  <2>4. Later
    <3>1. ASSUME NEW i \in 1 .. Len(heard')
          PROVE  \/ i \in 1 .. Len(heard) /\ heard'[i] = heard[i]
                 \/ \E t \in Sender : /\ heard'[i].src = t /\ radio[t] # <<>>
                                      /\ Num(heard'[i].data) = Num(radio[t][1].data)
      BY <1>1, <2>1, <2>2, <2>3 DEF f, n
    <3> QED
      BY <1>2, <1>3, <1>4, <3>1 DEF Later
  <2>5. SendersInv'
    BY <1>2, <1>3 DEF Inv, SendersInv
  <2>6. HeardInv'
    <3>1. ASSUME NEW i \in 1 .. n
          PROVE  /\ Sound(heard[i]) /\ heard[i].src \in Sender
                 /\ Num(heard[i].data) \in 1 .. count[heard[i].src]
                 /\ radio[heard[i].src] # <<>> =>
                      Num(heard[i].data) <= Num(radio[heard[i].src][1].data)
                 /\ \A j \in i .. n : heard[j].src = heard[i].src =>
                      Num(heard[i].data) <= Num(heard[j].data)
      BY SoundParts DEF Inv, HeardInv, n
    <3>2. ASSUME NEW i \in 1 .. Len(heard')
          PROVE  /\ Sound(heard'[i])
                 /\ Num(heard'[i].data) \in 1 .. count[heard'[i].src]
                 /\ radio'[heard'[i].src] # <<>> =>
                      Num(heard'[i].data) <= Num(radio'[heard'[i].src][1].data)
      <4>1. CASE i \in 1 .. n
        BY <1>3, <2>2, <3>1, <4>1
      <4>2. CASE i = n + 1
        <5>1. Num(f.data) <= Num(f.data)
          BY <1>1, SoundParts
        <5> QED
          BY <1>1, <1>3, <2>1, <2>2, <4>2, <5>1 DEF f
      <4> QED
        BY <2>3, <4>1, <4>2
    <3>3. ASSUME NEW i \in 1 .. Len(heard'), NEW j \in i .. Len(heard'),
                 heard'[j].src = heard'[i].src
          PROVE  Num(heard'[i].data) <= Num(heard'[j].data)
      <4>1. CASE j \in 1 .. n
        <5>1. i \in 1 .. n /\ j \in i .. n
          BY <2>2, <4>1
        <5> QED
          BY <2>2, <3>1, <3>3, <5>1
      <4>2. CASE i \in 1 .. n /\ j = n + 1
        <5>1. heard[i].src = s /\ Num(heard[i].data) <= Num(f.data)
          BY <1>1, <2>1, <2>2, <3>1, <3>3, <4>2 DEF f
        <5> QED
          BY <2>1, <2>2, <4>2, <5>1
      <4>3. CASE i = n + 1 /\ j = n + 1
        <5>1. Num(g.data) <= Num(g.data)
          BY <2>1, SoundParts
        <5> QED
          BY <2>2, <4>3, <5>1
      <4> QED
        BY <2>2, <2>3, <4>1, <4>2, <4>3
    <3>4. count' = count
      BY <1>2
    <3> QED
      BY <2>2, <3>2, <3>3, <3>4 DEF HeardInv
  <2> QED
    BY <1>2, <1>4, <2>4, <2>5, <2>6, ReceiverKeeps DEF Inv
<1> QED
  BY <1>2, <1>5, <1>6

-----------------------------------------------------------------------------
(* The reassembly table *)

LEMMA EntryParts ==
  ASSUME NEW e \in Entry
  PROVE  /\ e.free \in BOOLEAN /\ e.order \in Nat /\ e.src \in Sender \cup {NoSender}
         /\ e.seq_num \in 0 .. SeqMod - 1 /\ e.data \in Seq(Byte)
BY DEF Entry

(* Reordering touches nothing but the order. *)
LEMMA Reordered ==
  ASSUME NEW t \in [Slot -> Entry]
  PROVE  /\ dll_reorder_rx_table(t) \in [Slot -> Entry]
         /\ \A i \in Slot : LET e == dll_reorder_rx_table(t)[i]
                            IN  /\ e.free = t[i].free /\ e.src = t[i].src
                                /\ e.seq_num = t[i].seq_num /\ e.data = t[i].data
<1> DEFINE r == dll_reorder_rx_table(t)
<1>1. /\ DOMAIN r = Slot /\ r = [i \in Slot |-> r[i]]
      /\ \A i \in Slot : r[i] = t[i] \/ r[i] = [t[i] EXCEPT !.order = t[i].order + 1]
  BY DEF dll_reorder_rx_table
<1>2. ASSUME NEW e \in Entry
      PROVE  LET g == [e EXCEPT !.order = e.order + 1]
             IN  /\ g \in Entry /\ g.free = e.free /\ g.src = e.src
                 /\ g.seq_num = e.seq_num /\ g.data = e.data
  <2>1. e.order + 1 \in Nat
    BY EntryParts
  <2> QED
    BY <2>1 DEF Entry
<1> HIDE DEF r
<1>3. ASSUME NEW i \in Slot
      PROVE  /\ r[i] \in Entry /\ r[i].free = t[i].free /\ r[i].src = t[i].src
             /\ r[i].seq_num = t[i].seq_num /\ r[i].data = t[i].data
  <2>1. t[i] \in Entry
    OBVIOUS
  <2>2. CASE r[i] = t[i]
    BY <2>1, <2>2
  <2>3. CASE r[i] = [t[i] EXCEPT !.order = t[i].order + 1]
    BY <1>2, <2>1, <2>3
  <2> QED
    BY <1>1, <2>2, <2>3
<1>4. r \in [Slot -> Entry]
  BY <1>1, <1>3
<1> QED
  BY <1>3, <1>4 DEF r

LEMMA LeastOfOne ==
  ASSUME NEW i \in Nat
  PROVE  Least({i}) = i
<1>1. i \in {i} /\ \A j \in {i} : i <= j
  OBVIOUS
<1> QED
  BY <1>1 DEF Least

LEMMA Slots == Slot \subseteq Nat
BY Sizes DEF Slot

(* All entries of a source are the same. *)
LEMMA OwnEntry ==
  ASSUME TableInv, NEW S, NEW src \in Sender, S \subseteq {i \in Slot : table[i].src = src},
         S # {}
  PROVE  /\ Least(S) \in S /\ Least(S) \in Slot
         /\ \A j \in Slot : table[j].src = src => j = Least(S)
<1>1. PICK i \in S : i \in Slot /\ table[i].src = src
  OBVIOUS
<1>2. \A j \in Slot : table[j].src = src => j = i
  BY <1>1, Sizes DEF TableInv, OneEntryPerSource
<1>3. S = {i}
  BY <1>1, <1>2
<1>4. Least(S) = i
  BY <1>1, <1>3, Slots, LeastOfOne
<1> QED
  BY <1>1, <1>2, <1>4

(* A source's only entry gets the beginning of its packet. *)
LEMMA TableTakes ==
  ASSUME TableInv, NEW i, NEW e \in Entry,
         e.src \in Sender, Begins(e.data, e.src, e.seq_num),
         \A j \in Slot : table[j].src = e.src => j = i,
         table' = dll_reorder_rx_table([table EXCEPT ![i] = e])
  PROVE  TableInv'
<1> DEFINE t == [table EXCEPT ![i] = e]
<1>1. table \in [Slot -> Entry] /\ OneEntryPerSource
  BY DEF TableInv
<1>2. t \in [Slot -> Entry] /\ \A j \in Slot : t[j] = IF j = i THEN e ELSE table[j]
  BY <1>1
<1> HIDE DEF t
<1>3. /\ table' \in [Slot -> Entry]
      /\ \A j \in Slot :
           /\ table'[j].free = t[j].free /\ table'[j].src = t[j].src
           /\ table'[j].seq_num = t[j].seq_num /\ table'[j].data = t[j].data
  BY <1>2, Reordered DEF t
<1>4. ASSUME NEW j \in Slot, NEW k \in Slot, table'[j].src = table'[k].src, j # k
      PROVE  table'[j].src = NoSender
  <2>1. t[j].src = t[k].src /\ table'[j].src = t[j].src
    BY <1>3, <1>4
  <2>2. CASE j # i /\ k # i
    <3>1. t[j] = table[j] /\ t[k] = table[k]
      BY <1>2, <2>2
    <3> QED
      BY <1>1, <1>4, <2>1, <3>1 DEF OneEntryPerSource
  <2>3. CASE j = i
    <3>1. t[j] = e /\ t[k] = table[k]
      BY <1>2, <1>4, <2>3
    <3> QED
      BY <1>4, <2>1, <2>3, <3>1
  <2>4. CASE k = i
    <3>1. t[k] = e /\ t[j] = table[j]
      BY <1>2, <1>4, <2>4
    <3> QED
      BY <1>4, <2>1, <2>4, <3>1
  <2> QED
    BY <2>2, <2>3, <2>4
<1>5. ASSUME NEW j \in Slot, ~table'[j].free
      PROVE  /\ table'[j].src \in Sender
             /\ Begins(table'[j].data, table'[j].src, table'[j].seq_num)
  <2>1. CASE j = i
    <3>1. t[j] = e
      BY <1>2, <2>1
    <3>2. table'[j].src = t[j].src /\ table'[j].seq_num = t[j].seq_num
            /\ table'[j].data = t[j].data
      BY <1>3
    <3> QED
      BY <3>1, <3>2
  <2>2. CASE j # i
    <3>1. t[j] = table[j] /\ ~table[j].free
      BY <1>2, <1>3, <1>5, <2>2
    <3>2. table[j].src \in Sender
            /\ Begins(table[j].data, table[j].src, table[j].seq_num)
      BY <3>1 DEF TableInv, Used
    <3> QED
      BY <1>3, <3>1, <3>2
  <2> QED
    BY <2>1, <2>2
<1> QED
  BY <1>3, <1>4, <1>5 DEF TableInv, OneEntryPerSource, Used

(* The data of a first fragment begin a packet, and those of a later one   *)
(* continue it.                                                            *)
LEMMA FirstBegins ==
  ASSUME NEW f, Sound(f), f.start_offset = 0
  PROVE  Begins(f.data, f.src, f.seq)
<1>1. \A k \in DOMAIN f.data : f.data[k].pos = 0 + k /\ k \in Nat
  BY SoundParts DEF Sound
<1> QED
  BY <1>1 DEF Sound, Begins

LEMMA Continues ==
  ASSUME NEW f, Sound(f), NEW d \in Seq(Byte), Begins(d, f.src, f.seq),
         Len(d) = f.start_offset
  PROVE  /\ d \o f.data \in Seq(Byte) /\ d \o f.data # <<>>
         /\ Begins(d \o f.data, f.src, f.seq)
         /\ Num(d \o f.data) = Num(f.data) /\ Src(d \o f.data) = f.src
         /\ f.end => Complete(d \o f.data)
<1> DEFINE c == d \o f.data
           n == Len(d)
           m == Len(f.data)
<1>1. /\ f.data \in Seq(Byte) /\ f.data # <<>> /\ n \in Nat /\ m \in Nat \ {0}
      /\ Num(f.data) \in Nat /\ Src(f.data) = f.src /\ m \in DOMAIN f.data
  BY SoundParts, LastByte
<1>2. /\ c \in Seq(Byte) /\ Len(c) = n + m
      /\ \A k \in 1 .. n + m : c[k] = IF k <= n THEN d[k] ELSE f.data[k - n]
  BY <1>1, ConcatProperties
<1>3. /\ DOMAIN c = 1 .. n + m /\ DOMAIN d = 1 .. n /\ DOMAIN f.data = 1 .. m
      /\ c # <<>>
  BY <1>1, <1>2, EmptySeq
<1> HIDE DEF c, n, m
<1>4. c[Len(c)] = f.data[m]
  BY <1>1, <1>2
<1>5. Num(c) = Num(f.data) /\ Src(c) = f.src
  BY <1>1, <1>4 DEF Num, Src, m
<1>6. ASSUME NEW k \in 1 .. n + m
      PROVE  c[k].src = f.src /\ c[k].pos = k /\ c[k].num % SeqMod = f.seq
  <2>1. CASE k <= n
    <3>1. k \in DOMAIN d /\ c[k] = d[k]
      BY <1>1, <1>2, <1>3, <2>1
    <3> QED
      BY <3>1 DEF Begins
  <2>2. CASE ~(k <= n)
    <3>1. k - n \in 1 .. m /\ c[k] = f.data[k - n]
      BY <1>1, <1>2, <2>2
    <3>2. /\ f.data[k - n].src = f.src /\ f.data[k - n].num = Num(f.data)
          /\ f.data[k - n].pos = f.start_offset + (k - n)
          /\ f.seq = Num(f.data) % SeqMod
      BY <1>3, <3>1 DEF Sound
    <3>3. f.start_offset + (k - n) = k
      BY <1>1 DEF n
    <3> QED
      BY <3>1, <3>2, <3>3
  <2> QED
    BY <2>1, <2>2
<1>7. Begins(c, f.src, f.seq)
  BY <1>3, <1>6 DEF Begins
<1>8. ASSUME f.end
      PROVE  Complete(c)
  <2>1. f.data[m].len = n + m
    BY <1>8 DEF Sound, m, n
  <2>2. c[Len(c)].src = f.src /\ c[Len(c)].num % SeqMod = f.seq
    BY <1>5 DEF Src, Num, Sound
  <2> QED
    BY <1>2, <1>4, <1>7, <2>1, <2>2 DEF Complete
<1> QED
  BY <1>2, <1>3, <1>5, <1>7, <1>8 DEF c

LEMMA WholeComplete ==
  ASSUME NEW f, Sound(f), f.start_offset = 0, f.end
  PROVE  Complete(f.data)
<1>1. Begins(f.data, f.src, f.seq)
  BY FirstBegins
<1>2. /\ f.data[Len(f.data)].len = 0 + Len(f.data) /\ Len(f.data) \in Nat
      /\ f.seq = Num(f.data) % SeqMod /\ Src(f.data) = f.src
  BY SoundParts DEF Sound
<1> QED
  BY <1>1, <1>2 DEF Complete, Num, Src

-----------------------------------------------------------------------------
(* The receiver *)

(* The frame received is the first of its source that was to come. *)
LEMMA Received ==
  ASSUME Inv, ReceiveFrame, NEW f, f = Head(heard)
  PROVE  /\ dll_receive_dll_frame(f) /\ Sound(f)
         /\ pc' = "network" /\ dll_rx_packet = <<>>
         /\ UNCHANGED <<senderVars, rx_packet, handed>>
         /\ SendersInv' /\ HeardInv'
         /\ Num(f.data) \in 1 .. count[f.src]
         /\ Ahead(f.src, Num(f.data))'
         /\ \A s \in Sender : Ahead(s, handed[s])'
         /\ handed[f.src] <= Num(f.data)
         /\ Waiting(rx_packet)'
         /\ rx_packet # <<>> /\ Src(rx_packet) = f.src => Num(rx_packet) <= Num(f.data)
<1>1. /\ pc = "receive" /\ pc' = "network" /\ heard # <<>> /\ heard' = Tail(heard)
      /\ dll_receive_dll_frame(f) /\ UNCHANGED <<senderVars, rx_packet, handed>>
  BY DEF ReceiveFrame, Goto
<1>2. UNCHANGED <<buffer, count, radio>>
  BY <1>1 DEF senderVars
<1>3. /\ heard \in Seq(Frame) /\ 1 \in 1 .. Len(heard) /\ f = heard[1]
      /\ heard' \in Seq(Frame) /\ Len(heard) \in Nat
      /\ Len(heard') = Len(heard) - 1
      /\ \A i \in 1 .. Len(heard') : /\ i + 1 \in 1 .. Len(heard)
                                     /\ heard'[i] = heard[i + 1]
  <2>1. heard \in Seq(Frame)
    BY DEF Inv, HeardInv
  <2>2. Len(heard) \in Nat \ {0}
    BY <1>1, <2>1, EmptySeq
  <2> QED
    BY <1>1, <2>1, <2>2, HeadTailProperties
<1>4. dll_rx_packet = <<>>
  BY <1>1 DEF Inv, PacketsInv, PacketTaken
<1>5. SendersInv'
  BY <1>2 DEF Inv, SendersInv
<1>6. HeardInv'
  <2>1. ASSUME NEW i \in 1 .. Len(heard')
        PROVE  /\ Sound(heard'[i])
               /\ Num(heard'[i].data) \in 1 .. count'[heard'[i].src]
               /\ radio'[heard'[i].src] # <<>> =>
                    Num(heard'[i].data) <= Num(radio'[heard'[i].src][1].data)
    BY <1>2, <1>3 DEF Inv, HeardInv
  <2>2. ASSUME NEW i \in 1 .. Len(heard'), NEW j \in i .. Len(heard'),
               heard'[j].src = heard'[i].src
        PROVE  Num(heard'[i].data) <= Num(heard'[j].data)
    <3>1. j \in 1 .. Len(heard') /\ j + 1 \in i + 1 .. Len(heard)
      BY <1>3
    <3>2. /\ i + 1 \in 1 .. Len(heard)
          /\ heard'[i] = heard[i + 1] /\ heard'[j] = heard[j + 1]
      BY <1>3, <3>1
    <3> QED
      BY <2>2, <3>1, <3>2 DEF Inv, HeardInv
  <2> QED
    BY <1>3, <2>1, <2>2 DEF HeardInv
<1>7. Sound(f) /\ Num(f.data) \in 1 .. count[f.src] /\ f.src \in Sender
  BY <1>3, SoundParts DEF Inv, HeardInv
<1>8. Ahead(f.src, Num(f.data))
  <2>1. radio[f.src] # <<>> => Num(f.data) <= Num(radio[f.src][1].data)
    BY <1>3 DEF Inv, HeardInv
  <2>2. \A j \in 1 .. Len(heard) : heard[j].src = f.src => Num(f.data) <= Num(heard[j].data)
    BY <1>3 DEF Inv, HeardInv
  <2> QED
    BY <1>7, <2>1, <2>2 DEF Ahead
<1>9. ASSUME NEW s, NEW n, Ahead(s, n)
      PROVE  Ahead(s, n)'
  BY <1>1, <1>2, <1>3, <1>9, AheadTail
<1>10. ASSUME NEW s, NEW n, Ahead(s, n), f.src = s
       PROVE  n <= Num(f.data)
  BY <1>3, <1>10 DEF Ahead
<1>11. \A s \in Sender : Ahead(s, handed[s])
  BY DEF Inv, HandedInv
<1>12. Ahead(f.src, Num(f.data))'
  BY <1>8, <1>9
<1>13. \A s \in Sender : Ahead(s, handed[s])'
  BY <1>1, <1>9, <1>11 DEF Ahead
<1>14. handed[f.src] <= Num(f.data)
  BY <1>7, <1>10, <1>11
<1>15. Waiting(rx_packet)
  BY DEF Inv, PacketsInv
<1>16. rx_packet # <<>> => Ahead(Src(rx_packet), Num(rx_packet))'
  BY <1>1, <1>9, <1>15 DEF Waiting, Ahead
<1>17. Waiting(rx_packet)'
  BY <1>1, <1>2, <1>15, <1>16 DEF Waiting
<1>18. rx_packet # <<>> /\ Src(rx_packet) = f.src => Num(rx_packet) <= Num(f.data)
  BY <1>10, <1>15 DEF Waiting
<1> QED
  BY <1>1, <1>4, <1>5, <1>6, <1>7, <1>12, <1>13, <1>14, <1>17, <1>18

(* The packet that is complete then, if any, is that of the frame. *)
LEMMA PacketReceived ==
  ASSUME Inv, ReceiveFrame, NEW f, f = Head(heard), TableInv',
         dll_rx_packet' # <<>> =>
           /\ dll_rx_packet' \in Seq(Byte) /\ Complete(dll_rx_packet')
           /\ Num(dll_rx_packet') = Num(f.data) /\ Src(dll_rx_packet') = f.src
  PROVE  Inv'
<1>1. /\ Sound(f) /\ pc' = "network"
      /\ UNCHANGED <<senderVars, rx_packet, handed>>
      /\ SendersInv' /\ HeardInv'
      /\ Num(f.data) \in 1 .. count[f.src]
      /\ Ahead(f.src, Num(f.data))'
      /\ \A s \in Sender : Ahead(s, handed[s])'
      /\ handed[f.src] <= Num(f.data)
      /\ Waiting(rx_packet)'
      /\ rx_packet # <<>> /\ Src(rx_packet) = f.src => Num(rx_packet) <= Num(f.data)
  BY Received
<1>2. dll_rx_packet' # <<>> =>
        /\ dll_rx_packet' \in Seq(Byte) /\ Complete(dll_rx_packet')
        /\ Num(dll_rx_packet') = Num(f.data) /\ Src(dll_rx_packet') = f.src
  OBVIOUS
<1>4. count' = count
  BY <1>1 DEF senderVars
<1>5. Waiting(dll_rx_packet)'
  <2>1. dll_rx_packet' = <<>> => dll_rx_packet' \in Seq(Byte) /\ Complete(dll_rx_packet')
    BY DEF Complete
  <2>2. dll_rx_packet' # <<>> => Ahead(Src(dll_rx_packet), Num(dll_rx_packet))'
    BY <1>1, <1>2 DEF Ahead
  <2> QED
    BY <1>1, <1>2, <1>4, <2>1, <2>2 DEF Waiting, Complete
<1>6. PacketsInv'
  BY <1>1, <1>2, <1>5 DEF PacketsInv, PacketTaken
<1>7. HandedInv'
  BY <1>1, <1>2 DEF HandedInv, Inv
<1> QED
  BY <1>1, <1>6, <1>7 DEF Inv

LEMMA ReceiveFrameStep ==
  ASSUME Inv, ReceiveFrame
  PROVE  Inv'
<1> PICK f : f = Head(heard)
  OBVIOUS
<1>1. /\ dll_receive_dll_frame(f) /\ Sound(f) /\ dll_rx_packet = <<>>
  BY Received
<1>2. /\ TableInv /\ table \in [Slot -> Entry]
      /\ f \in Frame /\ f.src \in Sender /\ f.data \in Seq(Byte) /\ f.data # <<>>
      /\ Src(f.data) = f.src /\ f.seq \in 0 .. SeqMod - 1
  BY <1>1, SoundParts, FrameParts DEF Inv, TableInv
<1>3. UNCHANGED table => TableInv'
  BY <1>2 DEF TableInv, OneEntryPerSource, Used
<1>4. ASSUME Matches(table, f) # {}
      PROVE  LET i == Least(Matches(table, f))
             IN  /\ i \in Slot /\ ~table[i].free /\ table[i].src = f.src
                 /\ table[i].seq_num = f.seq /\ Len(table[i].data) = f.start_offset
                 /\ table[i].data \in Seq(Byte) /\ Begins(table[i].data, f.src, f.seq)
                 /\ \A j \in Slot : table[j].src = f.src => j = i
  <2> DEFINE i == Least(Matches(table, f))
  <2>1. Matches(table, f) \subseteq {j \in Slot : table[j].src = f.src}
    BY DEF Matches, Used
  <2>2. i \in Matches(table, f) /\ i \in Slot /\ \A j \in Slot : table[j].src = f.src => j = i
    BY <1>2, <1>4, <2>1, OwnEntry
  <2> HIDE DEF i
  <2>3. /\ ~table[i].free /\ table[i].src = f.src /\ table[i].seq_num = f.seq
        /\ Len(table[i].data) = f.start_offset /\ i \in Used(table)
    BY <2>2 DEF Matches, Used
  <2>4. table[i].data \in Seq(Byte)
    BY <1>2, <2>2, EntryParts
  <2>5. Begins(table[i].data, f.src, f.seq)
    BY <1>2, <2>3 DEF TableInv
  <2> QED
    BY <2>2, <2>3, <2>4, <2>5 DEF i
<1>5. CASE RefuseFrame(f)
  BY <1>1, <1>3, <1>5, PacketReceived DEF RefuseFrame
<1>6. CASE NoMatch(f)
  BY <1>1, <1>3, <1>6, PacketReceived DEF NoMatch
<1>7. CASE WholePacket(f)
  <2>1. dll_rx_packet' = f.data /\ UNCHANGED table /\ f.start_offset = 0 /\ f.end
    BY <1>1, <1>7 DEF WholePacket, IsWhole
  <2>2. Complete(f.data)
    BY <1>1, <2>1, WholeComplete
  <2> QED
    BY <1>2, <1>3, <2>1, <2>2, PacketReceived
<1>8. CASE FirstFragment(f)
  <2> DEFINE i == EntryFor(table, f.src)
             e == [free |-> FALSE, order |-> 0, src |-> f.src, seq_num |-> f.seq,
                   data |-> f.data]
  <2>1. /\ table' = dll_reorder_rx_table([table EXCEPT ![i] = e])
        /\ f.start_offset = 0 /\ dll_rx_packet' = dll_rx_packet
    BY <1>8 DEF FirstFragment
  <2>2. \A j \in Slot : table[j].src = f.src => j = i
    <3> DEFINE own == {j \in Slot : table[j].src = f.src}
    <3>1. CASE own = {}
      BY <3>1
    <3>2. CASE own # {}
      <4>1. i = Least(own)
        BY <3>2 DEF EntryFor
      <4> QED
        BY <1>2, <3>2, <4>1, OwnEntry
    <3> QED
      BY <3>1, <3>2
  <2>3. e \in Entry /\ e.src = f.src /\ e.seq_num = f.seq /\ e.data = f.data
    BY <1>2 DEF Entry
  <2> HIDE DEF i, e
  <2>4. Begins(f.data, f.src, f.seq)
    BY <1>1, <2>1, FirstBegins
  <2>5. TableInv'
    <3>1. /\ e.src \in Sender /\ Begins(e.data, e.src, e.seq_num)
          /\ \A j \in Slot : table[j].src = e.src => j = i
      BY <1>2, <2>2, <2>3, <2>4
    <3> QED
      BY <1>2, <2>1, <2>3, <3>1, TableTakes
  <2> QED
    BY <1>1, <2>1, <2>5, PacketReceived
<1>9. CASE NextFragment(f)
  <2> DEFINE i == Least(Matches(table, f))
             e == [table[i] EXCEPT !.order = 0, !.data = table[i].data \o f.data]
  <2>1. /\ table' = dll_reorder_rx_table([table EXCEPT ![i] = e])
        /\ Matches(table, f) # {} /\ dll_rx_packet' = dll_rx_packet
    BY <1>9 DEF NextFragment
  <2>2. /\ i \in Slot /\ table[i].src = f.src /\ table[i].seq_num = f.seq
        /\ Len(table[i].data) = f.start_offset
        /\ table[i].data \in Seq(Byte) /\ Begins(table[i].data, f.src, f.seq)
        /\ \A j \in Slot : table[j].src = f.src => j = i
    BY <1>4, <2>1
  <2>3. /\ table[i].data \o f.data \in Seq(Byte)
        /\ Begins(table[i].data \o f.data, f.src, f.seq)
    BY <1>1, <2>2, Continues
  <2>4. table[i] \in Entry
    BY <1>2, <2>2
  <2> HIDE DEF i
  <2>5. /\ e \in Entry /\ e.src = f.src /\ e.seq_num = f.seq
        /\ e.data = table[i].data \o f.data
    BY <2>2, <2>3, <2>4 DEF Entry
  <2> HIDE DEF e
  <2>6. TableInv'
    <3>1. /\ e.src \in Sender /\ Begins(e.data, e.src, e.seq_num)
          /\ \A j \in Slot : table[j].src = e.src => j = i
      BY <1>2, <2>2, <2>3, <2>5
    <3> QED
      BY <1>2, <2>1, <2>5, <3>1, TableTakes
  <2> QED
    BY <1>1, <2>1, <2>6, PacketReceived
<1>10. CASE LastFragment(f)
  <2> DEFINE i == Least(Matches(table, f))
  <2>1. /\ Matches(table, f) # {} /\ f.end
        /\ dll_rx_packet' = table[i].data \o f.data
        /\ table' = [table EXCEPT ![i].free = TRUE]
    BY <1>1, <1>10 DEF LastFragment
  <2>2. /\ i \in Slot /\ Len(table[i].data) = f.start_offset
        /\ table[i].data \in Seq(Byte) /\ Begins(table[i].data, f.src, f.seq)
    BY <1>4, <2>1
  <2> HIDE DEF i
  <2>3. /\ dll_rx_packet' \in Seq(Byte) /\ Complete(dll_rx_packet')
        /\ Num(dll_rx_packet') = Num(f.data) /\ Src(dll_rx_packet') = f.src
    BY <1>1, <2>1, <2>2, Continues
  <2>4. /\ table' \in [Slot -> Entry]
        /\ \A j \in Slot : /\ table'[j].src = table[j].src
                           /\ table'[j].seq_num = table[j].seq_num
                           /\ table'[j].data = table[j].data
                           /\ ~table'[j].free => ~table[j].free
    <3> DEFINE g == [table[i] EXCEPT !.free = TRUE]
    <3>1. table[i] \in Entry
      BY <1>2, <2>2
    <3>2. /\ g \in Entry /\ g.src = table[i].src /\ g.seq_num = table[i].seq_num
          /\ g.data = table[i].data /\ g.free = TRUE
      BY <3>1 DEF Entry
    <3>3. table' = [table EXCEPT ![i] = g]
      BY <2>1
    <3> HIDE DEF g
    <3> QED
      BY <1>2, <3>2, <3>3
  <2>5. TableInv'
    BY <1>2, <2>4 DEF TableInv, OneEntryPerSource, Used
  <2> QED
    BY <2>3, <2>5, PacketReceived
<1> QED
  BY <1>1, <1>5, <1>6, <1>7, <1>8, <1>9, <1>10 DEF dll_receive_dll_frame

(* The packet moves from one buffer to the next. *)
LEMMA LoopStep ==
  ASSUME Inv, NetworkRx \/ dll_get_rx_packet \/ NoFrame \/ UNCHANGED vars
  PROVE  Inv'
<1>1. UNCHANGED <<buffer, count, radio, heard, table>>
  BY DEF NetworkRx, dll_get_rx_packet, NoFrame, senderVars, receiverVars, vars
<1>2. SendersInv' /\ HeardInv' /\ TableInv'
  BY <1>1 DEF Inv, SendersInv, HeardInv, TableInv, OneEntryPerSource, Used
<1>3. ASSUME NEW s, NEW n, Ahead(s, n)
      PROVE  Ahead(s, n)'
  BY <1>1, <1>3 DEF Ahead
<1>4. ASSUME NEW d, Waiting(d)
      PROVE  Waiting(d)'
  BY <1>1, <1>4 DEF Waiting, Ahead
<1>5. Waiting(<<>>) /\ Waiting(<<>>)'
  BY DEF Waiting, Complete
<1>6. Waiting(dll_rx_packet) /\ Waiting(rx_packet) /\ PacketTaken
  BY DEF Inv, PacketsInv
<1>7. CASE NetworkRx
  <2> DEFINE n == Num(rx_packet)
             s == Src(rx_packet)
  <2>1. /\ pc = "network" /\ pc' = "take" /\ rx_packet' = <<>>
        /\ UNCHANGED dll_rx_packet
        /\ handed' = IF rx_packet = <<>> THEN handed ELSE [handed EXCEPT ![s] = n]
    BY <1>7 DEF NetworkRx, Goto, Num, Src
  <2>2. rx_packet # <<>> => s \in Sender /\ n \in Nat /\ Ahead(s, n)
    BY <1>6, LastByte DEF Waiting
  <2> HIDE DEF n, s
  <2>3. handed' \in [Sender -> Nat]
    BY <2>1, <2>2 DEF Inv, HandedInv
  <2>4. PacketsInv'
    <3>1. Waiting(dll_rx_packet)' /\ Waiting(rx_packet)'
      BY <1>4, <1>5, <1>6, <2>1 DEF Waiting, Ahead
    <3> QED
      BY <2>1, <3>1 DEF PacketsInv, PacketTaken
  <2>5. ASSUME NEW t \in Sender
        PROVE  /\ Ahead(t, handed'[t])
               /\ dll_rx_packet # <<>> /\ Src(dll_rx_packet) = t
                    => handed'[t] <= Num(dll_rx_packet)
    <3>1. CASE rx_packet # <<>> /\ s = t
      <4>1. handed'[t] = n
        BY <2>1, <3>1 DEF Inv, HandedInv
      <4>2. dll_rx_packet # <<>> /\ Src(dll_rx_packet) = t => n <= Num(dll_rx_packet)
        BY <3>1 DEF Inv, PacketsInv, n, s
      <4> QED
        BY <2>2, <3>1, <4>1, <4>2
    <3>2. CASE rx_packet = <<>> \/ s # t
      <4>1. handed'[t] = handed[t]
        BY <2>1, <3>2 DEF Inv, HandedInv
      <4> QED
        BY <4>1 DEF Inv, HandedInv
    <3> QED
      BY <3>1, <3>2
  <2>6. HandedInv'
    BY <1>1, <2>1, <2>3, <2>5 DEF HandedInv, Ahead
  <2> QED
    BY <1>2, <2>4, <2>6 DEF Inv
<1>8. CASE dll_get_rx_packet
  <2>1. /\ pc = "take" /\ pc' = "receive" /\ rx_packet = <<>> /\ UNCHANGED handed
        /\ dll_rx_packet' = <<>> /\ rx_packet' = dll_rx_packet
    BY <1>6, <1>8 DEF dll_get_rx_packet, Goto, PacketTaken
  <2>2. PacketsInv'
    <3>1. Waiting(dll_rx_packet)' /\ Waiting(rx_packet)'
      BY <1>4, <1>5, <1>6, <2>1 DEF Waiting, Ahead
    <3> QED
      BY <2>1, <3>1 DEF PacketsInv, PacketTaken
  <2>3. HandedInv'
    BY <1>1, <2>1 DEF Inv, HandedInv, Ahead
  <2> QED
    BY <1>2, <2>2, <2>3 DEF Inv
<1>9. CASE NoFrame \/ UNCHANGED vars
  <2>1. /\ UNCHANGED <<dll_rx_packet, rx_packet, handed>>
        /\ UNCHANGED pc \/ pc' = "network"
    BY <1>9 DEF NoFrame, Goto, vars, receiverVars
  <2>2. PacketsInv'
    <3>1. Waiting(dll_rx_packet)' /\ Waiting(rx_packet)'
      BY <1>4, <1>6, <2>1 DEF Waiting, Ahead
    <3> QED
      BY <2>1, <3>1 DEF Inv, PacketsInv, PacketTaken
  <2>3. HandedInv'
    BY <1>1, <2>1 DEF Inv, HandedInv, Ahead
  <2> QED
    BY <1>2, <2>2, <2>3 DEF Inv
<1> QED
  BY <1>7, <1>8, <1>9

LEMMA NextInv ==
  ASSUME Inv, [Next]_vars
  PROVE  Inv'
BY NetTxStep, dll_get_tx_frame_Step, TransmitStep, ReceiveFrameStep, LoopStep DEF Next

-----------------------------------------------------------------------------
(* Theorems *)

(* The bytes of a packet are those of one source and in place wherever they *)
(* are, and nothing before them in the order of their source follows.       *)
THEOREM Invariance == Spec => []Inv
<1>1. Init => Inv
  BY InitInv
<1>2. Inv /\ [Next]_vars => Inv'
  BY NextInv
<1> QED
  BY <1>1, <1>2, PTL DEF Spec

(* A source never has two entries of the reassembly table, whatever the size *)
(* of the table (datalink.c:150).                                          *)
THEOREM OneEntry == Spec => []OneEntryPerSource
<1>1. Inv => OneEntryPerSource
  BY DEF Inv, TableInv
<1> QED
  BY <1>1, Invariance, PTL

(* No packet is complete when a frame is received (main.c:173, :212). *)
THEOREM Taken == Spec => []PacketTaken
<1>1. Inv => PacketTaken
  BY DEF Inv, PacketsInv
<1> QED
  BY <1>1, Invariance, PTL

(* For every size of packet and frame, what is put together is without gap  *)
(* and what is handed over is complete (datalink.c:125-148).                *)
THEOREM ReassembledWhole == Spec => []Reassembled
<1>1. Inv => Reassembled
  BY DEF Inv, TableInv, PacketsInv, Waiting, Reassembled
<1> QED
  BY <1>1, Invariance, PTL

(* The layer implements PacketLink: the packets of a source reach the        *)
(* network layer in the order they were queued, repeated or lost.           *)
THEOREM ImplementsPacketLink == Spec => IsPacketLink
<1>1. Init => Link!Init
  BY DEF Init, Link!Init
<1>2. ASSUME Inv, [Next]_vars
      PROVE  [Link!Next]_Link!linkVars
  <2>1. ASSUME NEW s \in Sender, NetTx(s)
        PROVE  Link!Queue(s) \/ UNCHANGED Link!linkVars
    BY <2>1 DEF NetTx, Link!Queue, Link!linkVars, receiverVars
  <2>2. CASE NetworkRx
    <3>1. CASE rx_packet = <<>>
      BY <2>2, <3>1 DEF NetworkRx, senderVars, Link!linkVars
    <3>2. CASE rx_packet # <<>>
      <4> DEFINE s == Src(rx_packet)
                 n == Num(rx_packet)
      <4>1. handed' = [handed EXCEPT ![s] = n] /\ UNCHANGED count
        BY <2>2, <3>2 DEF NetworkRx, senderVars, Num, Src
      <4>2. s \in Sender /\ n \in 1 .. count[s]
        BY <1>2, <3>2, LastByte DEF Inv, PacketsInv, Waiting
      <4>3. handed[s] \in Nat /\ handed[s] <= n /\ count[s] \in Nat
        BY <1>2, <3>2, <4>2 DEF Inv, HandedInv, SendersInv
      <4> HIDE DEF s, n
      <4>4. n \in (handed[s] .. count[s]) \ {0}
        BY <4>2, <4>3
      <4>5. Link!HandOver(s)
        BY <4>1, <4>4 DEF Link!HandOver
      <4> QED
        BY <4>2, <4>5 DEF Link!Next
    <3> QED
      BY <3>1, <3>2
  <2>3. ASSUME NEW s \in Sender, dll_get_tx_frame(s) \/ Transmit(s)
        PROVE  UNCHANGED Link!linkVars
    BY <2>3 DEF dll_get_tx_frame, Transmit, receiverVars, Link!linkVars
  <2>4. CASE dll_get_rx_packet \/ NoFrame \/ ReceiveFrame \/ UNCHANGED vars
    BY <2>4 DEF dll_get_rx_packet, NoFrame, ReceiveFrame, senderVars, receiverVars,
                vars, Link!linkVars
  <2> QED
    BY <1>2, <2>1, <2>2, <2>3, <2>4 DEF Next, Link!Next
<1> QED
  BY <1>1, <1>2, Invariance, PTL DEF Spec, IsPacketLink, Link!Spec

=============================================================================
